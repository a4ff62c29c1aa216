-------------------------- MODULE PicoTimersProofs --------------------------
(***************************************************************************)
(* The heap of picoTCP's timers stays inside the blocks it has allocated    *)
(* and in order, it refers to every timer that is set, and no timer is      *)
(* called before its time: for every size and number of blocks, every width *)
(* of the clock and every set of delays.                                    *)
(***************************************************************************)
EXTENDS PicoTimers, FiniteSetTheorems, TLAPS

\* The heap as a record with its counters; what the cells hold does not matter here.
HeapRec(h) ==
    /\ h = [size |-> h.size, n |-> h.n, cells |-> h.cells, alloc |-> h.alloc]
    /\ h.size \in Nat /\ h.n \in Nat
    /\ h.alloc \in [0 .. Blocks - 1 -> Nat]

InBlock(h, i) == i \in Cells /\ i % Epb < h.alloc[i \div Epb]

\* HeapInBounds is not inductive: after elements have been removed the cells up to
\* size - 1 must still be allocated, because heap_insert reuses them unasked.
BoundsOf(h) ==
    /\ HeapRec(h)
    /\ h.n <= h.size
    /\ \A i \in 0 .. h.size - 1 : InBlock(h, i)
    /\ h.n > 0 => InBlock(h, h.n)

BoundsInv == BoundsOf(heap)

\* Quotient and remainder are unique.
LEMMA DivModUnique ==
    ASSUME NEW E \in Nat \ {0}, NEW q \in Nat, NEW r \in 0 .. E - 1
    PROVE  (E * q + r) \div E = q /\ (E * q + r) % E = r
OBVIOUS

\* A cell's block and place in the block.
LEMMA DivModParts ==
    ASSUME NEW E \in Nat \ {0}, NEW i \in Nat
    PROVE  /\ i \div E \in Nat /\ i % E \in 0 .. E - 1
           /\ i = E * (i \div E) + (i % E)
<1>1. i \div E \in Int /\ i % E \in Int
  OBVIOUS
<1>2. i % E \in 0 .. E - 1
  OBVIOUS
<1>3. i = E * (i \div E) + (i % E)
  OBVIOUS
<1>4. i \div E >= 0
  OBVIOUS
<1> QED
  BY <1>1, <1>2, <1>3, <1>4

\* A cell of the array is in one of its blocks.
LEMMA CellBlock ==
    ASSUME NEW i \in Cells
    PROVE  i \in Nat /\ i \div Epb \in 0 .. Blocks - 1 /\ i % Epb \in 0 .. Epb - 1
<1>1. Epb \in Nat \ {0} /\ Blocks \in Nat \ {0} /\ i \in Nat /\ i < Epb * Blocks
  BY TimersAssumption DEF Cells
<1>2. /\ i \div Epb \in Nat /\ i % Epb \in 0 .. Epb - 1
      /\ i = Epb * (i \div Epb) + (i % Epb)
  BY <1>1, DivModParts
<1>3. ASSUME i \div Epb >= Blocks PROVE FALSE
  <2>1. Epb * (i \div Epb) >= Epb * Blocks
    BY <1>1, <1>2, <1>3
  <2> QED
    BY <1>1, <1>2, <2>1
<1> QED
  BY <1>1, <1>2, <1>3

\* The number of elements heap_increase_size allocates: those up to n.
LEMMA Elements ==
    ASSUME NEW n \in Nat
    PROVE  (IF (n + 1) % Epb = 0 THEN Epb ELSE (n + 1) % Epb) = (n % Epb) + 1
<1>1. Epb \in Nat \ {0}
  BY TimersAssumption
<1>2. PICK q \in Nat, r \in 0 .. Epb - 1 : n = Epb * q + r /\ r = n % Epb
  BY <1>1, DivModParts
<1>3. CASE r + 1 < Epb
  <2>1. r + 1 \in 0 .. Epb - 1
    BY <1>1, <1>3
  <2>2. (Epb * q + (r + 1)) % Epb = r + 1
    BY <1>1, <2>1, DivModUnique
  <2>3. n + 1 = Epb * q + (r + 1)
    BY <1>1, <1>2
  <2> QED
    BY <1>2, <2>2, <2>3
<1>4. CASE r + 1 = Epb
  <2>1. (Epb * (q + 1) + 0) % Epb = 0
    BY <1>1, DivModUnique
  <2>2. Epb * (q + 1) + 0 = Epb * q + Epb
    BY <1>1
  <2>3. Epb * q \in Int
    BY <1>1
  <2>4. n + 1 = Epb * q + Epb
    <3> DEFINE m == Epb * q
    <3>1. n = m + r /\ m \in Int /\ r \in Int
      BY <1>2, <2>3
    <3> HIDE DEF m
    <3>2. n + 1 = m + Epb
      BY <1>1, <1>4, <3>1
    <3> QED
      BY <3>2 DEF m
  <2> QED
    BY <1>2, <1>4, <2>1, <2>2, <2>4
<1> QED
  BY <1>1, <1>3, <1>4

\* Two cells of one block are in the order of their places in it.
LEMMA SameBlock ==
    ASSUME NEW i \in Nat, NEW j \in Nat, i <= j, i \div Epb = j \div Epb
    PROVE  i % Epb <= j % Epb
<1>1. Epb \in Nat \ {0}
  BY TimersAssumption
<1>2. PICK q \in Nat, r \in 0 .. Epb - 1 : q = i \div Epb /\ r = i % Epb /\ i = Epb * q + r
  BY <1>1, DivModParts
<1>3. j % Epb \in 0 .. Epb - 1 /\ j = Epb * (j \div Epb) + (j % Epb)
  BY <1>1, DivModParts
<1>4. j = Epb * q + (j % Epb)
  BY <1>2, <1>3
<1> QED
  BY <1>1, <1>2, <1>3, <1>4

\* heap_increase_size of a heap whose n has just been raised gives cell n a place
\* and keeps those below it.
LEMMA IncreaseBounds ==
    ASSUME NEW h, HeapRec(h), h.n > 0, h.n \in Cells, h.size <= h.n,
           \A i \in 0 .. h.n - 1 : h.n > 1 => InBlock(h, i)
    PROVE  /\ HeapRec(heap_increase_size(h))
           /\ heap_increase_size(h).n = h.n
           /\ heap_increase_size(h).size = h.size + 1
           /\ \A i \in 0 .. h.n : InBlock(heap_increase_size(h), i)
<1> DEFINE b == h.n \div Epb
           g == heap_increase_size(h)
<1>1. h.n \in Nat /\ b \in 0 .. Blocks - 1 /\ (h.n % Epb) + 1 \in Nat
  BY CellBlock DEF HeapRec
<1>2. g = [h EXCEPT !.size = h.size + 1, !.alloc[b] = (h.n % Epb) + 1, !.cells = g.cells]
  BY <1>1, Elements DEF heap_increase_size, HeapRec
<1>3. /\ HeapRec(g) /\ g.n = h.n /\ g.size = h.size + 1
      /\ g.alloc = [h.alloc EXCEPT ![b] = (h.n % Epb) + 1]
  <2>1. g = [size |-> h.size + 1, n |-> h.n, cells |-> g.cells,
             alloc |-> [h.alloc EXCEPT ![b] = (h.n % Epb) + 1]]
    BY <1>1, <1>2 DEF HeapRec
  <2>2. [h.alloc EXCEPT ![b] = (h.n % Epb) + 1] \in [0 .. Blocks - 1 -> Nat]
    BY <1>1 DEF HeapRec
  <2> HIDE DEF b, g
  <2>3. /\ g.size = h.size + 1 /\ g.n = h.n
        /\ g.alloc = [h.alloc EXCEPT ![b] = (h.n % Epb) + 1]
    BY <2>1
  <2>4. g = [size |-> g.size, n |-> g.n, cells |-> g.cells, alloc |-> g.alloc]
    BY <2>1, <2>3
  <2>5. h.size + 1 \in Nat /\ h.n \in Nat
    BY DEF HeapRec
  <2> QED
    BY <2>2, <2>3, <2>4, <2>5 DEF HeapRec
<1>4. ASSUME NEW i \in 0 .. h.n PROVE InBlock(g, i)
  <2>1. i \in Cells
    BY <1>1, TimersAssumption DEF Cells
  <2>2. i \in Nat /\ i \div Epb \in 0 .. Blocks - 1 /\ i % Epb \in 0 .. Epb - 1
    BY <2>1, CellBlock
  <2>3. CASE i \div Epb = b
    <3>1. i % Epb <= h.n % Epb
      BY <1>1, <1>4, <2>2, <2>3, SameBlock
    <3>2. g.alloc[i \div Epb] = (h.n % Epb) + 1
      BY <1>1, <1>3, <2>3 DEF HeapRec
    <3>3. i % Epb < g.alloc[i \div Epb]
      <4> HIDE DEF g, b
      <4> QED
        BY <1>1, <2>2, <3>1, <3>2, CellBlock
    <3> QED
      BY <2>1, <3>3 DEF InBlock
  <2>4. CASE i \div Epb # b
    <3>1. i < h.n /\ g.alloc[i \div Epb] = h.alloc[i \div Epb]
      BY <1>1, <1>3, <2>2, <2>4 DEF HeapRec
    <3>2. CASE h.n > 1
      BY <1>1, <2>1, <3>1, <3>2 DEF InBlock
    <3>3. CASE h.n = 1
      <4>1. Epb \in Nat /\ Epb > 1 /\ i = 0
        BY <1>1, <3>1, <3>3, TimersAssumption
      <4>2. (Epb * 0 + 0) \div Epb = 0 /\ (Epb * 0 + 1) \div Epb = 0
        BY <4>1, DivModUnique
      <4> QED
        BY <2>4, <3>3, <4>1, <4>2
    <3> QED
      BY <1>1, <3>1, <3>2, <3>3
  <2> QED
    BY <2>3, <2>4
<1> QED
  BY <1>3, <1>4

\* A sift changes cells only.
LEMMA SiftUpBounds ==
    ASSUME NEW h, NEW el, BoundsOf(h)
    PROVE  BoundsOf(SiftUp(h, el))
<1> DEFINE g == SiftUp(h, el)
<1>1. g = [size |-> h.size, n |-> h.n, cells |-> g.cells, alloc |-> h.alloc]
  BY DEF SiftUp, BoundsOf, HeapRec
<1> HIDE DEF g
<1>2. g.size = h.size /\ g.n = h.n /\ g.alloc = h.alloc
  BY <1>1
<1>3. BoundsOf(g)
  BY <1>1, <1>2 DEF BoundsOf, HeapRec, InBlock
<1> QED
  BY <1>3 DEF g

\* heap_insert keeps the bounds: it grows the heap before it uses a new cell.
LEMMA InsertBounds ==
    ASSUME NEW h, NEW el, BoundsOf(h), ~Full(h)
    PROVE  BoundsOf(heap_insert(h, el))
<1> DEFINE more == [h EXCEPT !.n = h.n + 1]
<1>1. /\ more = [size |-> h.size, n |-> h.n + 1, cells |-> h.cells, alloc |-> h.alloc]
      /\ more.n = h.n + 1 /\ more.size = h.size /\ more.alloc = h.alloc
      /\ h.n \in Nat /\ h.size \in Nat /\ HeapRec(more)
  BY DEF BoundsOf, HeapRec
<1>2. heap_insert(h, el) =
        SiftUp(IF h.n + 1 >= h.size THEN heap_increase_size(more) ELSE more, el)
  BY <1>1 DEF heap_insert
<1>3. CASE h.n + 1 >= h.size
  <2> DEFINE g == heap_increase_size(more)
  <2>1. h.n + 1 \in Cells
    BY <1>1, <1>3, TimersAssumption DEF Full, Cells
  <2>2. h.n > 0 => \A i \in 0 .. h.n : InBlock(more, i)
    <3>1. \A i \in 0 .. h.n : i \in 0 .. h.size - 1 \/ i = h.n
      BY <1>1, <1>3, SMT DEF BoundsOf
    <3> QED
      BY <1>1, <3>1 DEF BoundsOf, InBlock
  <2>3. /\ HeapRec(g) /\ g.n = h.n + 1 /\ g.size = h.size + 1
        /\ \A i \in 0 .. h.n + 1 : InBlock(g, i)
    <3> HIDE DEF more
    <3>1. more.size <= more.n /\ more.n > 0 /\ more.n \in Cells
      BY <1>1, <1>3, <2>1
    <3>2. \A i \in 0 .. more.n - 1 : more.n > 1 => InBlock(more, i)
      BY <1>1, <2>2
    <3> QED
      BY <1>1, <3>1, <3>2, IncreaseBounds
  <2> HIDE DEF g
  <2>4. BoundsOf(g)
    BY <1>1, <1>3, <2>3 DEF BoundsOf
  <2> QED
    BY <1>2, <1>3, <2>4, SiftUpBounds DEF g
<1>4. CASE h.n + 1 < h.size
  <2>1. BoundsOf(more)
    BY <1>1, <1>4 DEF BoundsOf, InBlock
  <2> HIDE DEF more
  <2> QED
    BY <1>1, <1>2, <1>4, <2>1, SiftUpBounds
<1> QED
  BY <1>1, <1>3, <1>4

\* heap_peek keeps them.
LEMMA PeekBounds ==
    ASSUME NEW h, BoundsOf(h), h.n > 0
    PROVE  BoundsOf(heap_peek(h))
<1> DEFINE g == heap_peek(h)
           c == SiftDown([h EXCEPT !.n = @ - 1], h.cells[h.n])
<1>0. g = [h EXCEPT !.n = h.n - 1, !.cells = c]
  BY DEF heap_peek
<1> HIDE DEF g, c
<1>1. g = [size |-> h.size, n |-> h.n - 1, cells |-> g.cells, alloc |-> h.alloc]
  BY <1>0 DEF BoundsOf, HeapRec
<1>2. g.size = h.size /\ g.n = h.n - 1 /\ g.alloc = h.alloc
  BY <1>1
<1>3. h.n \in Nat /\ h.size \in Nat /\ h.n - 1 \in Nat /\ h.n - 1 \in 0 .. h.size - 1
  BY DEF BoundsOf, HeapRec
<1>4. HeapRec(g)
  BY <1>1, <1>2, <1>3 DEF BoundsOf, HeapRec
<1>5. BoundsOf(g)
  BY <1>2, <1>3, <1>4 DEF BoundsOf, InBlock
<1> QED
  BY <1>5 DEF g

\* The invariant says what is needed of the cells in use.
LEMMA BoundsEnough == ASSUME BoundsInv PROVE HeapInBounds
<1>1. heap.n \in Nat /\ heap.size \in Nat
  BY DEF BoundsInv, BoundsOf, HeapRec
<1>2. ASSUME heap.n > 0, NEW i \in 0 .. heap.n PROVE i \in 0 .. heap.size - 1 \/ i = heap.n
  BY <1>1, <1>2 DEF BoundsInv, BoundsOf
<1> QED
  BY <1>1, <1>2 DEF BoundsInv, BoundsOf, HeapInBounds, InBlock, Allocated

\* A callback runs for a reference that is still in the heap: what CheckFrees removes
\* exists.
TimersInv == BoundsInv /\ (pc = "callback" => heap.n > 0)

\* An empty heap has nothing to be out of bounds.
LEMMA BoundsInit == Init => TimersInv
<1> SUFFICES ASSUME Init PROVE TimersInv
  OBVIOUS
<1>1. /\ heap = [size |-> 0, n |-> 0, cells |-> [i \in Cells |-> Zero],
                 alloc |-> [b \in 0 .. Blocks - 1 |-> 0]]
  BY DEF Init
<1>2. heap.size = 0 /\ heap.n = 0 /\ heap.alloc = [b \in 0 .. Blocks - 1 |-> 0]
  BY <1>1
<1>3. HeapRec(heap)
  BY <1>1, <1>2 DEF HeapRec
<1>4. pc # "callback"
  BY DEF Init
<1> QED
  BY <1>2, <1>3, <1>4 DEF TimersInv, BoundsInv, BoundsOf

\* heap_insert counts the element.
LEMMA InsertCounts ==
    ASSUME NEW h, NEW el, HeapRec(h)
    PROVE  heap_insert(h, el).n = h.n + 1
<1> DEFINE more == [h EXCEPT !.n = h.n + 1]
           grown == IF more.n >= h.size THEN heap_increase_size(more) ELSE more
<1>1. more = [size |-> h.size, n |-> h.n + 1, cells |-> h.cells, alloc |-> h.alloc]
  BY DEF HeapRec
<1>2. more.n = h.n + 1
  BY <1>1
<1>3. heap_insert(h, el) = SiftUp(grown, el)
  BY DEF heap_insert
<1> HIDE DEF more
<1>4. \E s, c, a : grown = [size |-> s, n |-> h.n + 1, cells |-> c, alloc |-> a]
  <2>1. CASE more.n >= h.size
    BY <1>1, <2>1 DEF heap_increase_size
  <2>2. CASE ~(more.n >= h.size)
    BY <1>1, <2>2
  <2> QED
    BY <2>1, <2>2
<1> HIDE DEF grown
<1>5. SiftUp(grown, el).n = grown.n /\ grown.n = h.n + 1
  BY <1>4 DEF SiftUp
<1> QED
  BY <1>3, <1>5

\* Every step keeps the invariant: adding inserts, the two removing steps take from
\* a heap that is not empty, cancelling changes a cell.
LEMMA BoundsStep == TimersInv /\ [Next]_vars => TimersInv'
<1> SUFFICES ASSUME TimersInv, [Next]_vars PROVE TimersInv'
  OBVIOUS
<1>1. BoundsOf(heap) /\ HeapRec(heap) /\ heap.n \in Nat
  BY DEF TimersInv, BoundsInv, BoundsOf, HeapRec
<1>2. CASE pico_timer_add
  <2>1. PICK el : heap' = heap_insert(heap, el)
    BY <1>2 DEF pico_timer_add
  <2>2. BoundsOf(heap') /\ heap'.n = heap.n + 1
    BY <1>1, <1>2, <2>1, InsertBounds, InsertCounts DEF pico_timer_add
  <2> QED
    BY <1>1, <2>2 DEF TimersInv, BoundsInv
<1>3. ASSUME NEW i \in Cells \ {0}, pico_timer_cancel(i) PROVE TimersInv'
  <2> DEFINE g == [heap EXCEPT !.cells[i].tmr = NULL]
  <2>1. g = [size |-> heap.size, n |-> heap.n, cells |-> g.cells, alloc |-> heap.alloc]
    BY <1>1 DEF HeapRec
  <2>2. heap' = g /\ UNCHANGED pc
    BY <1>3 DEF pico_timer_cancel
  <2> HIDE DEF g
  <2>3. g.size = heap.size /\ g.n = heap.n /\ g.alloc = heap.alloc
    BY <2>1
  <2>4. BoundsOf(g)
    BY <1>1, <2>1, <2>3 DEF BoundsOf, HeapRec, InBlock
  <2> QED
    BY <2>2, <2>3, <2>4 DEF TimersInv, BoundsInv
<1>4. CASE CheckCalls
  BY <1>1, <1>4 DEF CheckCalls, TimersInv, BoundsInv
<1>5. CASE CheckSkips
  <2>1. BoundsOf(heap') /\ pc' # "callback"
    BY <1>1, <1>5, PeekBounds DEF CheckSkips
  <2> QED
    BY <2>1 DEF TimersInv, BoundsInv
<1>6. CASE CheckFrees
  <2>1. heap.n > 0
    BY <1>6 DEF CheckFrees, TimersInv
  <2>2. BoundsOf(heap') /\ pc' # "callback"
    BY <1>1, <1>6, <2>1, PeekBounds DEF CheckFrees
  <2> QED
    BY <2>2 DEF TimersInv, BoundsInv
<1>7. CASE pico_check_timers \/ CheckEnds \/ Tick \/ UNCHANGED vars
  BY <1>1, <1>7 DEF pico_check_timers, CheckEnds, Tick, vars, TimersInv, BoundsInv
<1> QED
  BY <1>2, <1>3, <1>4, <1>5, <1>6, <1>7 DEF Next

\* However many timers callbacks and application threads add and cancel, the loops of
\* heap_insert and heap_peek stay inside the blocks heap_increase_size has allocated,
\* for every block length greater than one and every number of blocks.
THEOREM TimersInBounds == Spec => []HeapInBounds
<1>1. TimersInv => HeapInBounds
  BY BoundsEnough DEF TimersInv
<1> QED
  BY <1>1, BoundsInit, BoundsStep, PTL DEF Spec

-----------------------------------------------------------------------------
\* A set of numbers that is not empty has a least one.
LEMMA LeastNat ==
    ASSUME NEW T, T \subseteq Nat, T # {}
    PROVE  \E x \in T : \A y \in T : x <= y
<1> DEFINE R == {ss \in Nat \X Nat : ss[1] < ss[2]}
<1>1. IsWellFoundedOn(R, Nat)
  BY NatLessThanWellFounded DEF OpToRel
<1>2. PICK x \in T : \A y \in T : ~(<<y, x>> \in R)
  <2> HIDE DEF R
  <2> QED
    BY <1>1, WFMin
<1>3. \A y \in T : ~(y < x)
  BY <1>2
<1> QED
  BY <1>3

\* Induction, for a set of numbers.
LEMMA SetInduction ==
    ASSUME NEW T, \A n \in Nat : (\A k \in Nat : k < n => k \in T) => n \in T
    PROVE  Nat \subseteq T
<1> SUFFICES ASSUME Nat \ T # {} PROVE FALSE
  OBVIOUS
<1>1. PICK n \in Nat \ T : \A k \in Nat \ T : n <= k
  BY LeastNat
<1>2. \A k \in Nat : k < n => k \in T
  BY <1>1
<1> QED
  BY <1>1, <1>2

\* Cells 1 to N in which a way leads from i to nxt[i], or ends with 0; every step goes
\* down in rank.
Ways(N, nxt, rank) ==
    /\ N \in Nat /\ nxt \in [1 .. N -> 0 .. N] /\ rank \in [1 .. N -> 0 .. N]
    /\ \A i \in 1 .. N : nxt[i] # 0 => rank[nxt[i]] < rank[i]

\* path[i] is the cells on the way from i, by recursion.
Follows(path, D, nxt) == path = [i \in D |-> IF nxt[i] = 0 THEN {i} ELSE {i} \union path[nxt[i]]]

\* The recursion has a solution.
LEMMA WaysExist ==
    ASSUME NEW N, NEW nxt, NEW rank, Ways(N, nxt, rank)
    PROVE  \E path : Follows(path, 1 .. N, nxt)
<1> DEFINE Low(m) == {i \in 1 .. N : rank[i] < m}
           T == {m \in Nat : \E path : Follows(path, Low(m), nxt)}
<1>1. ASSUME NEW m \in Nat, \A k \in Nat : k < m => k \in T
      PROVE  m \in T
  <2>1. CASE m = 0
    <3>1. Low(m) = {}
      BY <2>1 DEF Ways
    <3>2. Follows([i \in {} |-> {}], {}, nxt)
      BY DEF Follows
    <3> QED
      BY <3>1, <3>2
  <2>2. CASE m # 0
    <3>1. PICK p : Follows(p, Low(m - 1), nxt)
      <4>1. m - 1 \in T
        BY <1>1, <2>2
      <4> QED
        BY <4>1
    <3> DEFINE q == [i \in Low(m) |-> IF nxt[i] = 0 THEN {i} ELSE {i} \union p[nxt[i]]]
    <3>2. ASSUME NEW i \in Low(m - 1) PROVE q[i] = p[i]
      <4>1. i \in Low(m)
        BY DEF Ways
      <4> QED
        BY <4>1, <3>1 DEF Follows
    <3>3. ASSUME NEW i \in Low(m), nxt[i] # 0 PROVE nxt[i] \in Low(m - 1)
      BY <3>3 DEF Ways
    <3>4. ASSUME NEW i \in Low(m), nxt[i] # 0 PROVE q[nxt[i]] = p[nxt[i]]
      BY <3>2, <3>3, <3>4
    <3>5. Follows(q, Low(m), nxt)
      <4>1. \A i \in Low(m) : (IF nxt[i] = 0 THEN {i} ELSE {i} \union p[nxt[i]])
                = (IF nxt[i] = 0 THEN {i} ELSE {i} \union q[nxt[i]])
        <5> HIDE DEF q, Low
        <5> QED
          BY <3>4
      <4>2. q = [i \in Low(m) |-> IF nxt[i] = 0 THEN {i} ELSE {i} \union p[nxt[i]]]
        OBVIOUS
      <4> HIDE DEF q, Low
      <4> QED
        BY <4>1, <4>2 DEF Follows
    <3> HIDE DEF q, Low
    <3> QED
      BY <3>5
  <2> QED
    BY <2>1, <2>2
<1>2. N + 1 \in T
  <2>1. Nat \subseteq T
    <3> HIDE DEF T
    <3> QED
      BY <1>1, SetInduction
  <2> HIDE DEF T
  <2> QED
    BY <2>1 DEF Ways
<1>3. Low(N + 1) = 1 .. N
  BY DEF Ways
<1> QED
  BY <1>2, <1>3

\* The cells P on the way from i.
Way(P, i, nxt, rank) ==
    /\ P \subseteq DOMAIN nxt /\ i \in P
    /\ \A j \in P : rank[j] <= rank[i]
    /\ \A j \in P : nxt[j] # 0 => nxt[j] \in P
    /\ \A j \in P : j # i => \E k \in P : nxt[k] = j
    /\ \A j, k \in P : nxt[j] = nxt[k] => j = k
    /\ \E e \in P : nxt[e] = 0 /\ \A j \in P : j # e => rank[e] < rank[j]

\* What the recursion computes.
LEMMA WayFacts ==
    ASSUME NEW N, NEW nxt, NEW rank, Ways(N, nxt, rank),
           NEW path, Follows(path, 1 .. N, nxt), NEW i \in 1 .. N
    PROVE  Way(path[i], i, nxt, rank)
<1> DEFINE T == {m \in Nat : \A j \in 1 .. N : rank[j] = m => Way(path[j], j, nxt, rank)}
<1>1. ASSUME NEW m \in Nat, \A k \in Nat : k < m => k \in T, NEW j \in 1 .. N, rank[j] = m
      PROVE  Way(path[j], j, nxt, rank)
  <2>0. DOMAIN nxt = 1 .. N /\ rank \in [1 .. N -> 0 .. N] /\ N \in Nat /\ nxt[j] \in 0 .. N
    BY DEF Ways
  <2>1. CASE nxt[j] = 0
    <3>1. path[j] = {j}
      BY <2>1 DEF Follows
    <3> QED
      BY <3>1, <2>0, <2>1 DEF Way
  <2>2. CASE nxt[j] # 0
    <3> DEFINE n == nxt[j]
               P == path[n]
    <3>1. path[j] = {j} \union P
      BY <2>2 DEF Follows
    <3>2. n \in 1 .. N /\ rank[n] < rank[j] /\ rank[n] \in Nat
      BY <2>0, <2>2 DEF Ways
    <3>3. Way(P, n, nxt, rank)
      <4>1. rank[n] \in T
        BY <1>1, <3>2
      <4> HIDE DEF P, n
      <4> QED
        BY <4>1, <3>2 DEF P
    <3> HIDE DEF n, P
    <3>4. \A k \in P : rank[k] <= rank[n] /\ k \in 1 .. N /\ rank[k] \in Nat
      BY <3>3, <2>0 DEF Way
    <3>5. j \notin P
      BY <3>4, <3>2, <2>0
    <3>6. \A k \in P : nxt[k] # n
      <4>1. \A k \in P : nxt[k] # 0 => rank[nxt[k]] < rank[k]
        BY <3>4 DEF Ways
      <4> QED
        BY <4>1, <3>4, <3>2
    <3>7. \A k \in path[j] : rank[k] <= rank[j]
      BY <3>1, <3>2, <3>4, <2>0
    <3>8. PICK e \in P : nxt[e] = 0 /\ \A k \in P : k # e => rank[e] < rank[k]
      BY <3>3 DEF Way
    <3>9. rank[e] < rank[j]
      BY <3>2, <3>4, <3>8, <2>0
    <3>10. \E f \in path[j] : nxt[f] = 0 /\ \A k \in path[j] : k # f => rank[f] < rank[k]
      BY <3>1, <3>8, <3>9
    <3>11. \A k \in path[j] : nxt[k] # 0 => nxt[k] \in path[j]
      BY <3>1, <3>3 DEF Way, n
    <3>12. \A k \in path[j] : k # j => \E l \in path[j] : nxt[l] = k
      BY <3>1, <3>3 DEF Way, n
    <3>13. \A k, l \in path[j] : nxt[k] = nxt[l] => k = l
      BY <3>1, <3>3, <3>6 DEF Way, n
    <3> QED
      BY <3>1, <3>4, <3>7, <3>10, <3>11, <3>12, <3>13, <2>0 DEF Way
  <2> QED
    BY <2>1, <2>2
<1>2. Nat \subseteq T
  <2>1. \A m \in Nat : (\A k \in Nat : k < m => k \in T) => m \in T
    BY <1>1
  <2> HIDE DEF T
  <2> QED
    BY <2>1, SetInduction
<1>3. rank[i] \in Nat
  BY DEF Ways
<1> QED
  BY <1>2, <1>3

\* Where an element goes from cell i on its way up, or down; 0 where it stays.
UpNext(c, n, x) == [i \in 1 .. n |-> IF i > 1 /\ c[i \div 2].expire > x.expire THEN i \div 2 ELSE 0]
\* A parent's number is smaller.
UpRank(n) == [i \in 1 .. n |-> i]

\* Where heap_peek goes on from a cell, or 0.
DownNext(h, x) ==
    [i \in 1 .. h.n + 1 |->
        IF 2 * i <= h.n /\ x.expire > h.cells[Child(h, i)].expire THEN Child(h, i) ELSE 0]
\* A child's number is greater.
DownRank(n) == [i \in 1 .. n + 1 |-> n + 1 - i]

\* The elements on the way P move one step along nxt towards its beginning and x is
\* put at its end.
Sifted(c, new, n, P, nxt, x) ==
    \A i \in 1 .. n : new[i] = IF i \notin P THEN c[i] ELSE IF nxt[i] = 0 THEN x ELSE c[nxt[i]]

\* HeapOrdered, of the first n of some cells.
Ordered(c, n) == \A i \in 2 .. n : c[i \div 2].expire <= c[i].expire

\* Parents and children.
LEMMA Halves ==
    ASSUME NEW i \in Nat
    PROVE  /\ i \div 2 \in Nat /\ i > 1 => i \div 2 >= 1 /\ i \div 2 < i
           /\ (2 * i) \div 2 = i /\ (2 * i + 1) \div 2 = i
           /\ i = 2 * (i \div 2) \/ i = 2 * (i \div 2) + 1
OBVIOUS

\* The way up ends.
LEMMA UpWays ==
    ASSUME NEW c, NEW n \in Nat, NEW x
    PROVE  Ways(n, UpNext(c, n, x), UpRank(n))
<1>1. \A i \in 1 .. n : i > 1 => i \div 2 \in 1 .. n /\ i \div 2 < i
  BY Halves
<1> QED
  BY <1>1 DEF Ways, UpNext, UpRank

\* What the recursion of UpPath computes: the way up from cell n.
LEMMA UpPathWay ==
    ASSUME NEW h, h.n \in Nat \ {0}, NEW x
    PROVE  Way(UpPath(h, x), h.n, UpNext(h.cells, h.n, x), UpRank(h.n))
<1> DEFINE n == h.n
           nxt == UpNext(h.cells, n, x)
           Rec(path) == path = [i \in 1 .. n |->
                              IF i > 1 /\ h.cells[i \div 2].expire > x.expire
                              THEN {i} \union path[i \div 2] ELSE {i}]
<1>1. UpPath(h, x) = (CHOOSE path : Rec(path))[n]
  BY DEF UpPath
<1>2. ASSUME NEW path PROVE Rec(path) <=> Follows(path, 1 .. n, nxt)
  <2>1. \A i \in 1 .. n : (IF nxt[i] = 0 THEN {i} ELSE {i} \union path[nxt[i]]) =
             (IF i > 1 /\ h.cells[i \div 2].expire > x.expire
              THEN {i} \union path[i \div 2] ELSE {i})
    <3> SUFFICES ASSUME NEW i \in 1 .. n
                 PROVE  (IF nxt[i] = 0 THEN {i} ELSE {i} \union path[nxt[i]]) =
                        (IF i > 1 /\ h.cells[i \div 2].expire > x.expire
                         THEN {i} \union path[i \div 2] ELSE {i})
      OBVIOUS
    <3>1. i > 1 => i \div 2 # 0
      BY Halves
    <3> QED
      BY <3>1 DEF UpNext
  <2> HIDE DEF nxt
  <2> QED
    BY <2>1 DEF Follows
<1>3. Ways(n, nxt, UpRank(n))
  BY UpWays
<1> HIDE DEF nxt, n
<1>4. \E path : Rec(path)
  BY <1>2, <1>3, WaysExist
<1>5. PICK path : Follows(path, 1 .. n, nxt) /\ UpPath(h, x) = path[n]
  <2> HIDE DEF Rec
  <2> QED
    BY <1>1, <1>2, <1>4
<1> QED
  BY <1>3, <1>5, WayFacts DEF n, nxt

\* heap_peek goes on to one of the children there are.
LEMMA ChildFacts ==
    ASSUME NEW h, h.n \in Nat, NEW i \in 1 .. h.n, 2 * i <= h.n
    PROVE  Child(h, i) \in {2 * i, 2 * i + 1} /\ Child(h, i) <= h.n
BY DEF Child

\* The way down ends.
LEMMA DownWays ==
    ASSUME NEW h, h.n \in Nat, NEW x
    PROVE  Ways(h.n + 1, DownNext(h, x), DownRank(h.n))
<1> DEFINE n == h.n
<1>1. \A i \in 1 .. n + 1 : 2 * i <= n => Child(h, i) \in 1 .. n /\ Child(h, i) > i
  <2> SUFFICES ASSUME NEW i \in 1 .. n + 1, 2 * i <= n
               PROVE  Child(h, i) \in 1 .. n /\ Child(h, i) > i
    OBVIOUS
  <2>1. i \in 1 .. h.n
    OBVIOUS
  <2> QED
    BY <2>1, ChildFacts
<1> QED
  BY <1>1 DEF Ways, DownNext, DownRank

\* What the recursion of DownPath computes: the way down from cell 1.
LEMMA DownPathWay ==
    ASSUME NEW h, h.n \in Nat, NEW x
    PROVE  Way(DownPath(h, x), 1, DownNext(h, x), DownRank(h.n))
<1> DEFINE n == h.n
           nxt == DownNext(h, x)
           Rec(path) == path = [i \in 1 .. n + 1 |->
                              IF 2 * i <= n /\ x.expire > h.cells[Child(h, i)].expire
                              THEN {i} \union path[Child(h, i)] ELSE {i}]
<1>1. DownPath(h, x) = (CHOOSE path : Rec(path))[1]
  BY DEF DownPath
<1>2. ASSUME NEW path PROVE Rec(path) <=> Follows(path, 1 .. n + 1, nxt)
  <2>1. \A i \in 1 .. n + 1 : (IF nxt[i] = 0 THEN {i} ELSE {i} \union path[nxt[i]]) =
             (IF 2 * i <= n /\ x.expire > h.cells[Child(h, i)].expire
              THEN {i} \union path[Child(h, i)] ELSE {i})
    <3> SUFFICES ASSUME NEW i \in 1 .. n + 1
                 PROVE (IF nxt[i] = 0 THEN {i} ELSE {i} \union path[nxt[i]]) =
             (IF 2 * i <= n /\ x.expire > h.cells[Child(h, i)].expire
              THEN {i} \union path[Child(h, i)] ELSE {i})
      OBVIOUS
    <3>1. 2 * i <= n => i \in 1 .. n /\ Child(h, i) # 0
      BY ChildFacts
    <3> QED
      BY <3>1 DEF DownNext
  <2> HIDE DEF nxt
  <2> QED
    BY <2>1 DEF Follows
<1>3. Ways(n + 1, nxt, DownRank(n))
  BY DownWays
<1> HIDE DEF nxt
<1>4. \E path : Rec(path)
  BY <1>2, <1>3, WaysExist
<1>5. PICK path : Follows(path, 1 .. n + 1, nxt) /\ DownPath(h, x) = path[1]
  <2> HIDE DEF Rec
  <2> QED
    BY <1>1, <1>2, <1>4
<1>6. 1 \in 1 .. n + 1
  OBVIOUS
<1> HIDE DEF n
<1> QED
  BY <1>3, <1>5, <1>6, WayFacts DEF n, nxt

\* The end of a way, the only cell no step leads on from.
LEMMA WayEnd ==
    ASSUME NEW N, NEW nxt, NEW rank, Ways(N, nxt, rank), NEW P, NEW i, Way(P, i, nxt, rank)
    PROVE  \E e \in P : /\ \A j \in P : nxt[j] = 0 <=> j = e
                        /\ \A j \in P : j # e => rank[e] < rank[j]
<1>1. PICK e \in P : nxt[e] = 0 /\ \A j \in P : j # e => rank[e] < rank[j]
  BY DEF Way
<1>2. \A j \in P : nxt[j] = 0 => j = e
  BY <1>1 DEF Way
<1> QED
  BY <1>1, <1>2

\* The ranks in numbers.
LEMMA UpLeast ==
    ASSUME NEW n \in Nat, NEW P, P \subseteq 1 .. n, NEW e \in P,
           \A j \in P : j # e => UpRank(n)[e] < UpRank(n)[j]
    PROVE  (\A j \in P : e <= j) /\ Min(P) = e
<1>1. \A j \in 1 .. n : UpRank(n)[j] = j
  BY DEF UpRank
<1>2. ASSUME NEW j \in P PROVE e <= j
  <2>1. e \in 1 .. n /\ j \in 1 .. n
    OBVIOUS
  <2> QED
    BY <1>1, <2>1
<1>3. \A j \in P : j \in Nat
  OBVIOUS
<1>4. Min(P) \in P /\ \A j \in P : Min(P) <= j
  BY <1>2 DEF Min
<1>5. Min(P) <= e /\ e <= Min(P) /\ e \in Nat /\ Min(P) \in Nat
  BY <1>2, <1>3, <1>4
<1> QED
  BY <1>2, <1>5

\* The way down ends at its greatest cell.
LEMMA DownGreatest ==
    ASSUME NEW n \in Nat, NEW P, P \subseteq 1 .. n + 1, NEW e \in P,
           \A j \in P : j # e => DownRank(n)[e] < DownRank(n)[j]
    PROVE  (\A j \in P : e >= j) /\ Max(P) = e
<1>1. \A j \in 1 .. n + 1 : DownRank(n)[j] = n + 1 - j
  BY DEF DownRank
<1>2. ASSUME NEW j \in P PROVE e >= j
  <2>1. e \in 1 .. n + 1 /\ j \in 1 .. n + 1
    OBVIOUS
  <2>2. j # e => n + 1 - e < n + 1 - j
    BY <1>1, <2>1
  <2> QED
    BY <2>1, <2>2
<1>3. \A j \in P : j \in Nat
  OBVIOUS
<1>4. Max(P) \in P /\ \A j \in P : Max(P) >= j
  BY <1>2 DEF Max
<1>5. Max(P) <= e /\ e <= Max(P) /\ e \in Nat /\ Max(P) \in Nat
  BY <1>2, <1>3, <1>4
<1> QED
  BY <1>2, <1>5

\* SiftUp in these terms.
LEMMA SiftUpCells ==
    ASSUME NEW h, HeapRec(h), h.n > 0, 1 .. h.n \subseteq Cells, NEW x
    PROVE  /\ SiftUp(h, x).n = h.n
           /\ Sifted(h.cells, SiftUp(h, x).cells, h.n, UpPath(h, x), UpNext(h.cells, h.n, x), x)
           /\ DOMAIN SiftUp(h, x).cells = Cells
           /\ \A i \in Cells \ (1 .. h.n) : SiftUp(h, x).cells[i] = h.cells[i]
<1> DEFINE n == h.n
           P == UpPath(h, x)
           nxt == UpNext(h.cells, n, x)
<1>1. n \in Nat \ {0} /\ Ways(n, nxt, UpRank(n)) /\ Way(P, n, nxt, UpRank(n))
  BY UpWays, UpPathWay DEF HeapRec
<1>2. PICK e \in P : /\ \A j \in P : nxt[j] = 0 <=> j = e
                     /\ \A j \in P : j # e => UpRank(n)[e] < UpRank(n)[j]
  <2> HIDE DEF P, nxt, n
  <2> QED
    BY <1>1, WayEnd
<1>3. P \subseteq 1 .. n
  BY <1>1 DEF Way, UpNext
<1>5. Min(P) = e
  <2> HIDE DEF P, n
  <2> QED
    BY <1>1, <1>2, <1>3, UpLeast
<1>6. SiftUp(h, x).cells = [i \in Cells |-> IF i = e THEN x ELSE IF i \in P
                                            THEN h.cells[i \div 2] ELSE h.cells[i]]
      /\ SiftUp(h, x).n = n
  <2> DEFINE c == [i \in Cells |-> IF i = Min(P) THEN x ELSE IF i \in P
                                  THEN h.cells[i \div 2] ELSE h.cells[i]]
  <2>1. SiftUp(h, x) = [h EXCEPT !.cells = c]
    BY DEF SiftUp
  <2>2. c = [i \in Cells |-> IF i = e THEN x ELSE IF i \in P THEN h.cells[i \div 2] ELSE h.cells[i]]
    BY <1>5
  <2> HIDE DEF c
  <2>3. SiftUp(h, x).cells = c /\ SiftUp(h, x).n = h.n
    BY <2>1 DEF HeapRec
  <2> QED
    BY <2>2, <2>3
<1>7. ASSUME NEW i \in 1 .. n
      PROVE  SiftUp(h, x).cells[i] = IF i \notin P THEN h.cells[i]
                                     ELSE IF nxt[i] = 0 THEN x ELSE h.cells[nxt[i]]
  <2>0. i \in Cells
    OBVIOUS
  <2>1. CASE i \notin P
    BY <1>6, <2>0, <2>1
  <2>2. CASE i = e
    <3> HIDE DEF P, nxt
    <3> QED
      BY <1>2, <1>6, <2>0, <2>2
  <2>3. CASE i \in P /\ i # e
    <3>1. nxt[i] # 0
      <4> HIDE DEF P, nxt
      <4> QED
        BY <1>2, <2>3
    <3>2. nxt[i] = i \div 2
      BY <3>1 DEF UpNext
    <3> QED
      BY <3>1, <3>2, <2>0, <2>3, <1>6
  <2> QED
    BY <2>1, <2>2, <2>3
<1>8. \A i \in Cells \ (1 .. n) : SiftUp(h, x).cells[i] = h.cells[i]
  BY <1>3, <1>6
<1> QED
  BY <1>6, <1>7, <1>8 DEF Sifted

\* SiftDown.
LEMMA SiftDownCells ==
    ASSUME NEW h, h.n \in Nat, 1 .. h.n \subseteq Cells, NEW x
    PROVE  /\ Sifted(h.cells, SiftDown(h, x), h.n, DownPath(h, x), DownNext(h, x), x)
           /\ DOMAIN SiftDown(h, x) = Cells
           /\ \A i \in Cells \ (1 .. h.n) : SiftDown(h, x)[i] \in {h.cells[i], Zero}
<1> DEFINE n == h.n
           P == DownPath(h, x)
           nxt == DownNext(h, x)
<1>1. Ways(n + 1, nxt, DownRank(n)) /\ Way(P, 1, nxt, DownRank(n))
  BY DownWays, DownPathWay
<1>2. PICK e \in P : /\ \A j \in P : nxt[j] = 0 <=> j = e
                     /\ \A j \in P : j # e => DownRank(n)[e] < DownRank(n)[j]
  <2> HIDE DEF P, nxt, n
  <2> QED
    BY <1>1, WayEnd
<1>3. P \subseteq 1 .. n + 1
  BY <1>1 DEF Way, DownNext
<1>5. Max(P) = e
  <2>1. n \in Nat
    OBVIOUS
  <2> HIDE DEF P, n
  <2> QED
    BY <1>2, <1>3, <2>1, DownGreatest
<1>6. SiftDown(h, x) = [i \in Cells |-> IF i = n + 1 THEN Zero ELSE IF i = e THEN x
                                        ELSE IF i \in P THEN h.cells[Child(h, i)] ELSE h.cells[i]]
  BY <1>5 DEF SiftDown
<1>7. ASSUME NEW i \in 1 .. n
      PROVE  SiftDown(h, x)[i] = IF i \notin P THEN h.cells[i]
                                 ELSE IF nxt[i] = 0 THEN x ELSE h.cells[nxt[i]]
  <2>0. i \in Cells /\ i # n + 1
    OBVIOUS
  <2>1. CASE i \notin P
    BY <1>6, <2>0, <2>1
  <2>2. CASE i = e
    <3> HIDE DEF P, nxt
    <3> QED
      BY <1>2, <1>6, <2>0, <2>2
  <2>3. CASE i \in P /\ i # e
    <3>1. nxt[i] # 0
      <4> HIDE DEF P, nxt
      <4> QED
        BY <1>2, <2>3
    <3>2. nxt[i] = Child(h, i)
      BY <3>1 DEF DownNext
    <3> QED
      BY <3>1, <3>2, <2>0, <2>3, <1>6
  <2> QED
    BY <2>1, <2>2, <2>3
<1>8. \A i \in Cells \ (1 .. n) : SiftDown(h, x)[i] \in {h.cells[i], Zero}
  BY <1>3, <1>6
<1> QED
  BY <1>6, <1>7, <1>8 DEF Sifted

\* An element that is sifted up leaves the heap ordered.
LEMMA UpOrdered ==
    ASSUME NEW n \in Nat \ {0}, NEW c, NEW x, NEW new, NEW P,
           \A i \in 1 .. n : c[i].expire \in Nat, x.expire \in Nat,
           Way(P, n, UpNext(c, n, x), UpRank(n)),
           Sifted(c, new, n, P, UpNext(c, n, x), x), Ordered(c, n - 1)
    PROVE  Ordered(new, n)
<1> DEFINE nxt == UpNext(c, n, x)
<1>1. \A i \in 1 .. n : nxt[i] = IF i > 1 /\ c[i \div 2].expire > x.expire THEN i \div 2 ELSE 0
  BY DEF UpNext
<1>2. P \subseteq 1 .. n /\ DOMAIN nxt = 1 .. n
  BY DEF Way, UpNext
<1> HIDE DEF nxt
<1>3. \A i \in 1 .. n : new[i] = IF i \notin P THEN c[i] ELSE IF nxt[i] = 0 THEN x ELSE c[nxt[i]]
  BY DEF Sifted, nxt
<1>4. PICK e \in P : /\ \A j \in P : nxt[j] = 0 <=> j = e
                     /\ \A j \in P : j # e => UpRank(n)[e] < UpRank(n)[j]
  BY UpWays, WayEnd DEF nxt
<1>5. \A j \in P : e <= j
  BY <1>2, <1>4, UpLeast
<1>6. \A j \in P : nxt[j] # 0 => nxt[j] \in P
  BY DEF Way, nxt
<1>7. e # n => c[e].expire > x.expire
  <2>1. SUFFICES ASSUME e # n PROVE c[e].expire > x.expire
    OBVIOUS
  <2>2. PICK k \in P : nxt[k] = e
    BY <2>1 DEF Way, nxt
  <2> QED
    BY <1>1, <1>2, <1>4, <2>2
<1> SUFFICES ASSUME NEW i \in 2 .. n PROVE new[i \div 2].expire <= new[i].expire
  BY DEF Ordered
<1> DEFINE p == i \div 2
<1>8. p \in 1 .. n /\ p < i /\ p <= n - 1 /\ i \in 1 .. n
  BY Halves
<1>9. p > 1 => c[p \div 2].expire <= c[p].expire /\ p \div 2 \in 1 .. n
  BY <1>8, Halves DEF Ordered
<1>10. i <= n - 1 => c[p].expire <= c[i].expire
  BY DEF Ordered
<1>11. nxt[i] # 0 => nxt[i] = p /\ c[p].expire > x.expire
  BY <1>1, <1>8
<1>12. nxt[p] # 0 => p > 1 /\ nxt[p] = p \div 2 /\ c[p \div 2].expire > x.expire
  BY <1>1, <1>8
<1> HIDE DEF p
<1>13. CASE i \in P /\ i # e
  <2>1. nxt[i] = p /\ p \in P /\ c[p].expire > x.expire /\ new[i] = c[p]
    BY <1>3, <1>4, <1>6, <1>8, <1>11, <1>13
  <2>2. CASE p = e
    BY <1>3, <1>4, <1>8, <2>1, <2>2 DEF p
  <2>3. CASE p # e
    <3>1. new[p] = c[p \div 2] /\ p > 1
      BY <1>3, <1>4, <1>8, <1>12, <2>1, <2>3
    <3> QED
      BY <3>1, <1>9, <2>1 DEF p
  <2> QED
    BY <2>2, <2>3
<1>14. CASE i = e
  <2>1. p \notin P
    BY <1>5, <1>8, <1>14
  <2>2. ~(c[p].expire > x.expire)
    <3>1. nxt[i] = 0
      BY <1>4, <1>14
    <3> QED
      BY <3>1, <1>1, <1>8 DEF p
  <2>3. new[p] = c[p] /\ new[i] = x
    BY <1>3, <1>4, <1>8, <1>14, <2>1
  <2> QED
    BY <1>8, <2>2, <2>3 DEF p
<1>15. CASE i \notin P
  <2>1. i <= n - 1 /\ new[i] = c[i]
    BY <1>3, <1>8, <1>15 DEF Way
  <2>2. CASE p \notin P
    BY <1>3, <1>8, <1>10, <2>1, <2>2 DEF p
  <2>3. CASE p = e
    <3>1. new[p] = x /\ c[p].expire > x.expire
      BY <1>3, <1>4, <1>7, <1>8, <2>3
    <3> QED
      BY <3>1, <2>1, <1>8, <1>10 DEF p
  <2>4. CASE p \in P /\ p # e
    <3>1. new[p] = c[p \div 2] /\ p > 1
      BY <1>3, <1>4, <1>8, <1>12, <2>4
    <3> QED
      BY <3>1, <2>1, <1>8, <1>9, <1>10 DEF p
  <2> QED
    BY <2>2, <2>3, <2>4
<1> QED
  BY <1>13, <1>14, <1>15

\* An element that is sifted down from the top leaves the heap ordered.
LEMMA DownOrdered ==
    ASSUME NEW h, h.n \in Nat, NEW x, NEW new, NEW P,
           \A i \in 1 .. h.n : h.cells[i].expire \in Nat, x.expire \in Nat,
           Way(P, 1, DownNext(h, x), DownRank(h.n)),
           Sifted(h.cells, new, h.n, P, DownNext(h, x), x), Ordered(h.cells, h.n)
    PROVE  Ordered(new, h.n)
<1> DEFINE n == h.n
           c == h.cells
           nxt == DownNext(h, x)
<1>1. /\ \A i \in 1 .. n + 1 : nxt[i] = IF 2 * i <= n /\ x.expire > c[Child(h, i)].expire
                                        THEN Child(h, i) ELSE 0
      /\ DOMAIN nxt = 1 .. n + 1
  BY DEF DownNext
<1>2. P \subseteq 1 .. n + 1
  BY <1>1 DEF Way
<1>3. n \in Nat /\ Ways(n + 1, nxt, DownRank(n)) /\ Way(P, 1, nxt, DownRank(n))
  BY DownWays
<1>4. \A i \in 1 .. n : new[i] = IF i \notin P THEN c[i] ELSE IF nxt[i] = 0 THEN x ELSE c[nxt[i]]
  BY DEF Sifted
<1>5. \A i \in 1 .. n : 2 * i <= n =>
        /\ Child(h, i) \in {2 * i, 2 * i + 1} /\ Child(h, i) \in 1 .. n
        /\ c[Child(h, i)].expire <= c[2 * i].expire
        /\ 2 * i + 1 <= n => c[Child(h, i)].expire <= c[2 * i + 1].expire
  BY DEF Child
<1>6. \A i \in 1 .. n : c[i].expire \in Nat
  OBVIOUS
<1>7. \A i \in 2 .. n : c[i \div 2].expire <= c[i].expire
  BY DEF Ordered
<1> HIDE DEF n, c, nxt
<1>8. PICK e \in P : /\ \A j \in P : nxt[j] = 0 <=> j = e
                     /\ \A j \in P : j # e => DownRank(n)[e] < DownRank(n)[j]
  BY <1>3, WayEnd
<1>9. \A j \in P : e >= j
  BY <1>2, <1>3, <1>8, DownGreatest
<1>10. \A j \in P : nxt[j] # 0 => nxt[j] \in P
  BY <1>3 DEF Way
<1> SUFFICES ASSUME NEW i \in 2 .. n PROVE new[i \div 2].expire <= new[i].expire
  BY DEF Ordered, n
<1> DEFINE p == i \div 2
<1>11. p \in 1 .. n /\ p < i /\ i \in 1 .. n /\ i \in {2 * p, 2 * p + 1} /\ 2 * p <= n
  BY <1>3, Halves
<1>12. c[Child(h, p)].expire <= c[i].expire /\ c[p].expire <= c[i].expire
       /\ Child(h, p) \in 1 .. n
  BY <1>5, <1>7, <1>11
<1>13. i \in P /\ i # e => new[i] = c[nxt[i]] /\ c[i].expire <= c[nxt[i]].expire
                           /\ nxt[i] \in 1 .. n
  <2> SUFFICES ASSUME i \in P, i # e
               PROVE  new[i] = c[nxt[i]] /\ c[i].expire <= c[nxt[i]].expire /\ nxt[i] \in 1 .. n
    OBVIOUS
  <2>1. nxt[i] # 0 /\ new[i] = c[nxt[i]]
    BY <1>4, <1>8, <1>11
  <2>2. nxt[i] = Child(h, i) /\ 2 * i <= n /\ i \in 1 .. n + 1
    BY <1>1, <1>3, <1>11, <2>1
  <2>3. nxt[i] \in {2 * i, 2 * i + 1} /\ nxt[i] \in 2 .. n /\ nxt[i] \div 2 = i
    BY <1>3, <1>5, <1>11, <2>2, Halves
  <2> QED
    BY <1>7, <2>1, <2>3
<1>14. i = e => new[i] = x
  BY <1>4, <1>8, <1>11
<1>15. i \notin P => new[i] = c[i]
  BY <1>4, <1>11
<1> HIDE DEF p
<1>16. CASE p \in P /\ p # e
  <2>1. nxt[p] # 0 /\ new[p] = c[nxt[p]]
    BY <1>4, <1>8, <1>11, <1>16
  <2>2. nxt[p] = Child(h, p) /\ x.expire > c[Child(h, p)].expire
    BY <1>1, <1>3, <1>11, <2>1
  <2>3. new[p] = c[Child(h, p)] /\ c[Child(h, p)].expire \in Nat /\ c[i].expire \in Nat
    BY <2>1, <2>2, <1>6, <1>11, <1>12
  <2>4. CASE i \in P /\ i # e
    <3>1. c[nxt[i]].expire \in Nat
      BY <1>6, <1>13, <2>4
    <3> QED
      BY <1>12, <1>13, <2>3, <2>4, <3>1 DEF p
  <2>5. CASE i = e
    BY <1>14, <2>2, <2>3, <2>5 DEF p
  <2>6. CASE i \notin P
    BY <1>12, <1>15, <2>3, <2>6 DEF p
  <2> QED
    BY <2>4, <2>5, <2>6
<1>17. CASE p = e
  <2>1. i \notin P
    BY <1>9, <1>11, <1>17
  <2>2. ~(x.expire > c[Child(h, p)].expire)
    <3>1. nxt[p] = 0 /\ p \in 1 .. n + 1
      BY <1>3, <1>8, <1>11, <1>17
    <3>2. Child(h, p) # 0
      BY <1>3, <1>12
    <3> QED
      BY <1>1, <1>11, <3>1, <3>2
  <2>3. new[p] = x /\ new[i] = c[i]
    BY <1>4, <1>8, <1>11, <1>15, <1>17, <2>1
  <2>4. c[Child(h, p)].expire \in Nat /\ c[i].expire \in Nat
    BY <1>6, <1>11, <1>12
  <2> QED
    BY <1>12, <2>2, <2>3, <2>4 DEF p
<1>18. CASE p \notin P
  <2>1. i \notin P
    <3>1. SUFFICES ASSUME i \in P PROVE FALSE
      OBVIOUS
    <3>2. i # 1
      BY <1>3
    <3>3. PICK k \in P : nxt[k] = i
      BY <1>3, <3>1, <3>2 DEF Way
    <3>4. k \in 1 .. n + 1 /\ 2 * k <= n /\ Child(h, k) = i
      BY <1>1, <1>2, <1>3, <3>3
    <3>5. i \in {2 * k, 2 * k + 1} /\ k \in Nat
      BY <1>3, <1>5, <3>4
    <3>6. p = k
      BY <3>5, Halves DEF p
    <3> QED
      BY <1>18, <3>6
  <2> QED
    BY <1>4, <1>11, <1>12, <1>15, <1>18, <2>1 DEF p
<1> QED
  BY <1>16, <1>17, <1>18

\* No step leads to the first cell of a way.
LEMMA WayStart ==
    ASSUME NEW N, NEW nxt, NEW rank, Ways(N, nxt, rank), NEW P, NEW s, Way(P, s, nxt, rank),
           NEW i \in P
    PROVE  nxt[i] # s
<1>1. SUFFICES ASSUME nxt[i] = s PROVE FALSE
  OBVIOUS
<1>2. i \in 1 .. N /\ s \in 1 .. N /\ N \in Nat
  BY DEF Way, Ways
<1>3. rank[nxt[i]] < rank[i]
  BY <1>1, <1>2 DEF Ways
<1>4. rank[i] \in 0 .. N /\ rank[s] \in 0 .. N
  BY <1>2 DEF Ways
<1>5. rank[i] <= rank[s]
  BY DEF Way
<1> QED
  BY <1>1, <1>2, <1>3, <1>4, <1>5

\* new is c with x sifted in along some way from cell s.
SiftOf(c, new, n, s, x) ==
    \E N, nxt, rank, P : /\ Ways(N, nxt, rank) /\ Way(P, s, nxt, rank)
                         /\ n <= N /\ P \subseteq 1 .. n /\ Sifted(c, new, n, P, nxt, x)

\* How many of the first n cells refer to timer d.
Count(c, n, d) == Cardinality({i \in 1 .. n : c[i].tmr = d})

\* Sifting keeps the elements: as many refer to timer d as did with x in the first cell
\* of the way.
LEMMA SiftedCount ==
    ASSUME NEW n \in Nat, NEW c, NEW new, NEW s, NEW x, SiftOf(c, new, n, s, x), NEW d,
           NEW old, \A i \in 1 .. n : old[i] = IF i = s THEN x ELSE c[i]
    PROVE  Count(new, n, d) = Count(old, n, d)
<1>0. PICK N, nxt, rank, P : /\ Ways(N, nxt, rank) /\ Way(P, s, nxt, rank)
                             /\ n <= N /\ P \subseteq 1 .. n /\ Sifted(c, new, n, P, nxt, x)
  BY DEF SiftOf
<1> USE <1>0
<1> DEFINE A == {i \in 1 .. n : new[i].tmr = d}
           B == {i \in 1 .. n : old[i].tmr = d}
           pi(i) == IF i \notin P THEN i ELSE IF nxt[i] = 0 THEN s ELSE nxt[i]
           f == [i \in A |-> pi(i)]
<1>1. s \in P /\ s \in 1 .. n
  BY DEF Way
<1>2. \A i \in P : nxt[i] # s
  BY WayStart
<1>3. ASSUME NEW i \in 1 .. n
      PROVE  pi(i) \in 1 .. n /\ new[i] = old[pi(i)]
  <2>1. CASE i \notin P
    BY <1>1, <2>1 DEF Sifted
  <2>2. CASE i \in P /\ nxt[i] = 0
    BY <1>1, <2>2 DEF Sifted
  <2>3. CASE i \in P /\ nxt[i] # 0
    <3>1. nxt[i] \in P
      BY <2>3 DEF Way
    <3> QED
      BY <1>2, <2>3, <3>1 DEF Sifted
  <2> QED
    BY <2>1, <2>2, <2>3
<1>4. \A i, j \in 1 .. n : pi(i) = pi(j) => i = j
  BY <1>1, <1>2 DEF Way
<1>5. ASSUME NEW k \in 1 .. n PROVE \E i \in 1 .. n : pi(i) = k
  <2>1. CASE k \notin P
    BY <2>1
  <2>2. CASE k = s
    <3>1. PICK e \in P : nxt[e] = 0
      BY DEF Way
    <3> QED
      BY <2>2, <3>1
  <2>3. CASE k \in P /\ k # s
    <3>1. PICK l \in P : nxt[l] = k
      BY <2>3 DEF Way
    <3>2. l \in 1 .. n /\ k # 0
      OBVIOUS
    <3>3. pi(l) = k
      BY <3>1, <3>2
    <3> QED
      BY <3>2, <3>3
  <2> QED
    BY <2>1, <2>2, <2>3
<1> HIDE DEF pi
<1>6. f \in [A -> B]
  BY <1>3
<1>7. \A a, b \in A : f[a] = f[b] => a = b
  BY <1>4
<1>8. \A b \in B : \E a \in A : f[a] = b
  <2> SUFFICES ASSUME NEW b \in B PROVE \E a \in A : f[a] = b
    OBVIOUS
  <2>1. PICK i \in 1 .. n : pi(i) = b
    BY <1>5
  <2>2. i \in A
    BY <1>3, <2>1
  <2> QED
    BY <2>1, <2>2
<1> HIDE DEF f
<1>9. ExistsBijection(A, B)
  <2> HIDE DEF A, B
  <2>1. f \in Injection(A, B) /\ f \in Surjection(A, B)
    BY <1>6, <1>7, <1>8 DEF Injection, Surjection, IsInjective
  <2> QED
    BY <2>1 DEF ExistsBijection, Bijection
<1>10. IsFiniteSet(A)
  <2>1. IsFiniteSet(1 .. n)
    BY FS_Interval
  <2> QED
    BY <2>1, FS_Subset
<1> HIDE DEF A, B
<1>11. Cardinality(B) = Cardinality(A)
  BY <1>9, <1>10, FS_Bijection
<1> QED
  BY <1>11 DEF A, B, Count

\* The cells in use are cells of the array.
LEMMA InUse ==
    ASSUME NEW h, BoundsOf(h)
    PROVE  h.n \in Nat /\ 1 .. h.n \subseteq Cells
<1>1. h.n \in Nat /\ h.size \in Nat
  BY DEF BoundsOf, HeapRec
<1>2. \A i \in 1 .. h.n : i \in 0 .. h.size - 1 \/ i = h.n
  BY <1>1 DEF BoundsOf
<1> QED
  BY <1>1, <1>2 DEF BoundsOf, InBlock

\* A reference.
Element == [expire : Nat, tmr : Nat]
\* Within its blocks and in order.
HeapOK(h) == BoundsOf(h) /\ h.cells \in [Cells -> Element] /\ Ordered(h.cells, h.n)

\* How many references lead to timer d.
Refs(h, d) == Count(h.cells, h.n, d)

\* heap_increase_size leaves the elements where they are.
LEMMA GrowCells ==
    ASSUME NEW h, HeapRec(h), h.n > 0, h.cells \in [Cells -> Element]
    PROVE  /\ HeapRec(heap_increase_size(h)) /\ heap_increase_size(h).n = h.n
           /\ heap_increase_size(h).cells \in [Cells -> Element]
           /\ \A i \in Cells : i < h.n => heap_increase_size(h).cells[i] = h.cells[i]
<1> DEFINE g == heap_increase_size(h)
           b == h.n \div Epb
           a == IF (h.n + 1) % Epb = 0 THEN Epb ELSE (h.n + 1) % Epb
           c == [i \in Cells |-> IF i \div Epb = b /\ i >= h.n THEN Zero ELSE h.cells[i]]
<1>1. g = [h EXCEPT !.size = h.size + 1, !.alloc = [h.alloc EXCEPT ![b] = a], !.cells = c]
  BY DEF heap_increase_size, HeapRec
<1>2. a \in Nat
  <2>1. Epb \in Nat \ {0} /\ h.n + 1 \in Nat
    BY TimersAssumption DEF HeapRec
  <2>2. (h.n + 1) % Epb \in Nat
    BY <2>1
  <2> QED
    BY <2>1, <2>2
<1>3. c \in [Cells -> Element] /\ \A i \in Cells : i < h.n => c[i] = h.cells[i]
  <2>1. Zero \in Element
    BY DEF Zero, Element, NULL
  <2>2. \A i \in Cells : i < h.n => ~(i >= h.n)
    BY TimersAssumption DEF Cells, HeapRec
  <2> QED
    BY <2>1, <2>2
<1> HIDE DEF a, c, b
<1>4. g = [size |-> h.size + 1, n |-> h.n, cells |-> c, alloc |-> [h.alloc EXCEPT ![b] = a]]
  BY <1>1 DEF HeapRec
<1>5. h.size + 1 \in Nat /\ h.n \in Nat /\ [h.alloc EXCEPT ![b] = a] \in [0 .. Blocks - 1 -> Nat]
  <2>1. h.size \in Nat /\ h.n \in Nat /\ h.alloc \in [0 .. Blocks - 1 -> Nat]
    BY DEF HeapRec
  <2>2. [h.alloc EXCEPT ![b] = a] \in [0 .. Blocks - 1 -> Nat]
    BY <1>2, <2>1
  <2> QED
    BY <2>1, <2>2
<1> HIDE DEF g
<1>6. /\ g.size = h.size + 1 /\ g.n = h.n /\ g.cells = c
      /\ g.alloc = [h.alloc EXCEPT ![b] = a]
  BY <1>4
<1>7. HeapRec(g)
  BY <1>4, <1>5, <1>6 DEF HeapRec
<1> QED
  BY <1>3, <1>6, <1>7 DEF g

\* The heap before the new element is sifted up.
LEMMA InsertGrown ==
    ASSUME NEW h, HeapRec(h), h.cells \in [Cells -> Element], NEW x
    PROVE  \E g : /\ heap_insert(h, x) = SiftUp(g, x) /\ HeapRec(g) /\ g.n = h.n + 1
                  /\ g.cells \in [Cells -> Element]
                  /\ \A i \in Cells : i <= h.n => g.cells[i] = h.cells[i]
<1> DEFINE more == [h EXCEPT !.n = h.n + 1]
<1>1. /\ more = [size |-> h.size, n |-> h.n + 1, cells |-> h.cells, alloc |-> h.alloc]
      /\ h.n \in Nat /\ HeapRec(more)
  BY DEF HeapRec
<1>2. heap_insert(h, x) =
        SiftUp(IF h.n + 1 >= h.size THEN heap_increase_size(more) ELSE more, x)
  BY <1>1 DEF heap_insert
<1> HIDE DEF more
<1>3. more.n = h.n + 1 /\ more.cells = h.cells
  BY <1>1
<1>4. \A i \in Cells : i <= h.n => i < h.n + 1
  BY <1>1, TimersAssumption DEF Cells
<1>5. CASE h.n + 1 >= h.size
  <2>1. more.n > 0
    BY <1>1, <1>3
  <2> QED
    BY <1>1, <1>2, <1>3, <1>4, <1>5, <2>1, GrowCells
<1>6. CASE ~(h.n + 1 >= h.size)
  BY <1>1, <1>2, <1>3, <1>6
<1> QED
  BY <1>5, <1>6

\* A cell of the new heap holds an element of the old one or the new element.
LEMMA SiftedFrom ==
    ASSUME NEW n \in Nat, NEW c, NEW new, NEW s, NEW x, SiftOf(c, new, n, s, x), NEW i \in 1 .. n
    PROVE  new[i] = x \/ \E j \in (1 .. n) \ {s} : new[i] = c[j]
<1>0. PICK N, nxt, rank, P : /\ Ways(N, nxt, rank) /\ Way(P, s, nxt, rank)
                             /\ n <= N /\ P \subseteq 1 .. n /\ Sifted(c, new, n, P, nxt, x)
  BY DEF SiftOf
<1> USE <1>0
<1>1. CASE i \notin P
  BY <1>1 DEF Sifted, Way
<1>2. CASE i \in P /\ nxt[i] = 0
  BY <1>2 DEF Sifted
<1>3. CASE i \in P /\ nxt[i] # 0
  <2>1. nxt[i] \in P /\ new[i] = c[nxt[i]]
    BY <1>3 DEF Way, Sifted
  <2>2. nxt[i] # s
    BY <1>3, WayStart
  <2> QED
    BY <2>1, <2>2
<1> QED
  BY <1>1, <1>2, <1>3

\* heap_insert keeps the order and adds one element; the first one stays first unless
\* the new one expires before it.
LEMMA InsertHeap ==
    ASSUME NEW h, HeapOK(h), ~Full(h), NEW x \in Element
    PROVE  LET g == heap_insert(h, x)
           IN  /\ HeapOK(g) /\ g.n = h.n + 1
               /\ \A d : Refs(g, d) = Refs(h, d) + IF x.tmr = d THEN 1 ELSE 0
               /\ \A i \in 1 .. g.n : g.cells[i] = x \/ \E j \in 1 .. h.n : g.cells[i] = h.cells[j]
               /\ (h.n > 0 /\ h.cells[1].expire <= x.expire) => g.cells[1] = h.cells[1]
<1> DEFINE g == heap_insert(h, x)
<1>1. BoundsOf(g) /\ HeapRec(h) /\ h.n \in Nat /\ h.cells \in [Cells -> Element]
  BY InsertBounds DEF HeapOK, BoundsOf, HeapRec
<1>2. PICK k : /\ g = SiftUp(k, x) /\ HeapRec(k) /\ k.n = h.n + 1
               /\ k.cells \in [Cells -> Element]
               /\ \A i \in Cells : i <= h.n => k.cells[i] = h.cells[i]
  BY <1>1, InsertGrown
<1> HIDE DEF g
<1> DEFINE n == h.n + 1
           c == k.cells
           P == UpPath(k, x)
           nxt == UpNext(c, n, x)
<1>3. g.n = n
  BY <1>1, InsertCounts DEF g
<1>4. 1 .. n \subseteq Cells /\ n \in Nat \ {0} /\ k.n > 0
  BY <1>1, <1>2, <1>3, InUse
<1>5. /\ Sifted(c, g.cells, n, P, nxt, x) /\ DOMAIN g.cells = Cells
      /\ \A i \in Cells \ (1 .. n) : g.cells[i] = c[i]
  BY <1>2, <1>4, SiftUpCells
<1>6. Ways(n, nxt, UpRank(n)) /\ Way(P, n, nxt, UpRank(n))
  BY <1>2, <1>4, UpWays, UpPathWay
<1>7. P \subseteq 1 .. n /\ \A i \in 1 .. h.n : c[i] = h.cells[i]
  BY <1>1, <1>2, <1>4, <1>6 DEF Way, UpNext
<1>8. \A i \in 1 .. n : nxt[i] = IF i > 1 /\ c[i \div 2].expire > x.expire THEN i \div 2 ELSE 0
  BY DEF UpNext
<1> HIDE DEF c, P, nxt
<1>0. n \in Nat /\ n <= n
  BY <1>4
<1>17. SiftOf(c, g.cells, n, n, x)
  BY <1>0, <1>5, <1>6, <1>7 DEF SiftOf
<1>9. ASSUME NEW i \in 1 .. n
      PROVE g.cells[i] = x \/ \E j \in 1 .. h.n : g.cells[i] = h.cells[j]
  <2>1. g.cells[i] = x \/ \E j \in (1 .. n) \ {n} : g.cells[i] = c[j]
    <3> HIDE DEF n
    <3> QED
      BY <1>0, <1>17, SiftedFrom
  <2>2. \A j \in (1 .. n) \ {n} : j \in 1 .. h.n
    BY <1>1
  <2> QED
    BY <1>7, <2>1, <2>2
<1>10. g.cells \in [Cells -> Element]
  <2>1. ASSUME NEW i \in Cells PROVE g.cells[i] \in Element
    <3>1. CASE i \in 1 .. n
      <4>1. \A j \in 1 .. h.n : h.cells[j] \in Element
        BY <1>1, <1>4
      <4> QED
        BY <1>9, <3>1, <4>1
    <3>2. CASE i \notin 1 .. n
      BY <1>2, <1>5, <3>2 DEF c
    <3> QED
      BY <3>1, <3>2
  <2>2. g.cells = [i \in Cells |-> g.cells[i]]
    <3>1. g.cells = [i \in DOMAIN g.cells |-> g.cells[i]]
      <4>1. g.cells = [i \in Cells |-> IF i = Min(UpPath(k, x)) THEN x
                           ELSE IF i \in UpPath(k, x) THEN k.cells[i \div 2] ELSE k.cells[i]]
        <5> DEFINE cc == [i \in Cells |-> IF i = Min(UpPath(k, x)) THEN x
                           ELSE IF i \in UpPath(k, x) THEN k.cells[i \div 2] ELSE k.cells[i]]
        <5>1. g = [k EXCEPT !.cells = cc]
          BY <1>2 DEF SiftUp
        <5> HIDE DEF cc
        <5>2. g.cells = cc
          BY <5>1, <1>2 DEF HeapRec
        <5> QED
          BY <5>2 DEF cc
      <4> QED
        BY <4>1
    <3> QED
      BY <3>1, <1>5
  <2> QED
    BY <2>1, <2>2
<1>11. \A i \in 1 .. n : c[i].expire \in Nat /\ x.expire \in Nat
  BY <1>2, <1>4 DEF Element, c
<1>12. Ordered(c, n - 1)
  <2>1. n - 1 = h.n
    BY <1>1
  <2>2. \A i \in 2 .. h.n : i \in 1 .. h.n /\ i \div 2 \in 1 .. h.n
    BY <1>1, Halves
  <2> QED
    BY <1>7, <2>1, <2>2 DEF HeapOK, Ordered
<1>13. Ordered(g.cells, n)
  BY <1>4, <1>5, <1>6, <1>11, <1>12, UpOrdered DEF nxt
<1>14. ASSUME NEW d PROVE Refs(g, d) = Refs(h, d) + IF x.tmr = d THEN 1 ELSE 0
  <2> DEFINE old == [i \in 1 .. n |-> IF i = n THEN x ELSE c[i]]
             B == {i \in 1 .. n : old[i].tmr = d}
             A == {i \in 1 .. h.n : h.cells[i].tmr = d}
  <2>1. Refs(g, d) = Cardinality(B)
    <3>1. \A i \in 1 .. n : old[i] = IF i = n THEN x ELSE c[i]
      OBVIOUS
    <3> HIDE DEF n, old
    <3>2. Count(g.cells, n, d) = Count(old, n, d)
      BY <1>0, <1>17, <3>1, SiftedCount
    <3> QED
      BY <1>3, <3>2 DEF Refs, Count
  <2>2. B = IF x.tmr = d THEN A \union {n} ELSE A
    <3>1. \A i : i \in 1 .. n <=> (i \in 1 .. h.n \/ i = n)
      BY <1>1
    <3>2. n \notin 1 .. h.n
      BY <1>1
    <3> HIDE DEF n
    <3> QED
      BY <3>1, <3>2, <1>7
  <2>3. IsFiniteSet(A) /\ n \notin A
    <3>1. IsFiniteSet(1 .. h.n)
      BY <1>1, FS_Interval
    <3>2. n \notin A
      BY <1>1
    <3> QED
      BY <3>1, <3>2, FS_Subset
  <2>4. Cardinality(A) \in Nat
    BY <2>3, FS_CardinalityType
  <2>5. Cardinality(A \union {n}) = Cardinality(A) + 1
    <3> HIDE DEF A, n
    <3> QED
      BY <2>3, FS_AddElement
  <2>6. Refs(h, d) = Cardinality(A)
    BY DEF Refs, Count
  <2> HIDE DEF A, B, n
  <2> QED
    BY <2>1, <2>2, <2>4, <2>5, <2>6
<1>15. (h.n > 0 /\ h.cells[1].expire <= x.expire) => g.cells[1] = h.cells[1]
  <2> SUFFICES ASSUME h.n > 0, h.cells[1].expire <= x.expire PROVE g.cells[1] = h.cells[1]
    OBVIOUS
  <2>1. 1 \in 1 .. n /\ 1 # n /\ 1 \in 1 .. h.n /\ c[1] = h.cells[1]
    BY <1>1, <1>7
  <2>2. 1 \notin P
    <3>1. SUFFICES ASSUME 1 \in P PROVE FALSE
      OBVIOUS
    <3>2. PICK j \in P : nxt[j] = 1
      BY <1>6, <2>1, <3>1 DEF Way
    <3>3. c[1].expire > x.expire
      <4>1. j \in 1 .. n /\ nxt[j] # 0
        BY <1>7, <3>2
      <4>2. j \div 2 = 1 /\ c[j \div 2].expire > x.expire
        BY <1>8, <3>2, <4>1
      <4> QED
        BY <4>2
    <3> QED
      BY <1>11, <2>1, <3>3
  <2> QED
    BY <1>5, <2>1, <2>2 DEF Sifted
<1>16. HeapOK(g)
  BY <1>1, <1>3, <1>10, <1>13 DEF HeapOK
<1> QED
  BY <1>3, <1>9, <1>14, <1>15, <1>16 DEF g

\* One more element in a set that is counted.
LEMMA CountOne ==
    ASSUME NEW S, IsFiniteSet(S), NEW y, y \notin S, NEW b \in BOOLEAN
    PROVE  /\ IsFiniteSet(IF b THEN S \union {y} ELSE S)
           /\ Cardinality(S) \in Nat
           /\ Cardinality(IF b THEN S \union {y} ELSE S) = Cardinality(S) + IF b THEN 1 ELSE 0
<1>1. Cardinality(S) \in Nat
  BY FS_CardinalityType
<1>2. IsFiniteSet(S \union {y}) /\ Cardinality(S \union {y}) = Cardinality(S) + 1
  BY FS_AddElement
<1>3. CASE b
  BY <1>1, <1>2, <1>3
<1>4. CASE ~b
  BY <1>1, <1>4
<1> QED
  BY <1>3, <1>4

\* Counting with the last cell put in the place of the first.
LEMMA CountMoved ==
    ASSUME NEW m \in Nat \ {0}, NEW c, NEW old, NEW d,
           \A i \in 1 .. m : old[i] = IF i = 1 THEN c[m + 1] ELSE c[i]
    PROVE  /\ Count(old, m, d) \in Nat
           /\ Count(c, m + 1, d) = Count(old, m, d) + IF c[1].tmr = d THEN 1 ELSE 0
<1> DEFINE S == {i \in 2 .. m : c[i].tmr = d}
           first == c[1].tmr = d
           last == c[m + 1].tmr = d
           U == IF last THEN S \union {1} ELSE S
           V == IF last THEN S \union {m + 1} ELSE S
           W == IF first THEN V \union {1} ELSE V
<1>1. IsFiniteSet(S)
  <2>0. m \in Int /\ 2 \in Int
    OBVIOUS
  <2>1. IsFiniteSet(2 .. m)
    BY <2>0, FS_Interval
  <2> QED
    BY <2>1, FS_Subset
<1>2. 1 \notin S /\ m + 1 \notin S /\ 1 # m + 1
  OBVIOUS
<1>3. {i \in 1 .. m : old[i].tmr = d} = U
  <2>1. \A i : i \in 1 .. m <=> (i = 1 \/ i \in 2 .. m)
    OBVIOUS
  <2>2. \A i \in 2 .. m : i # 1
    OBVIOUS
  <2> QED
    BY <2>1, <2>2
<1>4. {i \in 1 .. m + 1 : c[i].tmr = d} = W
  <2>1. \A i : i \in 1 .. m + 1 <=> (i = 1 \/ i \in 2 .. m \/ i = m + 1)
    OBVIOUS
  <2> DEFINE z == m + 1
  <2>2. \A i : i \in 1 .. z <=> (i = 1 \/ i \in 2 .. m \/ i = z)
    BY <2>1
  <2>3. {i \in 1 .. z : c[i].tmr = d} =
           IF first THEN (IF c[z].tmr = d THEN S \union {z} ELSE S) \union {1}
           ELSE (IF c[z].tmr = d THEN S \union {z} ELSE S)
    <3> HIDE DEF z
    <3> QED
      BY <2>2
  <2> QED
    BY <2>3
<1>5. first \in BOOLEAN /\ last \in BOOLEAN
  OBVIOUS
<1>6. 1 \notin V
  BY <1>2
<1> HIDE DEF S, first, last
<1>7. Cardinality(S) \in Nat /\ Cardinality(U) = Cardinality(S) + IF last THEN 1 ELSE 0
  BY <1>1, <1>2, <1>5, CountOne
<1>8. IsFiniteSet(V) /\ Cardinality(V) = Cardinality(S) + IF last THEN 1 ELSE 0
  BY <1>1, <1>2, <1>5, CountOne
<1> HIDE DEF U, V
<1>9. Cardinality(W) = Cardinality(V) + IF first THEN 1 ELSE 0
  BY <1>5, <1>6, <1>8, CountOne
<1>10. Count(old, m, d) = Cardinality(U) /\ Count(c, m + 1, d) = Cardinality(W)
  BY <1>3, <1>4 DEF Count
<1> HIDE DEF W
<1> QED
  BY <1>7, <1>8, <1>9, <1>10 DEF first

\* The way down stays among the elements that are left.
LEMMA DownInside ==
    ASSUME NEW h, h.n \in Nat \ {0}, NEW x
    PROVE  DownPath(h, x) \subseteq 1 .. h.n
<1> DEFINE P == DownPath(h, x)
           nxt == DownNext(h, x)
<1>1. Way(P, 1, nxt, DownRank(h.n)) /\ DOMAIN nxt = 1 .. h.n + 1
  BY DownPathWay DEF DownNext
<1>2. ASSUME NEW k \in 1 .. h.n + 1, nxt[k] # 0 PROVE nxt[k] \in 1 .. h.n
  <2>1. 2 * k <= h.n /\ nxt[k] = Child(h, k)
    BY <1>2 DEF DownNext
  <2>2. k \in 1 .. h.n
    BY <2>1
  <2> QED
    BY <2>1, <2>2, ChildFacts
<1> SUFFICES ASSUME NEW i \in P PROVE i \in 1 .. h.n
  OBVIOUS
<1> HIDE DEF P, nxt
<1>3. CASE i = 1
  BY <1>3
<1>4. CASE i # 1
  <2>1. PICK k \in P : nxt[k] = i
    BY <1>1, <1>4 DEF Way
  <2>2. k \in 1 .. h.n + 1 /\ i \in 1 .. h.n + 1
    BY <1>1 DEF Way
  <2>3. i # 0
    BY <2>2
  <2> QED
    BY <1>2, <2>1, <2>2, <2>3
<1> QED
  BY <1>3, <1>4

\* heap_peek keeps the order and removes the first element.
LEMMA PeekHeap ==
    ASSUME NEW h, HeapOK(h), h.n > 0
    PROVE  LET g == heap_peek(h)
           IN  /\ HeapOK(g) /\ g.n = h.n - 1
               /\ \A d : /\ Refs(g, d) \in Nat
                         /\ Refs(h, d) = Refs(g, d) + IF h.cells[1].tmr = d THEN 1 ELSE 0
               /\ \A i \in 1 .. g.n : \E j \in 1 .. h.n : g.cells[i] = h.cells[j]
<1> DEFINE g == heap_peek(h)
           m == h.n - 1
           x == h.cells[h.n]
           l == [h EXCEPT !.n = m]
           c == h.cells
<1>1. BoundsOf(g) /\ HeapRec(h) /\ h.n \in Nat \ {0} /\ m \in Nat /\ c \in [Cells -> Element]
  BY PeekBounds DEF HeapOK, BoundsOf, HeapRec
<1>2. /\ l = [size |-> h.size, n |-> m, cells |-> c, alloc |-> h.alloc]
  BY <1>1 DEF HeapRec
<1>3. l.n = m /\ l.cells = c
  BY <1>2
<1>4. g.n = m /\ g.cells = SiftDown(l, x)
  <2> DEFINE s == SiftDown(l, x)
  <2>1. g = [h EXCEPT !.n = m, !.cells = s]
    BY DEF heap_peek
  <2> HIDE DEF s, g
  <2> QED
    BY <1>1, <2>1 DEF HeapRec, s
<1>5. 1 .. h.n \subseteq Cells /\ 1 .. m \subseteq Cells /\ h.n = m + 1
  <2>1. 1 .. h.n \subseteq Cells
    BY InUse DEF HeapOK
  <2> QED
    BY <1>1, <2>1
<1> HIDE DEF g, l
<1>6. /\ Sifted(c, g.cells, m, DownPath(l, x), DownNext(l, x), x)
      /\ DOMAIN g.cells = Cells
      /\ \A i \in Cells \ (1 .. m) : g.cells[i] \in {c[i], Zero}
  BY <1>1, <1>3, <1>4, <1>5, SiftDownCells
<1>7. /\ Ways(m + 1, DownNext(l, x), DownRank(m))
      /\ Way(DownPath(l, x), 1, DownNext(l, x), DownRank(m))
  BY <1>1, <1>3, DownWays, DownPathWay
<1>8. x \in Element /\ \A i \in 1 .. m : c[i] \in Element
  <2>1. h.n \in Cells
    BY <1>1, <1>5
  <2> QED
    BY <1>1, <1>5, <2>1
<1>9. Ordered(g.cells, m)
  <2>1. Ordered(c, m)
    <3>1. \A i \in 2 .. m : i \in 2 .. h.n
      BY <1>1
    <3> QED
      BY <3>1 DEF HeapOK, Ordered
  <2>2. x.expire \in Nat /\ \A i \in 1 .. m : c[i].expire \in Nat
    BY <1>8 DEF Element
  <2> HIDE DEF c, m, x
  <2> QED
    BY <1>1, <1>3, <1>6, <1>7, <2>1, <2>2, DownOrdered
<1>10. m > 0 => SiftOf(c, g.cells, m, 1, x)
  <2> SUFFICES ASSUME m > 0 PROVE SiftOf(c, g.cells, m, 1, x)
    OBVIOUS
  <2>1. m \in Nat \ {0}
    BY <1>1
  <2>2. DownPath(l, x) \subseteq 1 .. m
    BY <1>3, <2>1, DownInside
  <2>3. m <= m + 1
    BY <1>1
  <2> HIDE DEF m, x, c
  <2> QED
    BY <1>6, <1>7, <2>2, <2>3 DEF SiftOf
<1>11. ASSUME NEW i \in 1 .. m PROVE \E j \in 1 .. h.n : g.cells[i] = c[j]
  <2>1. m > 0 /\ h.n \in 1 .. h.n /\ \A j \in 1 .. m : j \in 1 .. h.n
    BY <1>1
  <2>2. g.cells[i] = x \/ \E j \in (1 .. m) \ {1} : g.cells[i] = c[j]
    <3> HIDE DEF m, x, c
    <3> QED
      BY <1>1, <1>10, <2>1, SiftedFrom
  <2> QED
    BY <2>1, <2>2
<1>12. g.cells \in [Cells -> Element]
  <2>1. ASSUME NEW i \in Cells PROVE g.cells[i] \in Element
    <3>1. CASE i \in 1 .. m
      BY <1>1, <1>5, <1>11, <3>1
    <3>2. CASE i \notin 1 .. m
      <4>1. Zero \in Element
        BY DEF Zero, Element, NULL
      <4> QED
        BY <1>1, <1>6, <3>2, <4>1
    <3> QED
      BY <3>1, <3>2
  <2>2. g.cells = [i \in Cells |-> g.cells[i]]
    BY <1>4 DEF SiftDown
  <2> QED
    BY <2>1, <2>2
<1>13. ASSUME NEW d
       PROVE  /\ Refs(g, d) \in Nat
              /\ Refs(h, d) = Refs(g, d) + IF c[1].tmr = d THEN 1 ELSE 0
  <2>1. CASE m > 0
    <3> DEFINE old == [i \in 1 .. m |-> IF i = 1 THEN x ELSE c[i]]
    <3>1. /\ \A i \in 1 .. m : old[i] = IF i = 1 THEN x ELSE c[i]
          /\ m \in Nat \ {0} /\ x = c[m + 1]
      BY <1>1, <1>5, <2>1
    <3> HIDE DEF old, m, x, c
    <3>2. Count(g.cells, m, d) = Count(old, m, d)
      BY <1>1, <1>10, <2>1, <3>1, SiftedCount
    <3>3. /\ Count(old, m, d) \in Nat
          /\ Count(c, m + 1, d) = Count(old, m, d) + IF c[1].tmr = d THEN 1 ELSE 0
      BY <3>1, CountMoved
    <3> QED
      BY <1>4, <1>5, <3>2, <3>3 DEF Refs, c
  <2>2. CASE m = 0
    <3>1. Refs(g, d) = 0
      <4>1. {i \in 1 .. 0 : g.cells[i].tmr = d} = {}
        OBVIOUS
      <4> QED
        BY <1>4, <2>2, <4>1, FS_EmptySet DEF Refs, Count
    <3>2. Refs(h, d) = IF c[1].tmr = d THEN 1 ELSE 0
      <4>1. {i \in 1 .. 1 : c[i].tmr = d} = IF c[1].tmr = d THEN {1} ELSE {}
        OBVIOUS
      <4>2. Cardinality({1}) = 1 /\ Cardinality({}) = 0
        BY FS_EmptySet, FS_Singleton
      <4>3. h.n = 1
        BY <1>1, <2>2
      <4>4. Refs(h, d) = Cardinality({i \in 1 .. 1 : c[i].tmr = d})
        BY <4>3 DEF Refs, Count
      <4> HIDE DEF c
      <4> QED
        BY <4>1, <4>2, <4>4
    <3> QED
      BY <3>1, <3>2
  <2> QED
    BY <1>1, <2>1, <2>2
<1>14. HeapOK(g)
  BY <1>1, <1>4, <1>9, <1>12 DEF HeapOK
<1> QED
  BY <1>4, <1>11, <1>13, <1>14 DEF g

\* When the clock last was at zero.
Epoch(time) == time - (time % ClockMod)

\* A reference whose timer is set: its expiry time is counted from a moment the clock
\* was at zero, and if that is not the present round then pico_check_timers either has
\* no tick ahead of it or will not take the reference for expired.
OnTime(r) ==
    LET base == r.tmr - r.expire
    IN  /\ base \in Nat /\ base <= Epoch(now)
        /\ pc # "idle" => base + pico_tick <= now \/ r.expire >= pico_tick

\* What holds until a misuse.
Running ==
    /\ \A d \in Dues : set[d] = Refs(heap, d)
    /\ pc = "callback" => /\ heap.n > 0 /\ heap.cells[1].tmr = t /\ t # NULL
                          /\ Expired(heap.cells[1])
    /\ \A i \in 1 .. heap.n : heap.cells[i].tmr # NULL => OnTime(heap.cells[i])

\* The inductive invariant of HeapOrdered, RefsExact and NeverEarly.
OrderInv ==
    /\ HeapOK(heap)
    /\ now \in Nat \ {0} /\ pico_tick \in Nat /\ pc \in {"idle", "loop", "callback"}
    /\ DOMAIN set = Dues /\ set = [d \in Dues |-> set[d]]
    /\ early = FALSE /\ misused \in BOOLEAN
    /\ ~misused => Running

\* The clock's round.
LEMMA EpochFacts ==
    ASSUME NEW time \in Nat
    PROVE  /\ time % ClockMod \in Nat /\ Epoch(time) \in Nat
           /\ time = Epoch(time) + (time % ClockMod)
           /\ Epoch(time) <= Epoch(time + 1)
<1>1. ClockMod \in Nat \ {0}
  BY TimersAssumption
<1>2. PICK q \in Nat, r \in 0 .. ClockMod - 1 : time = ClockMod * q + r /\ r = time % ClockMod
  BY <1>1, DivModParts
<1> DEFINE m == ClockMod * q
<1>3. m \in Nat /\ time = m + r /\ r \in Nat /\ r < ClockMod
  BY <1>1, <1>2
<1>4. Epoch(time) = m
  BY <1>2, <1>3 DEF Epoch
<1>5. CASE r + 1 < ClockMod
  <2>1. r + 1 \in 0 .. ClockMod - 1
    BY <1>1, <1>5
  <2>2. (ClockMod * q + (r + 1)) % ClockMod = r + 1
    BY <1>1, <2>1, DivModUnique
  <2>3. time + 1 = m + (r + 1)
    BY <1>3
  <2>4. (time + 1) % ClockMod = r + 1
    BY <2>2, <2>3
  <2> HIDE DEF m
  <2> QED
    BY <1>2, <1>3, <1>4, <2>3, <2>4 DEF Epoch
<1>6. CASE r + 1 = ClockMod
  <2>1. (ClockMod * (q + 1) + 0) % ClockMod = 0
    BY <1>1, DivModUnique
  <2>2. ClockMod * (q + 1) + 0 = m + ClockMod
    BY <1>1
  <2> HIDE DEF m
  <2>3. time + 1 = m + ClockMod
    BY <1>1, <1>3, <1>6
  <2>4. (time + 1) % ClockMod = 0
    BY <2>1, <2>2, <2>3
  <2>5. Epoch(time + 1) = time + 1
    BY <2>4, <1>3 DEF Epoch
  <2> QED
    BY <1>2, <1>3, <1>4, <2>5
<1> QED
  BY <1>1, <1>3, <1>5, <1>6

\* pico_timer_cancel takes one reference from the heap and leaves its place.
LEMMA CancelHeap ==
    ASSUME NEW h, HeapOK(h), NEW i \in 1 .. h.n, h.cells[i].tmr # NULL
    PROVE  LET g == [h EXCEPT !.cells[i].tmr = NULL]
           IN  /\ HeapOK(g) /\ g.n = h.n /\ g.cells[i].tmr = NULL
               /\ \A j \in 1 .. h.n : j # i => g.cells[j] = h.cells[j]
               /\ \A d : d # NULL => /\ Refs(g, d) \in Nat
                                     /\ Refs(h, d) = Refs(g, d) + IF h.cells[i].tmr = d THEN 1 ELSE 0
<1> DEFINE c == [h.cells EXCEPT ![i].tmr = NULL]
           g == [h EXCEPT !.cells = c]
           r == [expire |-> h.cells[i].expire, tmr |-> NULL]
<1>1. HeapRec(h) /\ h.n \in Nat /\ h.cells \in [Cells -> Element]
  BY DEF HeapOK, BoundsOf, HeapRec
<1>2. 1 .. h.n \subseteq Cells
  BY InUse DEF HeapOK
<1>3. i \in Cells /\ h.cells[i] \in Element /\ r \in Element
  BY <1>1, <1>2 DEF Element, NULL
<1>4. c = [h.cells EXCEPT ![i] = r]
  <2>1. h.cells[i] = [expire |-> h.cells[i].expire, tmr |-> h.cells[i].tmr]
    BY <1>3 DEF Element
  <2> DEFINE e == h.cells[i]
  <2>2. [e EXCEPT !.tmr = NULL] = r
    BY <2>1
  <2> QED
    BY <2>2
<1>5. /\ c \in [Cells -> Element] /\ c[i] = r
      /\ \A j \in 1 .. h.n : c[j].expire = h.cells[j].expire
      /\ \A j \in 1 .. h.n : j # i => c[j] = h.cells[j]
  <2> HIDE DEF c
  <2>1. r.expire = h.cells[i].expire
    OBVIOUS
  <2> HIDE DEF r
  <2> QED
    BY <1>1, <1>2, <1>3, <1>4, <2>1
<1> HIDE DEF c
<1>6. g = [size |-> h.size, n |-> h.n, cells |-> c, alloc |-> h.alloc]
  BY <1>1 DEF HeapRec
<1> HIDE DEF g
<1>7. g.size = h.size /\ g.n = h.n /\ g.cells = c /\ g.alloc = h.alloc
  BY <1>6
<1>8. BoundsOf(g)
  BY <1>6, <1>7 DEF HeapOK, BoundsOf, HeapRec, InBlock
<1>9. Ordered(c, h.n)
  <2> SUFFICES ASSUME NEW j \in 2 .. h.n PROVE c[j \div 2].expire <= c[j].expire
    BY DEF Ordered
  <2>1. j \in 1 .. h.n /\ j \div 2 \in 1 .. h.n
    BY <1>1, Halves
  <2>2. h.cells[j \div 2].expire <= h.cells[j].expire
    BY DEF HeapOK, Ordered
  <2> QED
    BY <1>5, <2>1, <2>2
<1>10. ASSUME NEW d, d # NULL
       PROVE  /\ Refs(g, d) \in Nat
              /\ Refs(h, d) = Refs(g, d) + IF h.cells[i].tmr = d THEN 1 ELSE 0
  <2> DEFINE S == {j \in 1 .. h.n : c[j].tmr = d}
             b == h.cells[i].tmr = d
  <2>1. IsFiniteSet(S)
    <3>1. IsFiniteSet(1 .. h.n)
      BY <1>1, FS_Interval
    <3> QED
      BY <3>1, FS_Subset
  <2>2. i \notin S
    BY <1>5, <1>10
  <2>3. {j \in 1 .. h.n : h.cells[j].tmr = d} = IF b THEN S \union {i} ELSE S
    BY <1>5, <2>2
  <2>4. Refs(g, d) = Cardinality(S) /\ b \in BOOLEAN
    BY <1>7 DEF Refs, Count
  <2>5. Refs(h, d) = Cardinality(IF b THEN S \union {i} ELSE S)
    BY <2>3 DEF Refs, Count
  <2> HIDE DEF S, b
  <2>6. Cardinality(S) \in Nat
        /\ Cardinality(IF b THEN S \union {i} ELSE S) = Cardinality(S) + IF b THEN 1 ELSE 0
    BY <2>1, <2>2, <2>4, CountOne
  <2> QED
    BY <2>4, <2>5, <2>6 DEF b
<1>11. HeapOK(g)
  BY <1>5, <1>7, <1>8, <1>9 DEF HeapOK
<1>12. [h EXCEPT !.cells[i].tmr = NULL] = g
  BY DEF g, c
<1>13. r.tmr = NULL
  OBVIOUS
<1> HIDE DEF r
<1>14. /\ HeapOK(g) /\ g.n = h.n /\ g.cells[i].tmr = NULL
       /\ \A j \in 1 .. h.n : j # i => g.cells[j] = h.cells[j]
  BY <1>5, <1>7, <1>11, <1>13
<1> QED
  BY <1>10, <1>12, <1>14

\* A state in which no timer is set.
LEMMA OrderInit == Init => OrderInv
<1> SUFFICES ASSUME Init PROVE OrderInv
  OBVIOUS
<1>1. heap = [size |-> 0, n |-> 0, cells |-> [i \in Cells |-> Zero],
              alloc |-> [b \in 0 .. Blocks - 1 |-> 0]]
  BY DEF Init
<1>2. BoundsOf(heap)
  BY BoundsInit DEF TimersInv, BoundsInv
<1>3. heap.n = 0 /\ heap.cells = [i \in Cells |-> Zero]
  BY <1>1
<1>4. Zero \in Element
  BY DEF Zero, Element, NULL
<1>5. HeapOK(heap)
  <2>1. heap.cells \in [Cells -> Element]
    BY <1>3, <1>4
  <2> QED
    BY <1>2, <1>3, <2>1 DEF HeapOK, Ordered
<1>6. \A d : Refs(heap, d) = 0
  <2>1. \A d : {i \in 1 .. 0 : heap.cells[i].tmr = d} = {}
    OBVIOUS
  <2> QED
    BY <1>3, <2>1, FS_EmptySet DEF Refs, Count
<1>7. Running
  <2>1. \A d \in Dues : set[d] = 0
    BY DEF Init
  <2>2. pc # "callback"
    BY DEF Init
  <2>3. \A i \in 1 .. heap.n : FALSE
    BY <1>3
  <2> QED
    BY <1>6, <2>1, <2>2, <2>3 DEF Running
<1> QED
  BY <1>5, <1>7, TimersAssumption DEF Init, OrderInv

\* pico_timer_add inserts a reference that expires in the clock's present round.
LEMMA OrderAdd ==
    ASSUME OrderInv, ~misused, pico_timer_add PROVE OrderInv'
<1>1. PICK d \in Delays :
        /\ heap' = heap_insert(heap, [expire |-> PICO_TIME_MS + d, tmr |-> now + d])
        /\ set' = [set EXCEPT ![now + d] = @ + 1]
  BY DEF pico_timer_add
<1> DEFINE x == [expire |-> PICO_TIME_MS + d, tmr |-> now + d]
<1>2. /\ ~Full(heap) /\ UNCHANGED <<now, pico_tick, pc, t, early>>
      /\ misused' = (misused \/ (pc # "idle" /\ PICO_TIME_MS < pico_tick))
  BY DEF pico_timer_add, Misuse
<1>3. /\ HeapOK(heap) /\ now \in Nat \ {0} /\ pico_tick \in Nat
      /\ pc \in {"idle", "loop", "callback"} /\ set = [e \in Dues |-> set[e]]
      /\ early = FALSE /\ Running
  BY DEF OrderInv
<1>4. /\ d \in Nat /\ PICO_TIME_MS \in Nat /\ Epoch(now) \in Nat
      /\ now = Epoch(now) + PICO_TIME_MS
  BY <1>3, EpochFacts, TimersAssumption DEF PICO_TIME_MS
<1>5. x.expire = PICO_TIME_MS + d /\ x.tmr = now + d /\ x \in Element
  BY <1>3, <1>4 DEF Element
<1> HIDE DEF x
<1>6. /\ HeapOK(heap') /\ heap'.n = heap.n + 1
      /\ \A e : Refs(heap', e) = Refs(heap, e) + IF x.tmr = e THEN 1 ELSE 0
      /\ \A i \in 1 .. heap'.n : heap'.cells[i] = x
                                  \/ \E j \in 1 .. heap.n : heap'.cells[i] = heap.cells[j]
      /\ (heap.n > 0 /\ heap.cells[1].expire <= x.expire) => heap'.cells[1] = heap.cells[1]
  BY <1>1, <1>2, <1>3, <1>5, InsertHeap DEF x
<1>7. ASSUME ~misused' PROVE Running'
  <2>0. ~(pc # "idle" /\ PICO_TIME_MS < pico_tick)
    BY <1>2, <1>7, Zenon
  <2>1. pc # "idle" => pico_tick <= PICO_TIME_MS
    BY <1>3, <1>4, <2>0
  <2>2. ASSUME NEW e \in Dues PROVE set'[e] = Refs(heap', e)
    <3>1. set'[e] = IF e = now + d THEN set[e] + 1 ELSE set[e]
      BY <1>1, <1>3
    <3>2. set[e] = Refs(heap, e) /\ Refs(heap, e) + 0 = Refs(heap, e)
      <4>1. Refs(heap, e) \in Nat
        <5>1. heap.n \in Nat
          BY <1>3 DEF HeapOK, BoundsOf, HeapRec
        <5>2. IsFiniteSet({i \in 1 .. heap.n : heap.cells[i].tmr = e})
          <6>1. IsFiniteSet(1 .. heap.n)
            BY <5>1, FS_Interval
          <6> QED
            BY <6>1, FS_Subset
        <5> QED
          BY <5>2, FS_CardinalityType DEF Refs, Count
      <4> QED
        BY <1>3, <4>1 DEF Running
    <3> QED
      BY <1>5, <1>6, <3>1, <3>2
  <2>3. ASSUME pc' = "callback"
        PROVE  heap'.n > 0 /\ heap'.cells[1].tmr = t' /\ t' # NULL /\ Expired(heap.cells[1])'
    <3>1. /\ heap.n > 0 /\ heap.cells[1].tmr = t /\ t # NULL /\ heap.cells[1].expire < pico_tick
      BY <1>2, <1>3, <2>3 DEF Running, Expired
    <3>2. heap.cells[1].expire \in Nat /\ heap.n \in Nat
      <4>1. 1 \in Cells /\ heap.n \in Nat /\ heap.cells \in [Cells -> Element]
        <5>1. heap.n \in Nat /\ 1 .. heap.n \subseteq Cells
          BY <1>3, InUse DEF HeapOK
        <5> QED
          BY <1>3, <3>1, <5>1 DEF HeapOK
      <4> QED
        BY <4>1 DEF Element
    <3>3. heap.cells[1].expire <= x.expire
      BY <1>2, <1>3, <1>4, <1>5, <2>1, <2>3, <3>1, <3>2
    <3>4. heap'.cells[1] = heap.cells[1] /\ heap'.n > 0
      BY <1>6, <3>1, <3>2, <3>3
    <3> QED
      BY <1>2, <3>1, <3>4 DEF Expired
  <2>4. ASSUME NEW i \in 1 .. heap'.n, heap'.cells[i].tmr # NULL PROVE OnTime(heap.cells[i])'
    <3>1. CASE heap'.cells[i] = x
      <4>1. x.tmr - x.expire = Epoch(now)
        BY <1>3, <1>4, <1>5
      <4>2. pc # "idle" => x.expire >= pico_tick
        BY <1>3, <1>4, <1>5, <2>1
      <4>3. Epoch(now) <= Epoch(now)
        BY <1>4
      <4>4. Epoch(now)' = Epoch(now)
        BY <1>2 DEF Epoch
      <4> HIDE DEF x
      <4> QED
        BY <1>2, <1>4, <3>1, <4>1, <4>2, <4>3, <4>4 DEF OnTime
    <3>2. CASE \E j \in 1 .. heap.n : heap'.cells[i] = heap.cells[j]
      <4>1. PICK j \in 1 .. heap.n : heap'.cells[i] = heap.cells[j]
        BY <3>2
      <4>2. OnTime(heap.cells[j])
        BY <1>3, <2>4, <4>1 DEF Running
      <4> QED
        BY <1>2, <4>1, <4>2 DEF OnTime, Epoch
    <3> QED
      BY <1>6, <3>1, <3>2
  <2> QED
    BY <2>2, <2>3, <2>4 DEF Running
<1>8. DOMAIN set' = Dues /\ set' = [e \in Dues |-> set'[e]]
  BY <1>1, <1>3
<1>9. misused' \in BOOLEAN
  BY <1>2
<1> QED
  BY <1>2, <1>3, <1>6, <1>7, <1>8, <1>9 DEF OrderInv

\* pico_timer_cancel frees the timer it takes out of the heap.
LEMMA OrderCancel ==
    ASSUME OrderInv, ~misused, NEW i \in Cells \ {0}, pico_timer_cancel(i) PROVE OrderInv'
<1>1. /\ i <= heap.n /\ heap.cells[i].tmr # NULL
      /\ heap' = [heap EXCEPT !.cells[i].tmr = NULL]
      /\ set' = [set EXCEPT ![heap.cells[i].tmr] = @ - 1]
      /\ UNCHANGED <<now, pico_tick, pc, t, early>>
      /\ misused' = (misused \/ (pc # "idle" /\ i = 1 /\ pc = "callback"))
  BY DEF pico_timer_cancel, Misuse, Free
<1>2. /\ HeapOK(heap) /\ now \in Nat \ {0} /\ pico_tick \in Nat
      /\ pc \in {"idle", "loop", "callback"} /\ set = [e \in Dues |-> set[e]]
      /\ early = FALSE /\ Running
  BY DEF OrderInv
<1>3. i \in 1 .. heap.n /\ heap.n \in Nat
  <2>1. heap.n \in Nat /\ i \in Nat \ {0}
    BY <1>2, TimersAssumption DEF HeapOK, BoundsOf, HeapRec, Cells
  <2> QED
    BY <1>1, <2>1
<1>4. /\ HeapOK(heap') /\ heap'.n = heap.n /\ heap'.cells[i].tmr = NULL
      /\ \A j \in 1 .. heap.n : j # i => heap'.cells[j] = heap.cells[j]
      /\ \A d : d # NULL => /\ Refs(heap', d) \in Nat
                            /\ Refs(heap, d) = Refs(heap', d) + IF heap.cells[i].tmr = d THEN 1 ELSE 0
  BY <1>1, <1>2, <1>3, CancelHeap
<1>5. ASSUME ~misused' PROVE Running'
  <2>1. ASSUME NEW e \in Dues PROVE set'[e] = Refs(heap', e)
    <3>1. set'[e] = IF e = heap.cells[i].tmr THEN set[e] - 1 ELSE set[e]
      BY <1>1, <1>2
    <3>2. set[e] = Refs(heap, e)
      BY <1>2 DEF Running
    <3>3. e # NULL
      BY DEF Dues, NULL
    <3> QED
      BY <1>4, <3>1, <3>2, <3>3
  <2>2. ASSUME pc' = "callback"
        PROVE  heap'.n > 0 /\ heap'.cells[1].tmr = t' /\ t' # NULL /\ Expired(heap.cells[1])'
    <3>1. /\ heap.n > 0 /\ heap.cells[1].tmr = t /\ t # NULL /\ Expired(heap.cells[1])
      BY <1>1, <1>2, <2>2 DEF Running
    <3>0. ~(pc # "idle" /\ i = 1 /\ pc = "callback") /\ pc = "callback"
      BY <1>1, <1>5, <2>2, Zenon
    <3>2. i # 1 /\ 1 \in 1 .. heap.n
      BY <1>3, <3>0
    <3>3. heap'.cells[1] = heap.cells[1]
      BY <1>4, <3>2
    <3> QED
      BY <1>1, <1>4, <3>1, <3>3 DEF Expired
  <2>3. ASSUME NEW j \in 1 .. heap'.n, heap'.cells[j].tmr # NULL PROVE OnTime(heap.cells[j])'
    <3>1. j # i /\ j \in 1 .. heap.n
      BY <1>4, <2>3
    <3>2. heap'.cells[j] = heap.cells[j] /\ OnTime(heap.cells[j])
      BY <1>2, <1>4, <2>3, <3>1 DEF Running
    <3> QED
      BY <1>1, <3>2 DEF OnTime, Epoch
  <2> QED
    BY <2>1, <2>2, <2>3 DEF Running
<1>6. DOMAIN set' = Dues /\ set' = [e \in Dues |-> set'[e]]
  BY <1>1, <1>2
<1>7. misused' \in BOOLEAN
  BY <1>1
<1> QED
  BY <1>1, <1>2, <1>4, <1>5, <1>6, <1>7 DEF OrderInv

\* What a removal leaves.
LEMMA OrderPeek ==
    ASSUME OrderInv, ~misused, heap.n > 0, heap' = heap_peek(heap), pc # "idle", pc' = "loop",
           \A e \in Dues : set'[e] = IF e = heap.cells[1].tmr THEN set[e] - 1 ELSE set[e],
           DOMAIN set' = Dues, set' = [e \in Dues |-> set'[e]],
           UNCHANGED <<now, pico_tick, early, misused>>
    PROVE  OrderInv'
<1>1. /\ HeapOK(heap) /\ now \in Nat \ {0} /\ pico_tick \in Nat
      /\ early = FALSE /\ Running
  BY DEF OrderInv
<1>2. /\ HeapOK(heap') /\ heap'.n = heap.n - 1
      /\ \A d : /\ Refs(heap', d) \in Nat
                /\ Refs(heap, d) = Refs(heap', d) + IF heap.cells[1].tmr = d THEN 1 ELSE 0
      /\ \A i \in 1 .. heap'.n : \E j \in 1 .. heap.n : heap'.cells[i] = heap.cells[j]
  BY <1>1, PeekHeap
<1>3. ASSUME NEW e \in Dues PROVE set'[e] = Refs(heap', e)
  <2>1. set[e] = Refs(heap, e)
    BY <1>1 DEF Running
  <2>2. set'[e] = IF e = heap.cells[1].tmr THEN set[e] - 1 ELSE set[e]
    OBVIOUS
  <2> QED
    BY <1>2, <2>1, <2>2
<1>4. ASSUME NEW i \in 1 .. heap'.n, heap'.cells[i].tmr # NULL PROVE OnTime(heap.cells[i])'
  <2>1. PICK j \in 1 .. heap.n : heap'.cells[i] = heap.cells[j]
    BY <1>2
  <2>2. OnTime(heap.cells[j])
    BY <1>1, <1>4, <2>1 DEF Running
  <2> QED
    BY <2>1, <2>2 DEF OnTime, Epoch
<1>5. Running'
  BY <1>3, <1>4 DEF Running
<1> QED
  BY <1>1, <1>2, <1>5 DEF OrderInv

\* The steps that leave the heap alone.
LEMMA OrderStill ==
    ASSUME OrderInv, ~misused, pico_check_timers \/ CheckEnds \/ CheckCalls \/ Tick
    PROVE  OrderInv'
<1>1. /\ HeapOK(heap) /\ now \in Nat \ {0} /\ pico_tick \in Nat
      /\ pc \in {"idle", "loop", "callback"} /\ DOMAIN set = Dues /\ set = [e \in Dues |-> set[e]]
      /\ early = FALSE /\ Running
  BY DEF OrderInv
<1>2. UNCHANGED <<heap, set, misused>>
  BY DEF pico_check_timers, CheckEnds, CheckCalls, Tick
<1>3. HeapOK(heap)' /\ \A e : Refs(heap', e) = Refs(heap, e)
  BY <1>1, <1>2
<1>4. /\ PICO_TIME_MS \in Nat /\ Epoch(now) \in Nat /\ now = Epoch(now) + PICO_TIME_MS
      /\ Epoch(now) <= Epoch(now + 1)
  BY <1>1, EpochFacts DEF PICO_TIME_MS
<1>5. ASSUME NEW i \in 1 .. heap.n, heap.cells[i].tmr # NULL
      PROVE  /\ heap.cells[i].expire \in Nat /\ heap.cells[i].tmr \in Nat
             /\ OnTime(heap.cells[i])
  <2>1. i \in Cells /\ heap.cells \in [Cells -> Element]
    BY <1>1, InUse DEF HeapOK
  <2> QED
    BY <1>1, <1>5, <2>1 DEF Running, Element
<1>6. CASE pico_check_timers
  <2>1. pico_tick' = PICO_TIME_MS /\ pc' = "loop" /\ UNCHANGED <<now, t, early>>
    BY <1>6 DEF pico_check_timers
  <2>2. ASSUME NEW i \in 1 .. heap.n, heap.cells[i].tmr # NULL PROVE OnTime(heap.cells[i])'
    <3> DEFINE base == heap.cells[i].tmr - heap.cells[i].expire
    <3>1. base \in Nat /\ base <= Epoch(now)
      BY <1>5, <2>2 DEF OnTime
    <3> HIDE DEF base
    <3>2. base + pico_tick' <= now
      BY <1>4, <2>1, <3>1
    <3> QED
      BY <1>2, <2>1, <3>1, <3>2 DEF OnTime, base, Epoch
  <2>3. Running'
    BY <1>1, <1>2, <2>1, <2>2 DEF Running
  <2> QED
    BY <1>1, <1>2, <1>3, <1>4, <2>1, <2>3 DEF OrderInv
<1>7. CASE CheckEnds
  <2>1. pc' = "idle" /\ UNCHANGED <<now, t, early, pico_tick>>
    BY <1>7 DEF CheckEnds
  <2>2. ASSUME NEW i \in 1 .. heap.n, heap.cells[i].tmr # NULL PROVE OnTime(heap.cells[i])'
    BY <1>2, <1>5, <2>1, <2>2 DEF OnTime, Epoch
  <2>3. Running'
    BY <1>1, <1>2, <2>1, <2>2 DEF Running
  <2> QED
    BY <1>1, <1>2, <1>3, <2>1, <2>3 DEF OrderInv
<1>8. CASE CheckCalls
  <2>1. /\ pc = "loop" /\ heap.n > 0 /\ Expired(heap.cells[1]) /\ heap.cells[1].tmr # NULL
        /\ t' = heap.cells[1].tmr /\ pc' = "callback" /\ early' = (early \/ now <= t')
        /\ UNCHANGED <<now, pico_tick>>
    BY <1>8 DEF CheckCalls
  <2>2. 1 \in 1 .. heap.n
    BY <1>1, <2>1 DEF HeapOK, BoundsOf, HeapRec
  <2>3. /\ heap.cells[1].expire \in Nat /\ heap.cells[1].tmr \in Nat /\ OnTime(heap.cells[1])
    BY <1>5, <2>1, <2>2
  <2>4. now > heap.cells[1].tmr
    <3> DEFINE r == heap.cells[1]
               base == r.tmr - r.expire
    <3>1. base \in Nat /\ r.expire \in Nat /\ r.tmr = base + r.expire /\ r.expire < pico_tick
      BY <2>1, <2>3 DEF OnTime, Expired
    <3>2. base + pico_tick <= now
      BY <1>1, <2>1, <2>3, <3>1 DEF OnTime
    <3> HIDE DEF base, r
    <3>3. now > r.tmr
      BY <1>1, <3>1, <3>2
    <3> QED
      BY <3>3 DEF r
  <2>5. early' = FALSE
    <3>1. ~(now <= t')
      BY <1>1, <2>1, <2>3, <2>4
    <3>2. early' = (early \/ now <= t') /\ early = FALSE
      BY <1>1, <2>1
    <3> QED
      BY <3>1, <3>2, Zenon
  <2>6. ASSUME NEW i \in 1 .. heap.n, heap.cells[i].tmr # NULL PROVE OnTime(heap.cells[i])'
    BY <1>2, <1>5, <2>1, <2>6 DEF OnTime, Epoch
  <2>7. Running'
    <3>1. \A e \in Dues : set'[e] = Refs(heap', e)
      BY <1>1, <1>2, <1>3 DEF Running
    <3>2. heap'.n > 0 /\ heap'.cells[1].tmr = t' /\ t' # NULL /\ Expired(heap.cells[1])'
      BY <1>2, <2>1 DEF Expired
    <3>3. \A i \in 1 .. heap'.n : heap'.cells[i].tmr # NULL => OnTime(heap.cells[i])'
      BY <1>2, <2>6
    <3> QED
      BY <3>1, <3>2, <3>3 DEF Running
  <2> QED
    BY <1>1, <1>2, <1>3, <2>1, <2>5, <2>7 DEF OrderInv
<1>9. CASE Tick
  <2>1. now' = now + 1 /\ UNCHANGED <<pico_tick, pc, t, early>>
    BY <1>9 DEF Tick
  <2>2. ASSUME NEW i \in 1 .. heap.n, heap.cells[i].tmr # NULL PROVE OnTime(heap.cells[i])'
    <3> DEFINE base == heap.cells[i].tmr - heap.cells[i].expire
    <3>1. base \in Nat /\ base <= Epoch(now) /\ heap.cells[i].expire \in Nat
          /\ (pc # "idle" => base + pico_tick <= now \/ heap.cells[i].expire >= pico_tick)
      BY <1>5, <2>2 DEF OnTime
    <3>2. Epoch(now)' = Epoch(now + 1) /\ Epoch(now + 1) \in Nat
      BY <1>1, <2>1, EpochFacts DEF Epoch
    <3> HIDE DEF base
    <3>3. /\ base <= Epoch(now)'
          /\ (pc' # "idle" => base + pico_tick' <= now' \/ heap.cells[i].expire >= pico_tick')
      BY <1>1, <1>4, <2>1, <3>1, <3>2
    <3> QED
      BY <1>2, <3>1, <3>3 DEF OnTime, base
  <2>3. Running'
    <3>1. \A e \in Dues : set'[e] = Refs(heap', e)
      BY <1>1, <1>2, <1>3 DEF Running
    <3>2. pc' = "callback" => heap'.n > 0 /\ heap'.cells[1].tmr = t' /\ t' # NULL
                                /\ Expired(heap.cells[1])'
      BY <1>1, <1>2, <2>1 DEF Expired, Running
    <3>3. \A i \in 1 .. heap'.n : heap'.cells[i].tmr # NULL => OnTime(heap.cells[i])'
      BY <1>2, <2>2
    <3> QED
      BY <3>1, <3>2, <3>3 DEF Running
  <2>4. now' \in Nat \ {0}
    BY <1>1, <2>1
  <2> QED
    BY <1>1, <1>2, <1>3, <2>1, <2>3, <2>4 DEF OrderInv
<1> QED
  BY <1>6, <1>7, <1>8, <1>9

\* Every step keeps the invariant.
LEMMA OrderStep == OrderInv /\ [Next]_vars => OrderInv'
<1> SUFFICES ASSUME OrderInv, [Next]_vars PROVE OrderInv'
  OBVIOUS
<1>1. CASE UNCHANGED vars
  BY <1>1 DEF vars, OrderInv, HeapOK, Running, OnTime, Refs, Epoch, Expired
<1>2. CASE Next
  <2>1. ~misused
    BY <1>2 DEF Next
  <2>2. CASE CheckSkips
    <3>1. /\ heap.n > 0 /\ heap.cells[1].tmr = NULL /\ heap' = heap_peek(heap)
          /\ pc = "loop" /\ UNCHANGED <<now, pico_tick, pc, set, early, misused>>
      BY <2>2 DEF CheckSkips
    <3>2. \A e \in Dues : e # NULL
      BY DEF Dues, NULL
    <3>3. DOMAIN set = Dues /\ set = [e \in Dues |-> set[e]]
      BY DEF OrderInv
    <3>4. \A e \in Dues : set'[e] = IF e = heap.cells[1].tmr THEN set[e] - 1 ELSE set[e]
      BY <3>1, <3>2
    <3>5. DOMAIN set' = Dues /\ set' = [e \in Dues |-> set'[e]] /\ pc # "idle" /\ pc' = "loop"
          /\ UNCHANGED <<now, pico_tick, early, misused>>
      BY <3>1, <3>3
    <3> QED
      BY <2>1, <3>1, <3>4, <3>5, OrderPeek
  <2>3. CASE CheckFrees
    <3>1. /\ pc = "callback" /\ heap' = heap_peek(heap) /\ pc' = "loop"
          /\ set' = [set EXCEPT ![t] = @ - 1]
          /\ UNCHANGED <<now, pico_tick, early, misused>>
      BY <2>3 DEF CheckFrees, Free
    <3>2. heap.n > 0 /\ heap.cells[1].tmr = t /\ DOMAIN set = Dues /\ set = [e \in Dues |-> set[e]]
      BY <2>1, <3>1 DEF OrderInv, Running
    <3>3. \A e \in Dues : set'[e] = IF e = heap.cells[1].tmr THEN set[e] - 1 ELSE set[e]
      BY <3>1, <3>2
    <3>4. DOMAIN set' = Dues /\ set' = [e \in Dues |-> set'[e]] /\ pc # "idle"
      BY <3>1, <3>2
    <3> QED
      BY <2>1, <3>1, <3>2, <3>3, <3>4, OrderPeek
  <2> QED
    BY <1>2, <2>1, <2>2, <2>3, OrderAdd, OrderCancel, OrderStill DEF Next
<1> QED
  BY <1>1, <1>2

\* Whatever is added, cancelled and removed, heap_insert and heap_peek leave the
\* reference that expires first on top of every subtree.
THEOREM TimersOrdered == Spec => []HeapOrdered
<1>1. OrderInv => HeapOrdered
  BY DEF OrderInv, HeapOK, Ordered, HeapOrdered
<1> QED
  BY <1>1, OrderInit, OrderStep, PTL DEF Spec

\* Until a misuse the heap of pico_check_timers leads to every timer that is set, once,
\* and to none that was freed; the timer whose callback runs is still the first.
THEOREM TimersExact == Spec => []RefsExact
<1>1. OrderInv => RefsExact
  <2> SUFFICES ASSUME OrderInv, ~misused PROVE RefsExact
    BY DEF RefsExact
  <2>1. \A d : Refs(heap, d) = Cardinality({i \in 1 .. heap.n : heap.cells[i].tmr = d})
    BY DEF Refs, Count
  <2>2. Running
    BY DEF OrderInv
  <2> QED
    BY <2>1, <2>2 DEF Running, RefsExact
<1> QED
  BY <1>1, OrderInit, OrderStep, PTL DEF Spec

\* pico_check_timers calls no timer before its time, however often the clock wraps.
THEOREM TimersNotEarly == Spec => []NeverEarly
<1>1. OrderInv => NeverEarly
  BY DEF OrderInv, NeverEarly
<1> QED
  BY <1>1, OrderInit, OrderStep, PTL DEF Spec
=============================================================================
