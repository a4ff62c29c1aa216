----------------------------- MODULE TapProofs -----------------------------
(***************************************************************************)
(* What passes through a tap, for every value of the constants: the frames  *)
(* it buffers (FrameBuffer), the multicast groups of its addresses          *)
(* (TapAddrs), and the TCP data the stack carries (PicoTcp).                *)
(***************************************************************************)
EXTENDS PicoTcp, FrameBuffer, TapAddrs, FiniteSetTheorems, WellFoundedInduction, TLAPS

\* Loops.

\* A set of numbers has a least one.
LEMMA LeastNumber ==
    ASSUME NEW T, T \subseteq Nat, T # {}
    PROVE  \E x \in T : \A y \in T : x <= y
  <1> DEFINE R == {ss \in Nat \X Nat : ss[1] < ss[2]}
  <1>1. IsWellFoundedOn(R, Nat)
    BY NatLessThanWellFounded DEF OpToRel
  <1>2. PICK x \in T : \A y \in T : ~(<<y, x>> \in R)
    <2> HIDE DEF R
    <2> QED BY <1>1, WFMin
  <1>3. \A y \in T : ~(y < x)
    BY <1>2
  <1> QED BY <1>3

\* What holds at first and is kept by every turn holds at the end.
LEMMA LoopKeeps ==
    ASSUME NEW S, NEW n \in Nat, NEW g, g[0] \in S[0],
           \A k \in 1 .. n : g[k - 1] \in S[k - 1] => g[k] \in S[k]
    PROVE  \A k \in 0 .. n : g[k] \in S[k]
  <1> DEFINE T == {k \in 0 .. n : g[k] \notin S[k]}
  <1>1. T \subseteq Nat
    OBVIOUS
  <1> SUFFICES ASSUME T # {} PROVE FALSE
    OBVIOUS
  <1>2. PICK k \in T : \A j \in T : k <= j
    BY <1>1, LeastNumber
  <1>3. k \in 0 .. n /\ g[k] \notin S[k]
    BY <1>2
  <1>4. k # 0
    BY <1>3
  <1>5. k - 1 \in 0 .. n /\ k \in 1 .. n /\ ~(k <= k - 1)
    BY <1>3, <1>4
  <1>6. k - 1 \notin T
    BY <1>2, <1>5
  <1> QED BY <1>3, <1>5, <1>6

\* g is the states before and after n turns that begin with s; f[k] is the k-th.
Turns(g, f, s, n) == g = [k \in 0 .. n |-> IF k = 0 THEN s ELSE f[k][g[k - 1]]]

\* What turns that begin with s and stay in S give after the last one.
LEMMA LoopExists ==
    ASSUME NEW S, NEW f, NEW n \in Nat, NEW s0, s0 \in S[0],
           \A k \in 1 .. n : \A s \in S[k - 1] : f[k][s] \in S[k]
    PROVE  \E g : Turns(g, f, s0, n) /\ \A k \in 0 .. n : g[k] \in S[k]
  <1> DEFINE Runs(g, m) == g = [k \in 0 .. m |-> IF k = 0 THEN s0 ELSE f[k][g[k - 1]]]
             T == {m \in 0 .. n : \A g : ~Runs(g, m)}
  <1>1. T \subseteq Nat
    OBVIOUS
  <1>2. SUFFICES ASSUME T # {} PROVE FALSE
    <2>1. n \notin T
      BY <1>2
    <2>2. n \in 0 .. n
      OBVIOUS
    <2>3. PICK g : Runs(g, n)
      BY <2>1, <2>2
    <2>4. g[0] \in S[0]
      BY <2>2, <2>3
    <2>5. ASSUME NEW k \in 1 .. n, g[k - 1] \in S[k - 1] PROVE g[k] \in S[k]
      <3>1. g[k] = f[k][g[k - 1]]
        BY <2>3
      <3> QED BY <3>1, <2>5
    <2>6. \A k \in 0 .. n : g[k] \in S[k]
      BY <2>4, <2>5, LoopKeeps
    <2> QED BY <2>3, <2>6 DEF Turns
  <1>3. PICK m \in T : \A j \in T : m <= j
    BY <1>1, <1>2, LeastNumber
  <1>4. m \in 0 .. n /\ \A g : ~Runs(g, m)
    BY <1>3
  <1>5. CASE m = 0
    <2> DEFINE g == [k \in 0 .. 0 |-> s0]
    <2>1. g = [k \in 0 .. 0 |-> IF k = 0 THEN s0 ELSE f[k][g[k - 1]]]
      OBVIOUS
    <2> QED BY <2>1, <1>4, <1>5
  <1>6. CASE m # 0
    <2>1. m - 1 \in 0 .. n /\ ~(m <= m - 1)
      BY <1>4, <1>6
    <2>2. m - 1 \notin T
      BY <1>3, <2>1
    <2>3. PICK h : Runs(h, m - 1)
      BY <2>1, <2>2
    <2> DEFINE g == [k \in 0 .. m |-> IF k = m THEN f[m][h[m - 1]] ELSE h[k]]
    <2>4. ASSUME NEW k \in 0 .. m PROVE g[k] = IF k = 0 THEN s0 ELSE f[k][g[k - 1]]
      <3>1. CASE k = m
        <4>1. k - 1 \in 0 .. m /\ k - 1 # m /\ k - 1 = m - 1
          BY <1>4, <1>6, <3>1
        <4>2. g[k - 1] = h[m - 1] /\ g[k] = f[m][h[m - 1]]
          BY <4>1, <3>1
        <4> QED BY <4>2, <3>1, <1>6
      <3>2. CASE k # m
        <4>1. k \in 0 .. m - 1
          BY <3>2, <1>4
        <4>2. h[k] = IF k = 0 THEN s0 ELSE f[k][h[k - 1]]
          BY <4>1, <2>3
        <4>3. k # 0 => k - 1 \in 0 .. m /\ k - 1 # m
          BY <4>1, <1>4
        <4>4. k # 0 => g[k - 1] = h[k - 1]
          BY <4>3
        <4>5. g[k] = h[k]
          BY <3>2
        <4> HIDE DEF g
        <4> QED BY <4>2, <4>4, <4>5
      <3> QED BY <3>1, <3>2
    <2>5. g = [k \in 0 .. m |-> g[k]]
      OBVIOUS
    <2>6. Runs(g, m)
      <3> HIDE DEF g
      <3> QED BY <2>4, <2>5
    <2> QED BY <2>6, <1>4
  <1> QED BY <1>5, <1>6

\* g is the states before and after n turns that are all alike.
Repeats(g, f, s, n) == g = [k \in 0 .. n |-> IF k = 0 THEN s ELSE f[g[k - 1]]]

LEMMA RepeatKeeps ==
    ASSUME NEW S, NEW n \in Nat, NEW g, g[0] \in S,
           \A k \in 1 .. n : g[k - 1] \in S => g[k] \in S
    PROVE  \A k \in 0 .. n : g[k] \in S
  <1> DEFINE T == [k \in 0 .. n |-> S]
  <1>1. \A k \in 0 .. n : T[k] = S
    OBVIOUS
  <1> HIDE DEF T
  <1>2. \A k \in 1 .. n : k - 1 \in 0 .. n /\ k \in 0 .. n
    OBVIOUS
  <1>3. g[0] \in T[0] /\ \A k \in 1 .. n : g[k - 1] \in T[k - 1] => g[k] \in T[k]
    BY <1>1, <1>2
  <1>4. \A k \in 0 .. n : g[k] \in T[k]
    BY <1>3, LoopKeeps
  <1> QED BY <1>1, <1>4

LEMMA RepeatExists ==
    ASSUME NEW S, NEW f, \A s \in S : f[s] \in S, NEW s0 \in S, NEW n \in Nat
    PROVE  \E g : Repeats(g, f, s0, n) /\ \A k \in 0 .. n : g[k] \in S
  <1> DEFINE T == [k \in 0 .. n |-> S]
             h == [k \in 1 .. n |-> f]
  <1>1. \A k \in 0 .. n : T[k] = S
    OBVIOUS
  <1>2. \A k \in 1 .. n : h[k] = f
    OBVIOUS
  <1> HIDE DEF T, h
  <1>3. \A k \in 1 .. n : k - 1 \in 0 .. n /\ k \in 0 .. n
    OBVIOUS
  <1>4. s0 \in T[0] /\ \A k \in 1 .. n : \A s \in T[k - 1] : h[k][s] \in T[k]
    BY <1>1, <1>2, <1>3
  <1>5. PICK g : Turns(g, h, s0, n) /\ \A k \in 0 .. n : g[k] \in T[k]
    BY <1>4, LoopExists
  <1>6. Repeats(g, f, s0, n)
    <2>1. ASSUME NEW k \in 0 .. n PROVE g[k] = IF k = 0 THEN s0 ELSE f[g[k - 1]]
      <3>1. g[k] = IF k = 0 THEN s0 ELSE h[k][g[k - 1]]
        BY <1>5 DEF Turns
      <3>2. k # 0 => k \in 1 .. n
        OBVIOUS
      <3> QED BY <3>1, <3>2, <1>2
    <2>2. g = [k \in 0 .. n |-> g[k]]
      BY <1>5 DEF Turns
    <2> QED BY <2>1, <2>2 DEF Repeats
  <1> QED BY <1>1, <1>5, <1>6

-----------------------------------------------------------------------------
\* The frame buffer.

CellType == Nat \X Nat

\* The constants of FrameBuffer, one by one.
LEMMA FrameConstants ==
    /\ MaxSize \in Nat /\ MaxPut \in Nat /\ LoopScores \subseteq Nat
    /\ \A n \in FrameSizes : n \in Nat /\ 2 <= n /\ n <= MaxSize
  BY FrameAssumption

\* The cells of a frame.
LEMMA FrameCells ==
    ASSUME NEW id \in Nat, NEW n \in Nat
    PROVE  /\ Frame(id, n) \in Seq(CellType) /\ Len(Frame(id, n)) = n
           /\ \A k \in 1 .. n : Frame(id, n)[k] = IF k = 1 THEN <<0, n>> ELSE <<id, k>>
  <1> DEFINE c == [k \in 1 .. n |-> IF k = 1 THEN <<0, n>> ELSE <<id, k>>]
  <1>1. Frame(id, n) = c
    BY DEF Frame, SizeCell
  <1>2. \A k \in 1 .. n : c[k] \in CellType
    BY DEF CellType
  <1>3. \A k \in 1 .. n : c[k] = IF k = 1 THEN <<0, n>> ELSE <<id, k>>
    OBVIOUS
  <1>4. c \in [1 .. n -> CellType]
    <2>1. c = [k \in 1 .. n |-> c[k]]
      OBVIOUS
    <2> HIDE DEF c
    <2> QED BY <2>1, <1>2
  <1> HIDE DEF c
  <1>5. c \in Seq(CellType) /\ Len(c) = n
    BY <1>4
  <1> QED BY <1>1, <1>3, <1>5

\* Where the frames of q from number g + 1 on lie in the buffer b, one behind the other
\* from the first cell on to the last before t; p are the sizes of all frames.
Lies(b, t, g, q, p, ends) ==
    /\ ends \in [g .. Len(q) -> 0 .. MaxSize]
    /\ ends[g] = 0 /\ ends[Len(q)] = t
    /\ \A i, j \in g .. Len(q) : i <= j => ends[i] <= ends[j]
    /\ \A j \in g + 1 .. Len(q) : ends[j] = ends[j - 1] + p[q[j]]
    /\ \A j \in g + 1 .. Len(q) : \A k \in 1 .. p[q[j]] :
            b[ends[j - 1] + k - 1] = Frame(q[j], p[q[j]])[k]

Layout(b, t, g, q, p) == \E ends : Lies(b, t, g, q, p, ends)

\* The numbers of q are those of frames that were delivered, in order.
Numbers(q, p) ==
    /\ q \in Seq(Nat) /\ p \in Seq(FrameSizes)
    /\ \A j \in 1 .. Len(q) : q[j] \in 1 .. Len(p)
    /\ \A i, j \in 1 .. Len(q) : i < j => q[i] < q[j]

\* The stack was given the first frames of q.
Gave(v, q, p) ==
    /\ v \in Seq(Seq(CellType)) /\ Len(v) <= Len(q)
    /\ \A j \in 1 .. Len(v) : v[j] = [k \in 1 .. p[q[j]] - 1 |-> <<q[j], k + 1>>]

Polls == [buf : [Cells -> CellType], tot : 0 .. MaxSize, given : Seq(Seq(CellType))]

Polling(s, q, p) ==
    s \in Polls /\ Gave(s.given, q, p) /\ Layout(s.buf, s.tot, Len(s.given), q, p)

\* One turn of pico_eth_poll gives the stack the next frame.
LEMMA PollOneKeeps ==
    ASSUME NEW q, NEW p, Numbers(q, p), NEW s, Polling(s, q, p), s.tot > 0
    PROVE  Polling(PollOne(s), q, p)
  <1> DEFINE g == Len(s.given)
  <1>1. /\ s \in Polls /\ s.buf \in [Cells -> CellType] /\ s.tot \in 0 .. MaxSize
        /\ s.given \in Seq(Seq(CellType)) /\ g \in Nat
    BY DEF Polling, Polls
  <1>2. /\ g <= Len(q) /\ Len(q) \in Nat
        /\ \A j \in 1 .. g : s.given[j] = [k \in 1 .. p[q[j]] - 1 |-> <<q[j], k + 1>>]
    <2>1. Gave(s.given, q, p)
      BY DEF Polling
    <2>2. Len(q) \in Nat
      BY DEF Numbers
    <2> QED BY <2>1, <2>2, Zenon DEF Gave
  <1>3. PICK ends : Lies(s.buf, s.tot, g, q, p, ends)
    BY DEF Polling, Layout
  <1> HIDE DEF g
  <1>4. /\ ends \in [g .. Len(q) -> 0 .. MaxSize] /\ ends[g] = 0 /\ ends[Len(q)] = s.tot
        /\ \A i, j \in g .. Len(q) : i <= j => ends[i] <= ends[j]
        /\ \A j \in g + 1 .. Len(q) : ends[j] = ends[j - 1] + p[q[j]]
    BY <1>3 DEF Lies
  <1>5. \A j \in g + 1 .. Len(q) : \A k \in 1 .. p[q[j]] :
            s.buf[ends[j - 1] + k - 1] = Frame(q[j], p[q[j]])[k]
    BY <1>3 DEF Lies
  <1>6. g < Len(q)
    BY <1>1, <1>2, <1>4
  <1>7. PICK h \in g + 1 .. Len(q) : h = g + 1 /\ h \in 1 .. Len(q) /\ h - 1 = g
    BY <1>1, <1>2, <1>6
  <1> DEFINE id == q[h]
             n == p[id]
  <1>8. id \in Nat /\ n \in FrameSizes
    BY <1>7 DEF Numbers
  <1>9. n \in Nat /\ 2 <= n /\ n <= MaxSize
    BY <1>8, FrameConstants
  <1>10. \A j \in g + 1 .. Len(q) : q[j] \in Nat /\ p[q[j]] \in Nat
    <2> SUFFICES ASSUME NEW j \in g + 1 .. Len(q) PROVE q[j] \in Nat /\ p[q[j]] \in Nat
      OBVIOUS
    <2>1. j \in 1 .. Len(q)
      BY <1>1, <1>2
    <2>2. q[j] \in Nat /\ p[q[j]] \in FrameSizes
      BY <2>1 DEF Numbers
    <2> QED BY <2>2, FrameConstants
  <1>11. \A k \in 1 .. n : s.buf[k - 1] = IF k = 1 THEN <<0, n>> ELSE <<id, k>>
    <2>1. \A k \in 1 .. n : s.buf[ends[h - 1] + k - 1] = Frame(id, n)[k]
      BY <1>5
    <2>2. ends[h - 1] = 0
      BY <1>4, <1>7
    <2>3. \A k \in 1 .. n : Frame(id, n)[k] = IF k = 1 THEN <<0, n>> ELSE <<id, k>>
      BY <1>8, <1>9, FrameCells
    <2> HIDE DEF id, n
    <2>4. \A k \in 1 .. n : ends[h - 1] + k - 1 = k - 1
      BY <2>2, <1>9
    <2> QED BY <2>1, <2>3, <2>4
  <1>12. s.buf[0][2] = n
    <2> HIDE DEF n
    <2>1. 1 \in 1 .. n /\ 1 - 1 = 0
      BY <1>9
    <2>2. s.buf[0] = <<0, n>>
      BY <1>11, <2>1
    <2> QED BY <2>2
  <1>13. ends[h] = n
    <2>1. ends[h] = ends[h - 1] + n
      BY <1>4
    <2>2. ends[h - 1] = 0
      BY <1>4, <1>7
    <2> HIDE DEF n
    <2> QED BY <2>1, <2>2, <1>9
  <1> HIDE DEF id, n
  <1> DEFINE c == [k \in 1 .. n - 1 |-> s.buf[k]]
             w == Shift(s.buf, n)
             t == s.tot - n
             v == Append(s.given, c)
  <1>14. PollOne(s) = [buf |-> w, tot |-> t, given |-> v]
    BY <1>12 DEF PollOne
  <1>15. c = [k \in 1 .. n - 1 |-> <<id, k + 1>>]
    <2>1. ASSUME NEW k \in 1 .. n - 1 PROVE s.buf[k] = <<id, k + 1>>
      <3>1. PICK m \in 1 .. n : m = k + 1 /\ m # 1 /\ m - 1 = k
        BY <1>9
      <3>2. s.buf[m - 1] = <<id, m>>
        BY <3>1, <1>11
      <3> QED BY <3>1, <3>2
    <2> QED BY <2>1
  <1>16. c \in Seq(CellType)
    <2>1. \A k \in 1 .. n - 1 : <<id, k + 1>> \in CellType
      BY <1>8, <1>9 DEF CellType
    <2>2. [k \in 1 .. n - 1 |-> <<id, k + 1>>] \in [1 .. n - 1 -> CellType]
      BY <2>1
    <2> DEFINE m == n - 1
    <2>3. m \in Nat
      BY <1>9
    <2> HIDE DEF c
    <2>4. c \in [1 .. m -> CellType]
      BY <2>2, <1>15
    <2> HIDE DEF m
    <2> QED BY <2>3, <2>4
  <1> HIDE DEF c
  <1>17. v \in Seq(Seq(CellType)) /\ Len(v) = g + 1
    BY <1>1, <1>16 DEF g
  <1>18. Gave(v, q, p)
    <2> SUFFICES ASSUME NEW j \in 1 .. g + 1
                 PROVE  v[j] = [k \in 1 .. p[q[j]] - 1 |-> <<q[j], k + 1>>]
      BY <1>2, <1>6, <1>7, <1>17 DEF Gave
    <2>1. CASE j = g + 1
      <3>1. v[j] = c
        BY <2>1, <1>1, <1>16 DEF g
      <3> QED BY <3>1, <2>1, <1>7, <1>15 DEF n, id
    <2>2. CASE j # g + 1
      <3>1. j \in 1 .. g
        BY <2>2, <1>1
      <3>2. v[j] = s.given[j]
        BY <3>1, <1>1, <1>16 DEF g
      <3> QED BY <3>1, <3>2, <1>2
    <2> QED BY <2>1, <2>2
  <1>19. w \in [Cells -> CellType] /\ \A k \in Cells : k + n < MaxSize => w[k] = s.buf[k + n]
    <2>1. \A k \in Cells : (IF k + n < MaxSize THEN s.buf[k + n] ELSE s.buf[k]) \in CellType
      <3> SUFFICES ASSUME NEW k \in Cells
                   PROVE  (IF k + n < MaxSize THEN s.buf[k + n] ELSE s.buf[k]) \in CellType
        OBVIOUS
      <3>1. k + n < MaxSize => k + n \in Cells
        BY <1>9, FrameConstants DEF Cells
      <3> QED BY <3>1, <1>1
    <2>2. w = [k \in Cells |-> IF k + n < MaxSize THEN s.buf[k + n] ELSE s.buf[k]]
      BY DEF Shift
    <2> QED BY <2>1, <2>2
  <1> DEFINE e == [j \in g + 1 .. Len(q) |-> ends[j] - n]
  <1>20. \A j \in g + 1 .. Len(q) : /\ e[j] = ends[j] - n /\ e[j] \in 0 .. MaxSize
                                    /\ ends[j] \in 0 .. MaxSize /\ n <= ends[j]
    <2> SUFFICES ASSUME NEW j \in g + 1 .. Len(q)
                 PROVE  /\ e[j] = ends[j] - n /\ e[j] \in 0 .. MaxSize
                        /\ ends[j] \in 0 .. MaxSize /\ n <= ends[j]
      OBVIOUS
    <2>1. j \in g .. Len(q) /\ g + 1 \in g .. Len(q) /\ g + 1 <= j
      BY <1>1, <1>2, <1>6
    <2>2. ends[h] <= ends[j] /\ ends[j] \in 0 .. MaxSize
      BY <2>1, <1>4, <1>7
    <2>3. e[j] = ends[j] - n
      OBVIOUS
    <2> HIDE DEF e
    <2> QED BY <2>2, <2>3, <1>9, <1>13, FrameConstants
  <1>21. e \in [g + 1 .. Len(q) -> 0 .. MaxSize]
    <2>1. e = [j \in g + 1 .. Len(q) |-> e[j]]
      OBVIOUS
    <2> HIDE DEF e
    <2> QED BY <2>1, <1>20
  <1> HIDE DEF e, w
  <1>22. Len(q) \in g + 1 .. Len(q) /\ e[g + 1] = 0 /\ e[Len(q)] = t /\ t \in 0 .. MaxSize
    <2>1. Len(q) \in g + 1 .. Len(q)
      BY <1>1, <1>2, <1>6
    <2>2. e[g + 1] = n - n
      <3>1. e[h] = n - n
        BY <1>13, <1>20
      <3> QED BY <3>1, <1>7
    <2>3. e[Len(q)] = t
      BY <2>1, <1>4, <1>20
    <2> QED BY <2>1, <2>2, <2>3, <1>9, <1>20
  <1>23. \A i, j \in g + 1 .. Len(q) : i <= j => e[i] <= e[j]
    <2> SUFFICES ASSUME NEW i \in g + 1 .. Len(q), NEW j \in g + 1 .. Len(q), i <= j
                 PROVE  e[i] <= e[j]
      OBVIOUS
    <2>1. i \in g .. Len(q) /\ j \in g .. Len(q)
      BY <1>1, <1>2
    <2>2. ends[i] <= ends[j]
      BY <2>1, <1>4
    <2> QED BY <2>2, <1>9, <1>20
  <1>24. ASSUME NEW j \in (g + 1) + 1 .. Len(q)
         PROVE  /\ e[j] = e[j - 1] + p[q[j]]
                /\ \A k \in 1 .. p[q[j]] : w[e[j - 1] + k - 1] = Frame(q[j], p[q[j]])[k]
    <2>1. j \in g + 1 .. Len(q) /\ j - 1 \in g + 1 .. Len(q)
      BY <1>1, <1>2
    <2>2. ends[j] = ends[j - 1] + p[q[j]] /\ p[q[j]] \in Nat
      BY <2>1, <1>4, <1>10
    <2>3. e[j] = ends[j] - n /\ e[j - 1] = ends[j - 1] - n
      BY <2>1, <1>20
    <2>4. ends[j] \in Nat /\ ends[j - 1] \in Nat /\ ends[j] <= MaxSize /\ n <= ends[j - 1]
      BY <2>1, <1>20, FrameConstants
    <2>5. e[j] = e[j - 1] + p[q[j]]
      BY <2>2, <2>3, <2>4, <1>9
    <2>6. ASSUME NEW k \in 1 .. p[q[j]]
          PROVE  w[e[j - 1] + k - 1] = Frame(q[j], p[q[j]])[k]
      <3> DEFINE m == e[j - 1] + k - 1
      <3>1. m \in Cells /\ m + n < MaxSize /\ m + n = ends[j - 1] + k - 1
        <4> DEFINE a == ends[j - 1]
                   x == p[q[j]]
        <4>1. a \in Nat /\ x \in Nat /\ a + x <= MaxSize /\ n <= a /\ m = a - n + k - 1
          BY <2>2, <2>3, <2>4
        <4>2. k \in 1 .. x
          OBVIOUS
        <4> HIDE DEF a, x, m
        <4>3. m \in Int /\ 0 <= m /\ m + n < MaxSize /\ m + n = a + k - 1
          BY <4>1, <4>2, <1>9, FrameConstants
        <4>4. m \in Cells
          BY <4>3, <1>9, FrameConstants DEF Cells
        <4> QED BY <4>3, <4>4 DEF a
      <3>2. s.buf[ends[j - 1] + k - 1] = Frame(q[j], p[q[j]])[k]
        BY <2>1, <1>5
      <3> HIDE DEF m
      <3>3. w[m] = Frame(q[j], p[q[j]])[k]
        BY <3>1, <3>2, <1>19
      <3> QED BY <3>3 DEF m
    <2> QED BY <2>5, <2>6
  <1> HIDE DEF t, v
  <1>25. Lies(w, t, g + 1, q, p, e)
    BY <1>21, <1>22, <1>23, <1>24 DEF Lies
  <1>26. Layout(w, t, Len(v), q, p)
    BY <1>17, <1>25 DEF Layout
  <1>27. PollOne(s) \in Polls
    BY <1>14, <1>17, <1>19, <1>22 DEF Polls
  <1> QED BY <1>14, <1>18, <1>26, <1>27 DEF Polling

\* The loop of pico_eth_poll.
LEMMA PollLoopKeeps ==
    ASSUME NEW q, NEW p, Numbers(q, p), NEW s, Polling(s, q, p), NEW score \in Nat
    PROVE  Polling(PollLoop(s, score), q, p)
  <1> DEFINE S == {x \in Polls : Polling(x, q, p)}
             T(x) == IF x.tot > 0 THEN PollOne(x) ELSE x
             f == [x \in S |-> T(x)]
             Rec(g) == g = [i \in 0 .. score |->
                              IF i = 0 THEN s
                              ELSE IF g[i - 1].tot > 0 THEN PollOne(g[i - 1]) ELSE g[i - 1]]
             after == CHOOSE g : Rec(g)
  <1>1. PollLoop(s, score) = after[score]
    BY DEF PollLoop
  <1>2. \A x \in S : T(x) \in S
    <2>1. ASSUME NEW x \in S PROVE T(x) \in S
      <3>1. CASE x.tot > 0
        <4>1. Polling(PollOne(x), q, p)
          BY <3>1, PollOneKeeps
        <4> QED BY <3>1, <4>1 DEF Polling
      <3>2. CASE ~(x.tot > 0)
        BY <3>2
      <3> QED BY <3>1, <3>2
    <2> QED BY <2>1
  <1>3. s \in S
    BY DEF Polling
  <1>4. \A x \in S : f[x] = T(x)
    OBVIOUS
  <1>5. \A x \in S : f[x] \in S
    BY <1>2, <1>4
  <1>6. \A g : Rec(g) <=> g = [i \in 0 .. score |-> IF i = 0 THEN s ELSE T(g[i - 1])]
    OBVIOUS
  <1> HIDE DEF S, f, T, Rec
  <1>7. PICK g : Repeats(g, f, s, score) /\ \A k \in 0 .. score : g[k] \in S
    BY <1>3, <1>5, RepeatExists
  <1>8. Rec(g)
    <2>1. ASSUME NEW k \in 0 .. score PROVE g[k] = IF k = 0 THEN s ELSE T(g[k - 1])
      <3>1. k # 0 => k - 1 \in 0 .. score
        OBVIOUS
      <3>2. g[k] = IF k = 0 THEN s ELSE f[g[k - 1]]
        BY <1>7 DEF Repeats
      <3> QED BY <3>1, <3>2, <1>7, <1>4
    <2>2. g = [k \in 0 .. score |-> g[k]]
      BY <1>7 DEF Repeats
    <2> QED BY <2>1, <2>2, <1>6
  <1>9. after = [i \in 0 .. score |-> IF i = 0 THEN s ELSE T(after[i - 1])]
    BY <1>6, <1>8
  <1> HIDE DEF after
  <1>10. \A k \in 0 .. score : after[k] \in S
    <2>1. after[0] \in S
      BY <1>3, <1>9
    <2>2. ASSUME NEW k \in 1 .. score, after[k - 1] \in S PROVE after[k] \in S
      <3>1. after[k] = T(after[k - 1])
        BY <1>9
      <3> QED BY <3>1, <2>2, <1>2
    <2> QED BY <2>1, <2>2, RepeatKeeps
  <1>11. after[score] \in S
    BY <1>10
  <1> QED BY <1>1, <1>11 DEF S

\* A frame that is delivered gets the next number.
Delivered(q, p, n, id, r, o) == id = Len(p) + 1 /\ r = Append(q, id) /\ o = Append(p, n)

LEMMA NumbersAppend ==
    ASSUME NEW q, NEW p, Numbers(q, p), NEW n \in FrameSizes,
           NEW id, NEW r, NEW o, Delivered(q, p, n, id, r, o)
    PROVE  /\ Numbers(r, o) /\ Len(r) = Len(q) + 1 /\ r[Len(q) + 1] = id /\ o[id] = n
           /\ \A j \in 1 .. Len(q) : r[j] = q[j] /\ o[q[j]] = p[q[j]]
  <1> USE DEF Delivered
  <1>1. q \in Seq(Nat) /\ p \in Seq(FrameSizes) /\ Len(q) \in Nat /\ Len(p) \in Nat
    BY DEF Numbers
  <1>2. \A j \in 1 .. Len(q) : q[j] \in 1 .. Len(p)
    BY DEF Numbers
  <1>3. \A i, j \in 1 .. Len(q) : i < j => q[i] < q[j]
    BY DEF Numbers
  <1>4. id \in Nat
    BY <1>1
  <1>5. /\ o \in Seq(FrameSizes) /\ Len(o) = Len(p) + 1 /\ o[Len(p) + 1] = n
        /\ \A i \in 1 .. Len(p) : o[i] = p[i]
    BY <1>1
  <1>6. /\ r \in Seq(Nat) /\ Len(r) = Len(q) + 1 /\ r[Len(q) + 1] = id
        /\ \A i \in 1 .. Len(q) : r[i] = q[i]
    BY <1>1, <1>4
  <1>7. \A j \in 1 .. Len(r) : r[j] \in 1 .. Len(o)
    <2> SUFFICES ASSUME NEW j \in 1 .. Len(r) PROVE r[j] \in 1 .. Len(o)
      OBVIOUS
    <2>1. CASE j = Len(q) + 1
      BY <2>1, <1>1, <1>5, <1>6
    <2>2. CASE j # Len(q) + 1
      <3>1. j \in 1 .. Len(q)
        BY <2>2, <1>1, <1>6
      <3>2. r[j] \in 1 .. Len(p)
        BY <3>1, <1>2, <1>6
      <3> QED BY <3>2, <1>1, <1>5
    <2> QED BY <2>1, <2>2
  <1>8. \A i, j \in 1 .. Len(r) : i < j => r[i] < r[j]
    <2> SUFFICES ASSUME NEW i \in 1 .. Len(r), NEW j \in 1 .. Len(r), i < j PROVE r[i] < r[j]
      OBVIOUS
    <2>1. i \in 1 .. Len(q)
      BY <1>1, <1>6
    <2>2. CASE j = Len(q) + 1
      <3>1. r[i] \in 1 .. Len(p) /\ r[j] = Len(p) + 1
        BY <2>1, <2>2, <1>2, <1>6
      <3> QED BY <3>1, <1>1
    <2>3. CASE j # Len(q) + 1
      <3>0. j \in 1 .. Len(q) + 1 /\ Len(q) \in Nat
        BY <1>1, <1>6
      <3>1. j \in 1 .. Len(q)
        BY <3>0, <2>3, SMTT(20)
      <3> QED BY <2>1, <3>1, <1>3, <1>6
    <2> QED BY <2>2, <2>3
  <1>9. Numbers(r, o)
    BY <1>5, <1>6, <1>7, <1>8 DEF Numbers
  <1>10. \A j \in 1 .. Len(q) : r[j] = q[j] /\ o[q[j]] = p[q[j]]
    BY <1>2, <1>5, <1>6
  <1> QED BY <1>5, <1>6, <1>9, <1>10

\* The cells of the buffer after a frame is stored.
Stored(b, t, id, n, d) == d = Store(b, t, Frame(id, n))

LEMMA StoreCells ==
    ASSUME NEW b \in [Cells -> CellType], NEW t \in Nat, NEW id \in Nat, NEW n \in Nat,
           NEW d, Stored(b, t, id, n, d)
    PROVE  /\ d \in [Cells -> CellType]
           /\ \A k \in Cells : k < t => d[k] = b[k]
           /\ \A k \in 1 .. n : t + k - 1 \in Cells => d[t + k - 1] = Frame(id, n)[k]
  <1> DEFINE F == Frame(id, n)
             C(k) == IF k >= t /\ k < t + Len(F) THEN F[k - t + 1] ELSE b[k]
  <1>1. F \in Seq(CellType) /\ Len(F) = n
    BY FrameCells
  <1>2. d = [k \in Cells |-> C(k)]
    BY DEF Store, Stored
  <1> HIDE DEF F
  <1>3. \A k \in Cells : C(k) \in CellType
    <2> SUFFICES ASSUME NEW k \in Cells PROVE C(k) \in CellType
      OBVIOUS
    <2>1. k \in Nat
      BY FrameConstants DEF Cells
    <2>2. CASE k >= t /\ k < t + Len(F)
      <3>1. k - t + 1 \in 1 .. Len(F)
        BY <2>1, <2>2, <1>1
      <3>2. F[k - t + 1] \in CellType
        BY <3>1, <1>1
      <3> QED BY <2>2, <3>2
    <2>3. CASE ~(k >= t /\ k < t + Len(F))
      BY <2>3
    <2> QED BY <2>2, <2>3
  <1>4. d \in [Cells -> CellType] /\ \A k \in Cells : d[k] = C(k)
    <2> HIDE DEF C
    <2> QED BY <1>2, <1>3
  <1>5. ASSUME NEW k \in Cells, k < t PROVE d[k] = b[k]
    <2>1. ~(k >= t)
      BY <1>5, FrameConstants DEF Cells
    <2> QED BY <2>1, <1>4
  <1>6. ASSUME NEW k \in 1 .. n, t + k - 1 \in Cells PROVE d[t + k - 1] = F[k]
    <2> DEFINE m == t + k - 1
    <2>1. m >= t /\ m < t + Len(F) /\ m - t + 1 = k /\ m \in Cells
      BY <1>1, <1>6
    <2> HIDE DEF m
    <2>2. d[m] = F[m - t + 1]
      BY <2>1, <1>4
    <2>3. d[m] = F[k]
      BY <2>1, <2>2
    <2> QED BY <2>3 DEF m
  <1>7. /\ d \in [Cells -> CellType] /\ (\A k \in Cells : k < t => d[k] = b[k])
        /\ \A k \in 1 .. n : t + k - 1 \in Cells => d[t + k - 1] = F[k]
    BY <1>4, <1>5, <1>6
  <1> QED BY <1>7 DEF F

\* A frame that fits is stored behind the others.
LEMMA StoreLayout ==
    ASSUME NEW q, NEW p, Numbers(q, p), NEW n \in FrameSizes, NEW b \in [Cells -> CellType],
           NEW t \in Nat, t + n <= MaxSize, NEW g \in Nat, g <= Len(q), Layout(b, t, g, q, p)
    PROVE  Layout(Store(b, t, Frame(Len(p) + 1, n)), t + n, g, Append(q, Len(p) + 1), Append(p, n))
  <1> DEFINE id == Len(p) + 1
             r == Append(q, id)
             o == Append(p, n)
             d == Store(b, t, Frame(id, n))
             K == Len(q)
  <1>1. PICK ends : Lies(b, t, g, q, p, ends)
    BY DEF Layout
  <1>2. K \in Nat /\ id \in Nat /\ n \in Nat /\ 2 <= n /\ g <= K
    BY FrameConstants DEF Numbers
  <1>3. /\ ends \in [g .. K -> 0 .. MaxSize] /\ ends[g] = 0 /\ ends[K] = t
        /\ \A i, j \in g .. K : i <= j => ends[i] <= ends[j]
        /\ \A j \in g + 1 .. K : ends[j] = ends[j - 1] + p[q[j]]
    BY <1>1 DEF Lies
  <1>4. \A j \in g + 1 .. K : \A k \in 1 .. p[q[j]] :
            b[ends[j - 1] + k - 1] = Frame(q[j], p[q[j]])[k]
    BY <1>1 DEF Lies
  <1>a. Delivered(q, p, n, id, r, o) /\ Stored(b, t, id, n, d)
    BY DEF Delivered, Stored
  <1> HIDE DEF r, o, d, id
  <1>5. /\ Len(r) = K + 1 /\ r[K + 1] = id /\ o[id] = n
        /\ \A j \in 1 .. K : r[j] = q[j] /\ o[q[j]] = p[q[j]]
    BY <1>a, NumbersAppend
  <1>6. /\ d \in [Cells -> CellType] /\ (\A k \in Cells : k < t => d[k] = b[k])
        /\ \A k \in 1 .. n : t + k - 1 \in Cells => d[t + k - 1] = Frame(id, n)[k]
    BY <1>2, <1>a, StoreCells
  <1>7. \A j \in g + 1 .. K : p[q[j]] \in Nat /\ j \in 1 .. K
    <2> SUFFICES ASSUME NEW j \in g + 1 .. K PROVE p[q[j]] \in Nat /\ j \in 1 .. K
      OBVIOUS
    <2>1. j \in 1 .. K
      BY <1>2
    <2>2. p[q[j]] \in FrameSizes
      BY <2>1 DEF Numbers
    <2> QED BY <2>1, <2>2, FrameConstants
  <1> HIDE DEF K
  <1> DEFINE e == [j \in g .. K + 1 |-> IF j = K + 1 THEN t + n ELSE ends[j]]
  <1>8. e[K + 1] = t + n /\ \A j \in g .. K : e[j] = ends[j] /\ ends[j] \in 0 .. MaxSize
    <2>1. K + 1 \in g .. K + 1
      BY <1>2
    <2>2. \A j \in g .. K : j \in g .. K + 1 /\ j # K + 1
      BY <1>2
    <2> QED BY <2>1, <2>2, <1>3
  <1>9. e = [j \in g .. K + 1 |-> e[j]]
    OBVIOUS
  <1> HIDE DEF e
  <1>10. \A j \in g .. K + 1 : j = K + 1 \/ j \in g .. K
    BY <1>2
  <1>11. e \in [g .. K + 1 -> 0 .. MaxSize]
    <2>1. t + n \in 0 .. MaxSize
      BY <1>2, FrameConstants
    <2>2. \A j \in g .. K + 1 : e[j] \in 0 .. MaxSize
      BY <2>1, <1>8, <1>10
    <2> QED BY <2>2, <1>9
  <1>12. e[g] = 0
    <2>1. g \in g .. K
      BY <1>2
    <2> QED BY <2>1, <1>3, <1>8
  <1>13. \A i, j \in g .. K + 1 : i <= j => e[i] <= e[j]
    <2> SUFFICES ASSUME NEW i \in g .. K + 1, NEW j \in g .. K + 1, i <= j PROVE e[i] <= e[j]
      OBVIOUS
    <2>1. CASE i = K + 1
      <3>1. j = K + 1
        BY <2>1, <1>2
      <3>2. t + n \in Int
        BY <1>2
      <3> QED BY <2>1, <3>1, <3>2, <1>8
    <2>2. CASE i \in g .. K /\ j = K + 1
      <3>1. K \in g .. K /\ i <= K
        BY <2>2, <1>2
      <3>2. ends[i] <= t /\ ends[i] \in 0 .. MaxSize
        BY <2>2, <3>1, <1>3
      <3>3. ends[i] <= t + n
        BY <3>2, <1>2, FrameConstants
      <3> QED BY <2>2, <3>3, <1>8
    <2>3. CASE i \in g .. K /\ j \in g .. K
      BY <2>3, <1>3, <1>8
    <2> QED BY <2>1, <2>2, <2>3, <1>10
  <1>14. ASSUME NEW j \in g + 1 .. K + 1
         PROVE  /\ e[j] = e[j - 1] + o[r[j]]
                /\ \A k \in 1 .. o[r[j]] : d[e[j - 1] + k - 1] = Frame(r[j], o[r[j]])[k]
    <2>1. CASE j = K + 1
      <3>1. j - 1 = K /\ K \in g .. K
        BY <2>1, <1>2
      <3>2. e[j - 1] = t /\ e[j] = t + n /\ r[j] = id /\ o[r[j]] = n
        BY <2>1, <3>1, <1>3, <1>5, <1>8
      <3>3. ASSUME NEW k \in 1 .. n PROVE d[t + k - 1] = Frame(id, n)[k]
        <4>1. t + k - 1 \in Cells
          BY <1>2, FrameConstants DEF Cells
        <4> QED BY <4>1, <1>6
      <3> QED BY <3>2, <3>3
    <2>2. CASE j # K + 1
      <3>1. j \in g + 1 .. K /\ j \in g .. K /\ j - 1 \in g .. K /\ j <= K /\ K \in g .. K
        BY <2>2, <1>2
      <3>2. r[j] = q[j] /\ o[r[j]] = p[q[j]] /\ p[q[j]] \in Nat
        BY <3>1, <1>5, <1>7
      <3>3. e[j] = ends[j] /\ e[j - 1] = ends[j - 1] /\ ends[j - 1] \in 0 .. MaxSize
        BY <3>1, <1>8
      <3>4. ends[j] = ends[j - 1] + p[q[j]]
        BY <3>1, <1>3
      <3>5. ends[j] <= t
        BY <3>1, <1>3
      <3>6. ASSUME NEW k \in 1 .. p[q[j]]
            PROVE  d[ends[j - 1] + k - 1] = Frame(q[j], p[q[j]])[k]
        <4> DEFINE a == ends[j - 1]
                   x == p[q[j]]
                   m == a + k - 1
        <4>1. a \in Nat /\ x \in Nat /\ a + x <= t /\ k \in 1 .. x
          BY <3>2, <3>3, <3>4, <3>5, FrameConstants
        <4>2. b[m] = Frame(q[j], p[q[j]])[k]
          BY <3>1, <1>4
        <4> HIDE DEF a, x
        <4>5. m \in Int /\ 0 <= m /\ m < t
          BY <4>1
        <4>6. t <= MaxSize /\ MaxSize \in Nat
          BY <1>2, FrameConstants
        <4>3. m \in Cells /\ m < t
          <5> HIDE DEF m
          <5> QED BY <4>5, <4>6 DEF Cells
        <4> HIDE DEF m
        <4>4. d[m] = Frame(q[j], p[q[j]])[k]
          BY <4>2, <4>3, <1>6
        <4> QED BY <4>4 DEF m, a
      <3> QED BY <3>2, <3>3, <3>4, <3>6
    <2> QED BY <2>1, <2>2
  <1>15. Lies(d, t + n, g, r, o, e)
    BY <1>5, <1>8, <1>11, <1>12, <1>13, <1>14 DEF Lies
  <1>16. Layout(d, t + n, g, r, o)
    BY <1>15 DEF Layout
  <1> QED BY <1>16 DEF d, r, o, id

\* The frames lie one behind the other, as long as the buffer has not overrun.
FrameInv ==
    /\ Numbers(kept, put) /\ Gave(given, kept, put)
    /\ buf \in [Cells -> CellType] /\ tot \in Nat
    /\ ~overran => tot <= MaxSize /\ Layout(buf, tot, Len(given), kept, put)

\* The stack keeps what it was given when a frame is delivered.
LEMMA GaveAppend ==
    ASSUME NEW q, NEW p, Numbers(q, p), NEW n \in FrameSizes, NEW v, Gave(v, q, p)
    PROVE  Gave(v, Append(q, Len(p) + 1), Append(p, n))
  <1> DEFINE id == Len(p) + 1
             r == Append(q, id)
             o == Append(p, n)
  <1>a. Delivered(q, p, n, id, r, o)
    BY DEF Delivered
  <1> HIDE DEF id, r, o
  <1>1. Len(r) = Len(q) + 1 /\ \A j \in 1 .. Len(q) : r[j] = q[j] /\ o[q[j]] = p[q[j]]
    BY <1>a, NumbersAppend
  <1>2. v \in Seq(Seq(CellType)) /\ Len(v) <= Len(q) /\ Len(v) \in Nat /\ Len(q) \in Nat
    BY DEF Gave, Numbers
  <1>3. \A j \in 1 .. Len(v) : r[j] = q[j] /\ o[r[j]] = p[q[j]]
    BY <1>1, <1>2
  <1>4. \A j \in 1 .. Len(v) : v[j] = [k \in 1 .. p[q[j]] - 1 |-> <<q[j], k + 1>>]
    BY DEF Gave
  <1>5. \A j \in 1 .. Len(v) : v[j] = [k \in 1 .. o[r[j]] - 1 |-> <<r[j], k + 1>>]
    BY <1>3, <1>4
  <1>6. Gave(v, r, o)
    BY <1>1, <1>2, <1>5 DEF Gave
  <1> QED BY <1>6 DEF r, o, id

LEMMA RxInv ==
    ASSUME FrameInv, NEW n \in FrameSizes, NEW ipv6, pico_rx(n, ipv6)
    PROVE  FrameInv'
  <1> DEFINE fl == Flushes(n, ipv6)
             b == IF fl THEN [k \in Cells |-> Clear] ELSE buf
             t == IF fl THEN 0 ELSE tot
             q == Stay(n, ipv6)
             id == Len(put) + 1
             G == Len(given)
  <1>1. put' = Append(put, n) /\ given' = given /\ ~overran
    BY DEF pico_rx
  <1>2. Numbers(kept, put) /\ Gave(given, kept, put) /\ buf \in [Cells -> CellType] /\ tot \in Nat
    BY DEF FrameInv
  <1>3. Len(put') = id
    BY <1>1, <1>2 DEF Numbers
  <1>4. /\ kept' = Append(q, id) /\ buf' = Store(b, t, Frame(id, n)) /\ tot' = t + n
        /\ overran' = (t + n > MaxSize)
    BY <1>3 DEF pico_rx
  <1>5. tot <= MaxSize /\ Layout(buf, tot, G, kept, put)
    BY <1>1 DEF FrameInv
  <1>6. kept \in Seq(Nat) /\ G \in Nat /\ G <= Len(kept) /\ Len(kept) \in Nat
    BY <1>2 DEF Numbers, Gave
  <1>7. /\ b \in [Cells -> CellType] /\ t \in Nat /\ Numbers(q, put) /\ Gave(given, q, put)
        /\ G <= Len(q) /\ Layout(b, t, G, q, put)
    <2>1. CASE fl
      <3> DEFINE z == [k \in Cells |-> Clear]
      <3>1. b = z /\ t = 0 /\ q = SubSeq(kept, 1, G)
        BY <2>1 DEF Stay
      <3>2. z \in [Cells -> CellType]
        BY DEF CellType, Clear
      <3> HIDE DEF z, b, t, q
      <3>3. q \in Seq(Nat) /\ Len(q) = G /\ \A j \in 1 .. G : q[j] = kept[j] /\ j \in 1 .. Len(kept)
        BY <3>1, <1>6
      <3>4. Numbers(q, put)
        BY <3>3, <1>2 DEF Numbers
      <3>5. Gave(given, q, put)
        <4>1. \A j \in 1 .. G : given[j] = [k \in 1 .. put[kept[j]] - 1 |-> <<kept[j], k + 1>>]
          BY <1>2 DEF Gave
        <4>2. \A j \in 1 .. G : given[j] = [k \in 1 .. put[q[j]] - 1 |-> <<q[j], k + 1>>]
          BY <4>1, <3>3
        <4> QED BY <4>2, <3>3, <1>2, <1>6 DEF Gave
      <3>6. Layout(b, t, G, q, put)
        <4> DEFINE e == [j \in G .. G |-> 0]
        <4>1. e \in [G .. G -> 0 .. MaxSize] /\ e[G] = 0 /\ \A i, j \in G .. G : e[i] <= e[j]
          BY <1>6, FrameConstants
        <4>2. G + 1 .. G = {}
          BY <1>6
        <4> HIDE DEF e
        <4>3. Lies(b, t, G, q, put, e)
          BY <4>1, <4>2, <3>1, <3>3 DEF Lies
        <4> QED BY <4>3 DEF Layout
      <3> QED BY <3>1, <3>2, <3>3, <3>4, <3>5, <3>6, <1>6
    <2>2. CASE ~fl
      <3>1. b = buf /\ t = tot /\ q = kept
        BY <2>2 DEF Stay
      <3> HIDE DEF b, t, q
      <3> QED BY <3>1, <1>2, <1>5, <1>6
    <2> QED BY <2>1, <2>2
  <1>8. n \in Nat /\ id \in Nat
    BY <1>2, FrameConstants DEF Numbers
  <1> HIDE DEF b, t, q
  <1>9. Numbers(Append(q, id), Append(put, n)) /\ Gave(given, Append(q, id), Append(put, n))
    <2>1. Delivered(q, put, n, id, Append(q, id), Append(put, n))
      BY DEF Delivered
    <2>2. Numbers(Append(q, id), Append(put, n))
      BY <2>1, <1>7, NumbersAppend
    <2> QED BY <2>2, <1>7, GaveAppend
  <1>10. Store(b, t, Frame(id, n)) \in [Cells -> CellType]
    <2>1. Stored(b, t, id, n, Store(b, t, Frame(id, n)))
      BY DEF Stored
    <2> QED BY <2>1, <1>7, <1>8, StoreCells
  <1>11. ASSUME t + n <= MaxSize
         PROVE  Layout(Store(b, t, Frame(id, n)), t + n, G, Append(q, id), Append(put, n))
    BY <1>6, <1>7, <1>11, StoreLayout
  <1>12. ~overran' => tot' <= MaxSize /\ Layout(buf', tot', Len(given'), kept', put')
    <2> SUFFICES ASSUME ~overran' PROVE tot' <= MaxSize /\ Layout(buf', tot', Len(given'), kept', put')
      OBVIOUS
    <2>0. ~(t + n > MaxSize)
      BY <1>4, Zenon
    <2>1. t + n <= MaxSize
      BY <2>0, <1>7, <1>8, FrameConstants
    <2> QED BY <2>1, <1>1, <1>4, <1>11
  <1>13. tot' \in Nat
    BY <1>4, <1>7, <1>8
  <1> QED BY <1>1, <1>4, <1>9, <1>10, <1>12, <1>13 DEF FrameInv

LEMMA PollInv ==
    ASSUME FrameInv, NEW score \in LoopScores, pico_eth_poll(score)
    PROVE  FrameInv'
  <1> DEFINE s0 == [buf |-> buf, tot |-> tot, given |-> given]
             s == PollLoop(s0, score)
  <1>1. /\ ~overran /\ buf' = s.buf /\ tot' = s.tot /\ given' = s.given
        /\ put' = put /\ kept' = kept /\ overran' = overran
    BY DEF pico_eth_poll
  <1>2. Numbers(kept, put) /\ Gave(given, kept, put) /\ buf \in [Cells -> CellType]
        /\ tot \in Nat /\ tot <= MaxSize /\ Layout(buf, tot, Len(given), kept, put)
    BY <1>1 DEF FrameInv
  <1>3. s0 \in Polls
    <2>1. tot \in 0 .. MaxSize /\ given \in Seq(Seq(CellType))
      BY <1>2, FrameConstants DEF Gave
    <2> QED BY <2>1, <1>2 DEF Polls
  <1>4. Polling(s0, kept, put)
    BY <1>2, <1>3 DEF Polling
  <1>5. score \in Nat
    BY FrameConstants
  <1> HIDE DEF s0
  <1>6. Polling(s, kept, put)
    BY <1>2, <1>4, <1>5, PollLoopKeeps
  <1> HIDE DEF s
  <1>7. s.buf \in [Cells -> CellType] /\ s.tot \in Nat /\ s.tot <= MaxSize
    BY <1>6, FrameConstants DEF Polling, Polls
  <1>8. Gave(s.given, kept, put) /\ Layout(s.buf, s.tot, Len(s.given), kept, put)
    BY <1>6 DEF Polling
  <1> QED BY <1>1, <1>2, <1>7, <1>8 DEF FrameInv

LEMMA FrameInitInv == ASSUME FrameInit PROVE FrameInv
  <1>1. put = <<>> /\ kept = <<>> /\ given = <<>> /\ tot = 0 /\ buf = [k \in Cells |-> Clear]
    BY DEF FrameInit
  <1>2. /\ put \in Seq(FrameSizes) /\ kept \in Seq(Nat) /\ given \in Seq(Seq(CellType))
        /\ Len(put) = 0 /\ Len(kept) = 0 /\ Len(given) = 0
    BY <1>1
  <1>3. Numbers(kept, put)
    BY <1>2 DEF Numbers
  <1>4. Gave(given, kept, put)
    BY <1>2 DEF Gave
  <1>5. buf \in [Cells -> CellType]
    BY <1>1 DEF CellType, Clear
  <1>6. Layout(buf, tot, Len(given), kept, put)
    <2> DEFINE e == [j \in 0 .. 0 |-> 0]
    <2>1. e \in [0 .. 0 -> 0 .. MaxSize] /\ e[0] = 0 /\ \A i, j \in 0 .. 0 : e[i] <= e[j]
      BY FrameConstants
    <2>2. 0 + 1 .. 0 = {}
      OBVIOUS
    <2> HIDE DEF e
    <2>3. Lies(buf, tot, Len(given), kept, put, e)
      BY <2>1, <2>2, <1>1, <1>2 DEF Lies
    <2> QED BY <2>3 DEF Layout
  <1> QED BY <1>1, <1>3, <1>4, <1>5, <1>6, FrameConstants DEF FrameInv

LEMMA FrameInductive == FrameSpec => []FrameInv
  <1>1. FrameInit => FrameInv
    BY FrameInitInv
  <1>2. FrameInv /\ [FrameNext]_frameVars => FrameInv'
    <2> SUFFICES ASSUME FrameInv, [FrameNext]_frameVars PROVE FrameInv'
      OBVIOUS
    <2>1. CASE Rx
      BY <2>1, RxInv DEF Rx
    <2>2. CASE Poll
      BY <2>2, PollInv DEF Poll
    <2>3. CASE UNCHANGED frameVars
      <3>1. /\ buf' = buf /\ tot' = tot /\ put' = put /\ kept' = kept /\ given' = given
            /\ overran' = overran
        BY <2>3 DEF frameVars
      <3> QED BY <3>1 DEF FrameInv
    <2> QED BY <2>1, <2>2, <2>3 DEF FrameNext
  <1> QED BY <1>1, <1>2, PTL DEF FrameSpec

\* The stack receives every frame that was not thrown away whole, unmixed, in order and
\* once, for every size of the buffer, every mix of frame sizes and every loop_score of
\* pico_eth_poll, until a frame is stored behind the end of the buffer, where the model
\* ends.
THEOREM FramesCorrect == FrameSpec => []FramesIntact
  <1>1. FrameInv => FramesIntact
    BY DEF FrameInv, Gave, Numbers, FramesIntact, Payload
  <1> QED BY <1>1, FrameInductive, PTL

\* pico_frame_rxbuf_tot is where the last buffered frame ends, and every frame's size is
\* found where the one before it ends, until a frame overruns the buffer.
THEOREM TotCorrect == FrameSpec => []TotExact
  <1>1. FrameInv => TotExact
    <2> SUFFICES ASSUME FrameInv, ~overran
                 PROVE  \E ends \in [Len(given) .. Len(kept) -> 0 .. MaxSize] :
                            /\ ends[Len(given)] = 0 /\ ends[Len(kept)] = tot
                            /\ \A j \in Len(given) + 1 .. Len(kept) :
                                  /\ ends[j] = ends[j - 1] + put[kept[j]]
                                  /\ buf[ends[j - 1]] = SizeCell(put[kept[j]])
      BY DEF TotExact
    <2>1. PICK ends : Lies(buf, tot, Len(given), kept, put, ends)
      BY DEF FrameInv, Layout
    <2>2. ASSUME NEW j \in Len(given) + 1 .. Len(kept)
          PROVE  buf[ends[j - 1]] = SizeCell(put[kept[j]])
      <3> DEFINE n == put[kept[j]]
      <3>1. Len(given) \in Nat /\ Len(kept) \in Nat
        BY DEF FrameInv, Gave, Numbers
      <3>2. j \in 1 .. Len(kept) /\ j - 1 \in Len(given) .. Len(kept)
        BY <3>1
      <3>3. kept[j] \in Nat /\ n \in FrameSizes
        BY <3>2 DEF FrameInv, Numbers
      <3>4. n \in Nat /\ 1 \in 1 .. n
        BY <3>3, FrameConstants
      <3>5. buf[ends[j - 1] + 1 - 1] = Frame(kept[j], n)[1]
        BY <2>1, <3>4 DEF Lies
      <3>6. ends[j - 1] + 1 - 1 = ends[j - 1]
        <4>1. ends[j - 1] \in 0 .. MaxSize
          BY <2>1, <3>2 DEF Lies
        <4> QED BY <4>1, FrameConstants
      <3>7. Frame(kept[j], n)[1] = <<0, n>>
        BY <3>3, <3>4, FrameCells
      <3> HIDE DEF n
      <3>8. buf[ends[j - 1]] = SizeCell(n)
        BY <3>5, <3>6, <3>7 DEF SizeCell
      <3> QED BY <3>8 DEF n
    <2> QED BY <2>1, <2>2 DEF Lies
  <1> QED BY <1>1, FrameInductive, PTL

-----------------------------------------------------------------------------
\* The addresses and the multicast groups.

Sorted(s) == \A i, j \in 1 .. Len(s) : i <= j => s[i] <= s[j]

\* std::sort finds the place of an element.
LEMMA PlaceFound ==
    ASSUME NEW s \in Seq(Nat), Sorted(s), NEW x \in Nat
    PROVE  /\ Place(s, x) \in 0 .. Len(s)
           /\ \A i \in 1 .. Place(s, x) : s[i] <= x
           /\ \A i \in Place(s, x) + 1 .. Len(s) : s[i] > x
  <1> DEFINE N == Len(s)
             T == {n \in 0 .. N : \A i \in n + 1 .. N : s[i] > x}
  <1>1. N \in Nat
    OBVIOUS
  <1>2. \A i, j \in 1 .. N : i <= j => s[i] <= s[j]
    BY DEF Sorted
  <1>3. \A i \in 1 .. N : s[i] \in Nat
    OBVIOUS
  <1> HIDE DEF N
  <1>4. N \in T
    BY <1>1
  <1>5. T \subseteq Nat /\ T # {}
    <2>1. \A m \in T : m \in 0 .. N
      OBVIOUS
    <2> HIDE DEF T
    <2> QED BY <2>1, <1>1, <1>4
  <1>6. PICK n \in T : \A m \in T : n <= m
    BY <1>5, LeastNumber
  <1>7. n \in 0 .. N /\ \A i \in n + 1 .. N : s[i] > x
    BY <1>6
  <1>8. ASSUME NEW i \in 1 .. n, ~(s[i] <= x) PROVE FALSE
    <2>1. i \in 1 .. N /\ i - 1 \in 0 .. N /\ ~(n <= i - 1)
      BY <1>1, <1>7
    <2>2. ASSUME NEW j \in i - 1 + 1 .. N PROVE s[j] > x
      <3>1. j \in 1 .. N /\ i <= j
        BY <1>1, <2>1
      <3>2. s[i] <= s[j] /\ s[i] \in Nat /\ s[j] \in Nat
        BY <3>1, <2>1, <1>2, <1>3
      <3> QED BY <3>2, <1>8
    <2>3. i - 1 \in T
      BY <2>1, <2>2
    <2> QED BY <2>1, <2>3, <1>6
  <1>9. \E m \in 0 .. N : (\A i \in 1 .. m : s[i] <= x) /\ (\A i \in m + 1 .. N : s[i] > x)
    BY <1>7, <1>8
  <1> QED BY <1>9 DEF Place, N

\* An element that is sorted in: the vector stays sorted, and holds it too.
LEMMA SortInKeeps ==
    ASSUME NEW A, A \subseteq Nat, NEW s \in Seq(A), Sorted(s), NEW x \in A
    PROVE  /\ SortIn(s, x) \in Seq(A) /\ Sorted(SortIn(s, x))
           /\ Len(SortIn(s, x)) = Len(s) + 1
           /\ RangeOf(SortIn(s, x)) = RangeOf(s) \union {x}
  <1> DEFINE N == Len(s)
             n == Place(s, x)
             C(i) == IF i <= n THEN s[i] ELSE IF i = n + 1 THEN x ELSE s[i - 1]
             z == SortIn(s, x)
  <1>1. s \in Seq(Nat) /\ x \in Nat
    <2>1. s \in [1 .. Len(s) -> A] /\ Len(s) \in Nat
      OBVIOUS
    <2>2. s \in [1 .. Len(s) -> Nat]
      BY <2>1
    <2> QED BY <2>1, <2>2
  <1>2. /\ n \in 0 .. N
        /\ \A i \in 1 .. n : s[i] <= x
        /\ \A i \in n + 1 .. N : s[i] > x
    BY <1>1, PlaceFound
  <1>3. z = [i \in 1 .. N + 1 |-> C(i)]
    BY DEF SortIn
  <1>4. N \in Nat /\ DOMAIN s = 1 .. N /\ \A i \in 1 .. N : s[i] \in A
    OBVIOUS
  <1>5. \A i, j \in 1 .. N : i <= j => s[i] <= s[j]
    BY DEF Sorted
  <1> HIDE DEF n, N
  <1>6. \A i \in 1 .. N + 1 : C(i) \in A
    <2> SUFFICES ASSUME NEW i \in 1 .. N + 1 PROVE C(i) \in A
      OBVIOUS
    <2>1. CASE i <= n
      <3>1. i \in 1 .. N
        BY <2>1, <1>2, <1>4
      <3> QED BY <2>1, <3>1, <1>4
    <2>2. CASE i = n + 1
      BY <2>2, <1>2, <1>4
    <2>3. CASE ~(i <= n) /\ i # n + 1
      <3>1. i - 1 \in 1 .. N
        BY <2>3, <1>2, <1>4
      <3> QED BY <2>3, <3>1, <1>4
    <2> QED BY <2>1, <2>2, <2>3
  <1>7. z \in Seq(A) /\ Len(z) = N + 1 /\ DOMAIN z = 1 .. N + 1
    <2> HIDE DEF C, z
    <2>1. z \in [1 .. N + 1 -> A] /\ N + 1 \in Nat
      BY <1>3, <1>4, <1>6
    <2> QED BY <2>1
  <1>8. /\ \A i \in 1 .. n : z[i] = s[i] /\ i \in 1 .. N
        /\ z[n + 1] = x
        /\ \A i \in n + 2 .. N + 1 : z[i] = s[i - 1] /\ i - 1 \in n + 1 .. N /\ i - 1 \in 1 .. N
        /\ \A i \in 1 .. N + 1 : i \in 1 .. n \/ i = n + 1 \/ i \in n + 2 .. N + 1
    <2> HIDE DEF z
    <2>1. \A i \in 1 .. n : z[i] = s[i] /\ i \in 1 .. N
      BY <1>2, <1>3, <1>4
    <2>2. z[n + 1] = x
      BY <1>2, <1>3, <1>4
    <2>3. \A i \in n + 2 .. N + 1 : z[i] = s[i - 1] /\ i - 1 \in n + 1 .. N /\ i - 1 \in 1 .. N
      BY <1>2, <1>3, <1>4
    <2>4. \A i \in 1 .. N + 1 : i \in 1 .. n \/ i = n + 1 \/ i \in n + 2 .. N + 1
      BY <1>2, <1>4
    <2> QED BY <2>1, <2>2, <2>3, <2>4
  <1> HIDE DEF z, C
  <1>9. Sorted(z)
    <2> SUFFICES ASSUME NEW i \in 1 .. N + 1, NEW j \in 1 .. N + 1, i <= j PROVE z[i] <= z[j]
      BY <1>7 DEF Sorted
    <2>1. CASE i \in 1 .. n /\ j \in 1 .. n
      BY <2>1, <1>5, <1>8
    <2>2. CASE i \in 1 .. n /\ j = n + 1
      BY <2>2, <1>2, <1>8
    <2>3. CASE i \in 1 .. n /\ j \in n + 2 .. N + 1
      <3>1. i <= j - 1
        BY <2>3, <1>2, <1>4
      <3> QED BY <2>3, <3>1, <1>5, <1>8
    <2>4. CASE i = n + 1 /\ j = n + 1
      BY <2>4, <1>1, <1>8
    <2>5. CASE i = n + 1 /\ j \in n + 2 .. N + 1
      <3>1. z[i] = x /\ z[j] > x /\ z[j] \in Nat
        BY <2>5, <1>2, <1>4, <1>8
      <3> QED BY <3>1, <1>1
    <2>6. CASE i \in n + 2 .. N + 1 /\ j \in n + 2 .. N + 1
      <3>1. i - 1 <= j - 1
        BY <2>6, <1>2, <1>4
      <3> QED BY <2>6, <3>1, <1>5, <1>8
    <2>7. ~(j \in 1 .. n /\ i = n + 1) /\ ~(j \in 1 .. n /\ i \in n + 2 .. N + 1)
          /\ ~(j = n + 1 /\ i \in n + 2 .. N + 1)
      BY <1>2, <1>4
    <2> QED BY <2>1, <2>2, <2>3, <2>4, <2>5, <2>6, <2>7, <1>8
  <1>10. RangeOf(z) = RangeOf(s) \union {x}
    <2>1. \A y \in RangeOf(z) : \E i \in 1 .. N + 1 : y = z[i]
      BY <1>7 DEF RangeOf
    <2>2. \A y \in RangeOf(z) : y \in RangeOf(s) \/ y = x
      <3> SUFFICES ASSUME NEW i \in 1 .. N + 1 PROVE z[i] \in RangeOf(s) \/ z[i] = x
        BY <2>1
      <3>1. CASE i \in 1 .. n
        BY <3>1, <1>4, <1>8 DEF RangeOf
      <3>2. CASE i \in n + 2 .. N + 1
        BY <3>2, <1>4, <1>8 DEF RangeOf
      <3> QED BY <3>1, <3>2, <1>8
    <2>3. ASSUME NEW i \in 1 .. N PROVE s[i] \in RangeOf(z)
      <3>1. CASE i \in 1 .. n
        <4>1. i \in 1 .. N + 1 /\ z[i] = s[i]
          BY <3>1, <1>4, <1>8
        <4> QED BY <4>1, <1>7 DEF RangeOf
      <3>2. CASE ~(i \in 1 .. n)
        <4>1. PICK h \in n + 2 .. N + 1 : h = i + 1 /\ h - 1 = i
          BY <3>2, <1>2, <1>4
        <4>2. h \in 1 .. N + 1 /\ z[h] = s[i]
          BY <4>1, <1>2, <1>4, <1>8
        <4> QED BY <4>2, <1>7 DEF RangeOf
      <3> QED BY <3>1, <3>2
    <2>4. x \in RangeOf(z)
      <3>1. n + 1 \in 1 .. N + 1
        BY <1>2, <1>4
      <3> QED BY <3>1, <1>7, <1>8 DEF RangeOf
    <2>5. \A y \in RangeOf(s) : y \in RangeOf(z)
      BY <2>3, <1>4 DEF RangeOf
    <2> QED BY <2>2, <2>4, <2>5
  <1> QED BY <1>7, <1>9, <1>10 DEF N, z

LEMMA SortInNat ==
    ASSUME NEW s \in Seq(Nat), Sorted(s), NEW x \in Nat
    PROVE  /\ SortIn(s, x) \in Seq(Nat) /\ Sorted(SortIn(s, x))
           /\ RangeOf(SortIn(s, x)) = RangeOf(s) \union {x}
  <1> DEFINE A == Nat
  <1>1. A \subseteq Nat
    OBVIOUS
  <1>2. s \in Seq(A)
    OBVIOUS
  <1>3. x \in A
    OBVIOUS
  <1> HIDE DEF A
  <1>4. /\ SortIn(s, x) \in Seq(A) /\ Sorted(SortIn(s, x))
        /\ RangeOf(SortIn(s, x)) = RangeOf(s) \union {x}
    BY <1>1, <1>2, <1>3, SortInKeeps, ZenonT(60)
  <1> QED BY <1>4 DEF A

\* std::sort gives a sorted vector of the same elements.
LEMMA SortKeeps ==
    ASSUME NEW s \in Seq(Nat)
    PROVE  Sort(s) \in Seq(Nat) /\ Sorted(Sort(s)) /\ RangeOf(Sort(s)) = RangeOf(s)
  <1> DEFINE N == Len(s)
             P(k) == {z \in Seq(Nat) : Sorted(z) /\ RangeOf(z) = {s[i] : i \in 1 .. k}}
             S == [k \in 0 .. N |-> P(k)]
             T(x, k) == SortIn(x, s[k])
             f == [k \in 1 .. N |-> [x \in S[k - 1] |-> T(x, k)]]
             e == <<>>
             Rec(g) == g = [i \in 0 .. N |-> IF i = 0 THEN <<>> ELSE SortIn(g[i - 1], s[i])]
             sorted == CHOOSE g : Rec(g)
  <1>1. Sort(s) = sorted[N]
    BY DEF Sort
  <1>2. N \in Nat /\ DOMAIN s = 1 .. N /\ \A i \in 1 .. N : s[i] \in Nat
    OBVIOUS
  <1>3. e \in P(0)
    <2>1. e \in Seq(Nat) /\ Len(e) = 0 /\ DOMAIN e = {} /\ 1 .. 0 = {}
      OBVIOUS
    <2> HIDE DEF e
    <2>2. Sorted(e)
      BY <2>1 DEF Sorted
    <2>3. RangeOf(e) = {} /\ {s[i] : i \in 1 .. 0} = {}
      BY <2>1 DEF RangeOf
    <2> QED BY <2>1, <2>2, <2>3
  <1>4. \A k \in 0 .. N : S[k] = P(k)
    OBVIOUS
  <1> HIDE DEF N
  <1>5. ASSUME NEW k \in 1 .. N, NEW x \in P(k - 1) PROVE T(x, k) \in P(k)
    <2>1. x \in Seq(Nat) /\ Sorted(x) /\ RangeOf(x) = {s[i] : i \in 1 .. k - 1}
      BY <1>5
    <2>2. s[k] \in Nat
      BY <1>2
    <2>3. /\ T(x, k) \in Seq(Nat) /\ Sorted(T(x, k))
          /\ RangeOf(T(x, k)) = RangeOf(x) \union {s[k]}
      BY <2>1, <2>2, SortInNat
    <2>4. \A i : i \in 1 .. k <=> i \in 1 .. k - 1 \/ i = k
      BY <1>2
    <2>5. {s[i] : i \in 1 .. k} = {s[i] : i \in 1 .. k - 1} \union {s[k]}
      BY <2>4
    <2> HIDE DEF T
    <2> QED BY <2>1, <2>3, <2>5
  <1>6. \A g : Rec(g) <=> g = [i \in 0 .. N |-> IF i = 0 THEN e ELSE T(g[i - 1], i)]
    OBVIOUS
  <1> HIDE DEF P, T, e, Rec
  <1>7. \A k \in 1 .. N : k \in 0 .. N /\ k - 1 \in 0 .. N
    BY <1>2
  <1>8. \A k \in 1 .. N : \A x \in S[k - 1] : f[k][x] = T(x, k)
    <2> HIDE DEF S
    <2> QED OBVIOUS
  <1> HIDE DEF S, f
  <1>9. e \in S[0] /\ \A k \in 1 .. N : \A x \in S[k - 1] : f[k][x] \in S[k]
    <2>1. 0 \in 0 .. N
      BY <1>2
    <2> QED BY <2>1, <1>3, <1>4, <1>5, <1>7, <1>8
  <1>10. PICK g : Turns(g, f, e, N) /\ \A k \in 0 .. N : g[k] \in S[k]
    BY <1>2, <1>9, LoopExists
  <1>11. Rec(g)
    <2>1. ASSUME NEW k \in 0 .. N PROVE g[k] = IF k = 0 THEN e ELSE T(g[k - 1], k)
      <3>1. k # 0 => k \in 1 .. N
        BY <1>2
      <3>2. g[k] = IF k = 0 THEN e ELSE f[k][g[k - 1]]
        BY <1>10 DEF Turns
      <3> QED BY <3>1, <3>2, <1>7, <1>8, <1>10
    <2>2. g = [k \in 0 .. N |-> g[k]]
      BY <1>10 DEF Turns
    <2>3. g = [k \in 0 .. N |-> IF k = 0 THEN e ELSE T(g[k - 1], k)]
      BY <2>1, <2>2
    <2> QED BY <2>3, <1>6
  <1>12. sorted = [i \in 0 .. N |-> IF i = 0 THEN e ELSE T(sorted[i - 1], i)]
    BY <1>6, <1>11
  <1> HIDE DEF sorted
  <1>13. \A k \in 0 .. N : sorted[k] \in S[k]
    <2>1. sorted[0] \in S[0]
      BY <1>2, <1>9, <1>12
    <2>2. ASSUME NEW k \in 1 .. N, sorted[k - 1] \in S[k - 1] PROVE sorted[k] \in S[k]
      <3>1. sorted[k] = T(sorted[k - 1], k)
        BY <1>7, <1>12
      <3> QED BY <3>1, <2>2, <1>8, <1>9
    <2> QED BY <2>1, <2>2, <1>2, LoopKeeps
  <1>14. sorted[N] \in P(N)
    BY <1>2, <1>4, <1>13
  <1>15. RangeOf(s) = {s[i] : i \in 1 .. N}
    BY <1>2 DEF RangeOf
  <1> QED BY <1>1, <1>14, <1>15 DEF P

\* u begins with the d different elements of s, in order; the rest is as in s.
Fronted(u, s, d) ==
    /\ u \in Seq(Nat) /\ Len(u) = Len(s) /\ d \in 0 .. Len(s)
    /\ \A i, j \in 1 .. d : i < j => u[i] < u[j]
    /\ \A i \in d + 1 .. Len(s) : u[i] = s[i]

\* The first d elements of u are those that are among the first k of s.
Holds(u, d, s, k) ==
    /\ \A i \in 1 .. d : \E j \in 1 .. k : u[i] = s[j]
    /\ \A j \in 1 .. k : \E i \in 1 .. d : u[i] = s[j]

\* std::unique after k turns.
Uniques(s, k) ==
    {r \in [last : Nat, s : Seq(Nat)] :
        /\ Fronted(r.s, s, r.last) /\ Holds(r.s, r.last, s, k) /\ r.last <= k
        /\ k > 0 => r.last > 0 /\ r.s[r.last] = s[k]}

LEMMA UniqueTurnKeeps ==
    ASSUME NEW s \in Seq(Nat), Sorted(s), NEW k \in 1 .. Len(s), NEW r \in Uniques(s, k - 1)
    PROVE  UniqueTurn(r, k) \in Uniques(s, k)
  <1> DEFINE N == Len(s)
             u == r.s
             d == r.last
  <1>1. N \in Nat /\ \A i \in 1 .. N : s[i] \in Nat
    OBVIOUS
  <1>2. /\ d \in 0 .. N /\ u \in Seq(Nat) /\ Len(u) = N /\ d <= k - 1
        /\ k - 1 > 0 => d > 0 /\ u[d] = s[k - 1]
    BY DEF Uniques, Fronted
  <1>3. /\ \A i, j \in 1 .. d : i < j => u[i] < u[j]
        /\ \A i \in d + 1 .. N : u[i] = s[i]
    BY DEF Uniques, Fronted
  <1>4. /\ \A i \in 1 .. d : \E j \in 1 .. k - 1 : u[i] = s[j]
        /\ \A j \in 1 .. k - 1 : \E i \in 1 .. d : u[i] = s[j]
    BY DEF Uniques, Holds
  <1>5. r \in [last : Nat, s : Seq(Nat)] /\ r = [last |-> d, s |-> u]
    BY DEF Uniques
  <1>6. UniqueTurn(r, k) = IF d > 0 /\ u[d] = u[k] THEN r
                           ELSE [last |-> d + 1, s |-> [u EXCEPT ![d + 1] = u[k]]]
    BY DEF UniqueTurn
  <1>7. k \in 1 .. N
    OBVIOUS
  <1> HIDE DEF N, u, d
  <1>8. u[k] = s[k] /\ s[k] \in Nat /\ d \in Nat
    <2>1. k \in d + 1 .. N
      BY <1>1, <1>2, <1>7
    <2> QED BY <2>1, <1>1, <1>2, <1>3, <1>7
  <1>9. \A j \in 1 .. k : j \in 1 .. k - 1 \/ j = k
    BY <1>1, <1>7
  <1>10. \A j \in 1 .. k - 1 : j \in 1 .. k
    BY <1>1, <1>7
  <1>11. CASE d > 0 /\ u[d] = u[k]
    <2>1. d \in 1 .. d /\ d <= k
      BY <1>1, <1>2, <1>7, <1>8, <1>11
    <2>2. Holds(u, d, s, k)
      <3>1. \A i \in 1 .. d : \E j \in 1 .. k : u[i] = s[j]
        BY <1>4, <1>10
      <3>2. \A j \in 1 .. k : \E i \in 1 .. d : u[i] = s[j]
        BY <2>1, <1>4, <1>8, <1>9, <1>11
      <3> QED BY <3>1, <3>2 DEF Holds
    <2>3. Fronted(u, s, d)
      BY <1>2, <1>3 DEF Fronted, N
    <2>4. UniqueTurn(r, k) = r
      BY <1>6, <1>11
    <2> QED BY <2>1, <2>2, <2>3, <2>4, <1>5, <1>8, <1>11 DEF Uniques, u, d
  <1>12. CASE ~(d > 0 /\ u[d] = u[k])
    <2> DEFINE e == d + 1
               w == [u EXCEPT ![e] = u[k]]
    <2>1. e \in 1 .. N /\ e <= k /\ e \in Nat
      BY <1>1, <1>2, <1>7, <1>8
    <2>2. /\ w \in Seq(Nat) /\ Len(w) = N /\ w[e] = s[k]
          /\ \A i \in 1 .. N : i # e => w[i] = u[i]
      <3> HIDE DEF e
      <3>1. DOMAIN u = 1 .. N /\ e \in DOMAIN u
        BY <2>1, <1>2
      <3> QED BY <3>1, <1>2, <1>8
    <2>3. \A i \in 1 .. e : (i \in 1 .. d /\ w[i] = u[i]) \/ (i = e)
      <3>1. \A i \in 1 .. e : i \in 1 .. d \/ i = e
        BY <1>8
      <3>2. \A i \in 1 .. d : i # e /\ i \in 1 .. N
        BY <1>1, <1>2, <1>8
      <3> QED BY <3>1, <3>2, <2>2
    <2>4. \A i \in 1 .. d : i \in 1 .. e /\ w[i] = u[i] /\ i < e
      <3>1. \A i \in 1 .. d : i # e /\ i \in 1 .. N /\ i \in 1 .. e /\ i < e
        BY <1>1, <1>2, <1>8
      <3> HIDE DEF e, w
      <3> QED BY <3>1, <2>2
    <2>5. \A i \in e + 1 .. N : w[i] = s[i]
      <3>1. \A i \in e + 1 .. N : i # e /\ i \in 1 .. N /\ i \in d + 1 .. N
        BY <1>1, <1>2, <1>8
      <3> HIDE DEF e, w
      <3> QED BY <3>1, <2>2, <1>3
    <2>6. e \in 1 .. e
      BY <2>1
    <2>7. UniqueTurn(r, k) = [last |-> e, s |-> w]
      BY <1>6, <1>12
    <2> HIDE DEF e, w
    <2>8. ASSUME d > 0 PROVE u[d] < s[k]
      <3>1. k - 1 > 0 /\ k - 1 \in 1 .. N /\ k - 1 <= k
        BY <2>8, <1>1, <1>2, <1>7, <1>8
      <3>2. s[k - 1] <= s[k] /\ s[k - 1] \in Nat
        BY <3>1, <1>1, <1>7 DEF Sorted, N
      <3>3. u[d] = s[k - 1] /\ u[d] # s[k]
        BY <3>1, <2>8, <1>2, <1>8, <1>12
      <3> QED BY <3>2, <3>3, <1>8
    <2>9. \A i, j \in 1 .. e : i < j => w[i] < w[j]
      <3> SUFFICES ASSUME NEW i \in 1 .. e, NEW j \in 1 .. e, i < j PROVE w[i] < w[j]
        OBVIOUS
      <3>1. i \in 1 .. d
        <4>1. i # e
          BY <2>1
        <4> QED BY <4>1, <2>3
      <3>2. CASE j \in 1 .. d
        BY <3>1, <3>2, <2>4, <1>3
      <3>3. CASE j = e
        <4>1. d \in 1 .. d /\ d > 0 /\ i <= d /\ d \in 1 .. N /\ i \in 1 .. N
          BY <3>1, <1>1, <1>2, <1>8
        <4>2. u[i] < u[d] \/ i = d
          BY <4>1, <3>1, <1>3
        <4>a. u[d] < s[k]
          BY <4>1, <2>8
        <4>b. \A h \in 1 .. N : u[h] \in Nat
          BY <1>2
        <4>3. u[d] < s[k] /\ u[i] \in Nat /\ u[d] \in Nat
          BY <4>1, <4>a, <4>b, Zenon
        <4>4. u[i] < s[k]
          BY <4>2, <4>3, <1>8
        <4> QED BY <4>4, <3>1, <3>3, <2>2, <2>4
      <3> QED BY <3>2, <3>3, <2>3
    <2>10. Fronted(w, s, e)
      <3>1. e \in 0 .. N
        BY <2>1, <1>1
      <3> QED BY <3>1, <2>2, <2>5, <2>9 DEF Fronted, N
    <2>11. Holds(w, e, s, k)
      <3>1. k \in 1 .. k
        BY <1>1, <1>7
      <3>2. \A i \in 1 .. e : \E j \in 1 .. k : w[i] = s[j]
        <4> SUFFICES ASSUME NEW i \in 1 .. e PROVE \E j \in 1 .. k : w[i] = s[j]
          OBVIOUS
        <4>1. CASE i = e
          BY <4>1, <3>1, <2>2
        <4>2. CASE i \in 1 .. d /\ w[i] = u[i]
          <5>1. PICK j \in 1 .. k - 1 : u[i] = s[j]
            BY <4>2, <1>4
          <5> QED BY <5>1, <4>2, <1>10
        <4> QED BY <4>1, <4>2, <2>3
      <3>3. \A j \in 1 .. k : \E i \in 1 .. e : w[i] = s[j]
        BY <2>2, <2>4, <2>6, <1>4, <1>9
      <3> QED BY <3>2, <3>3 DEF Holds
    <2> DEFINE x == [last |-> e, s |-> w]
    <2>12. x \in [last : Nat, s : Seq(Nat)] /\ x.last = e /\ x.s = w
      BY <2>1, <2>2
    <2> HIDE DEF x
    <2>13. x.last > 0 /\ x.last <= k
      BY <2>1, <2>12
    <2>14. x \in Uniques(s, k)
      BY <2>2, <2>10, <2>11, <2>12, <2>13 DEF Uniques
    <2> QED BY <2>7, <2>14 DEF x
  <1> QED BY <1>11, <1>12

\* What std::unique leaves of a sorted vector.
LEMMA UniqueKeeps ==
    ASSUME NEW s \in Seq(Nat), Sorted(s)
    PROVE  \E d : Fronted(unique(s), s, d) /\ Holds(unique(s), d, s, Len(s))
  <1> DEFINE N == Len(s)
             S == [k \in 0 .. N |-> Uniques(s, k)]
             T(x, k) == UniqueTurn(x, k)
             f == [k \in 1 .. N |-> [x \in S[k - 1] |-> T(x, k)]]
             e == [last |-> 0, s |-> s]
             Rec(g) == g = [i \in 0 .. N |-> IF i = 0 THEN [last |-> 0, s |-> s]
                                             ELSE UniqueTurn(g[i - 1], i)]
             after == CHOOSE g : Rec(g)
  <1>1. unique(s) = after[N].s
    BY DEF unique
  <1>2. N \in Nat
    OBVIOUS
  <1>3. e \in Uniques(s, 0)
    <2>1. e \in [last : Nat, s : Seq(Nat)] /\ e.last = 0 /\ e.s = s
      OBVIOUS
    <2> HIDE DEF e
    <2>2. Fronted(s, s, 0)
      BY DEF Fronted
    <2>3. Holds(s, 0, s, 0)
      BY DEF Holds
    <2> QED BY <2>1, <2>2, <2>3 DEF Uniques
  <1>4. \A k \in 0 .. N : S[k] = Uniques(s, k)
    OBVIOUS
  <1>5. \A k \in 1 .. N : \A x \in Uniques(s, k - 1) : T(x, k) \in Uniques(s, k)
    BY UniqueTurnKeeps
  <1>6. \A g : Rec(g) <=> g = [i \in 0 .. N |-> IF i = 0 THEN e ELSE T(g[i - 1], i)]
    OBVIOUS
  <1> HIDE DEF N, T, e, Rec
  <1>7. \A k \in 1 .. N : k \in 0 .. N /\ k - 1 \in 0 .. N
    BY <1>2
  <1>8. \A k \in 1 .. N : \A x \in S[k - 1] : f[k][x] = T(x, k)
    <2> HIDE DEF S
    <2> QED OBVIOUS
  <1> HIDE DEF S, f
  <1>9. e \in S[0] /\ \A k \in 1 .. N : \A x \in S[k - 1] : f[k][x] \in S[k]
    <2>1. 0 \in 0 .. N
      BY <1>2
    <2> QED BY <2>1, <1>3, <1>4, <1>5, <1>7, <1>8
  <1>10. PICK g : Turns(g, f, e, N) /\ \A k \in 0 .. N : g[k] \in S[k]
    BY <1>2, <1>9, LoopExists
  <1>11. Rec(g)
    <2>1. ASSUME NEW k \in 0 .. N PROVE g[k] = IF k = 0 THEN e ELSE T(g[k - 1], k)
      <3>1. k # 0 => k \in 1 .. N
        BY <1>2
      <3>2. g[k] = IF k = 0 THEN e ELSE f[k][g[k - 1]]
        BY <1>10 DEF Turns
      <3> QED BY <3>1, <3>2, <1>7, <1>8, <1>10
    <2>2. g = [k \in 0 .. N |-> g[k]]
      BY <1>10 DEF Turns
    <2>3. g = [k \in 0 .. N |-> IF k = 0 THEN e ELSE T(g[k - 1], k)]
      BY <2>1, <2>2
    <2> QED BY <2>3, <1>6
  <1>12. after = [i \in 0 .. N |-> IF i = 0 THEN e ELSE T(after[i - 1], i)]
    BY <1>6, <1>11
  <1> HIDE DEF after
  <1>13. \A k \in 0 .. N : after[k] \in S[k]
    <2>1. after[0] \in S[0]
      BY <1>2, <1>9, <1>12
    <2>2. ASSUME NEW k \in 1 .. N, after[k - 1] \in S[k - 1] PROVE after[k] \in S[k]
      <3>1. after[k] = T(after[k - 1], k)
        BY <1>7, <1>12
      <3> QED BY <3>1, <2>2, <1>8, <1>9
    <2> QED BY <2>1, <2>2, <1>2, LoopKeeps
  <1>14. after[N] \in Uniques(s, N)
    BY <1>2, <1>4, <1>13
  <1>15. Fronted(after[N].s, s, after[N].last) /\ Holds(after[N].s, after[N].last, s, N)
    BY <1>14 DEF Uniques
  <1> QED BY <1>1, <1>15 DEF N

\* The elements of a vector that std::unique left are those it had.
LEMMA UniqueRange ==
    ASSUME NEW s \in Seq(Nat), NEW u, NEW d, Fronted(u, s, d), Holds(u, d, s, Len(s))
    PROVE  RangeOf(u) = RangeOf(s)
  <1> DEFINE N == Len(s)
  <1>1. N \in Nat /\ DOMAIN s = 1 .. N /\ DOMAIN u = 1 .. N /\ d \in 0 .. N
    BY DEF Fronted
  <1>2. \A i \in d + 1 .. N : u[i] = s[i]
    BY DEF Fronted
  <1>3. /\ \A i \in 1 .. d : \E j \in 1 .. N : u[i] = s[j]
        /\ \A j \in 1 .. N : \E i \in 1 .. d : u[i] = s[j]
    BY DEF Holds
  <1> HIDE DEF N
  <1>4. \A i \in 1 .. N : i \in 1 .. d \/ i \in d + 1 .. N
    BY <1>1
  <1>5. \A i \in 1 .. d : i \in 1 .. N
    BY <1>1
  <1>6. \A i \in 1 .. N : u[i] \in RangeOf(s)
    BY <1>1, <1>2, <1>3, <1>4 DEF RangeOf
  <1>7. \A j \in 1 .. N : s[j] \in RangeOf(u)
    BY <1>1, <1>3, <1>5 DEF RangeOf
  <1>8. RangeOf(u) \subseteq RangeOf(s)
    BY <1>1, <1>6 DEF RangeOf
  <1>9. RangeOf(s) \subseteq RangeOf(u)
    BY <1>1, <1>7 DEF RangeOf
  <1> QED BY <1>8, <1>9

\* Where std::lower_bound may be after k turns: x cannot be before first, and if u has it,
\* it is found among the next len + 1.
Searches(u, x, k) ==
    {r \in [first : Nat, len : Nat] :
        /\ r.first + r.len <= Len(u) /\ r.len <= Len(u) - k
        /\ r.first > 0 => u[r.first] < x
        /\ r.first + r.len < Len(u) => u[r.first + r.len + 1] >= x
        /\ x \in RangeOf(u) =>
              \E i \in r.first + 1 .. r.first + r.len + 1 : i <= Len(u) /\ u[i] = x}

\* A search of a vector that std::unique left goes on where the element is.
LEMMA LowerTurnKeeps ==
    ASSUME NEW s \in Seq(Nat), Sorted(s), NEW u, NEW d, Fronted(u, s, d), Holds(u, d, s, Len(s)),
           NEW x \in Nat, NEW k \in 1 .. Len(u), NEW r \in Searches(u, x, k - 1)
    PROVE  LowerTurn(u, x, r) \in Searches(u, x, k)
  <1> DEFINE N == Len(u)
             a == r.first
             l == r.len
             half == l \div 2
             mid == a + half + 1
             z == a + l + 1
             res == LowerTurn(u, x, r)
  <1>1. N \in Nat /\ N = Len(s) /\ d \in 0 .. N /\ u \in Seq(Nat) /\ DOMAIN u = 1 .. N
    BY DEF Fronted
  <1>2. /\ \A i, j \in 1 .. d : i < j => u[i] < u[j]
        /\ \A i \in d + 1 .. N : u[i] = s[i]
    BY <1>1 DEF Fronted
  <1>3. \A i, j \in 1 .. N : i <= j => s[i] <= s[j]
    BY <1>1 DEF Sorted
  <1>4. /\ \A i \in 1 .. N : s[i] \in Nat /\ u[i] \in Nat
        /\ \A j \in 1 .. N : \E i \in 1 .. d : u[i] = s[j]
    <2>1. \A i \in 1 .. N : s[i] \in Nat
      BY <1>1
    <2>2. \A i \in 1 .. N : u[i] \in Nat
      BY <1>1
    <2>3. \A j \in 1 .. N : \E i \in 1 .. d : u[i] = s[j]
      <3> HIDE DEF N
      <3> QED BY <1>1 DEF Holds
    <2> QED BY <2>1, <2>2, <2>3
  <1>5. RangeOf(u) = RangeOf(s)
    BY UniqueRange
  <1>6. r \in [first : Nat, len : Nat] /\ a \in Nat /\ l \in Nat /\ a + l <= N /\ l <= N - (k - 1)
    BY DEF Searches
  <1>7. (a > 0 => u[a] < x) /\ (a + l < N => u[z] >= x)
    BY DEF Searches
  <1>8. x \in RangeOf(u) => \E i \in a + 1 .. z : i <= N /\ u[i] = x
    BY DEF Searches
  <1>9. res = IF l = 0 THEN r
              ELSE IF u[mid] < x THEN [first |-> mid, len |-> l - half - 1]
              ELSE [first |-> a, len |-> half]
    BY DEF LowerTurn
  <1>10. \A i \in 1 .. N : i \in 1 .. d \/ i \in d + 1 .. N
    BY <1>1
  <1>11. x \in RangeOf(s) => \E j \in 1 .. N : s[j] = x
    BY <1>1 DEF RangeOf
  <1>12. k \in 1 .. N
    OBVIOUS
  <1>13. l > 0 => half \in Nat /\ half <= l - 1
    BY <1>6
  <1> HIDE DEF N, a, l, half, res
  <1>a. N \in Nat /\ d \in Nat /\ d <= N /\ a \in Nat /\ l \in Nat /\ a + l <= N
    BY <1>1, <1>6
  <1>b. k \in Nat /\ k >= 1 /\ k <= N /\ l <= N - k + 1
    BY <1>a, <1>6, <1>12
  <1>14. CASE l = 0
    <2>1. l <= N - k
      BY <1>a, <1>b, <1>14
    <2>2. res = r
      BY <1>9, <1>14
    <2> QED BY <2>1, <2>2, <1>6, <1>7, <1>8 DEF Searches, N, a, l, res
  <1>15. ASSUME l # 0 PROVE mid \in 1 .. N /\ mid <= a + l /\ mid \in Nat /\ z \in Nat /\ a < mid
    <2>1. half \in Nat /\ half <= l - 1
      BY <1>13, <1>15, <1>a
    <2> QED BY <2>1, <1>a
  <1> HIDE DEF mid
  <1>16. CASE l # 0 /\ u[mid] < x
    <2> DEFINE y == [first |-> mid, len |-> l - half - 1]
               m == l - half - 1
    <2>1. m \in Nat /\ mid + m = a + l /\ m <= N - k /\ mid + m + 1 = z /\ mid \in Nat
      <3>1. half \in Nat /\ half <= l - 1
        BY <1>13, <1>16, <1>a
      <3> QED BY <3>1, <1>a, <1>b DEF mid
    <2>2. res = y
      BY <1>9, <1>16
    <2> HIDE DEF z
    <2>3. ASSUME x \in RangeOf(u) PROVE \E i \in mid + 1 .. z : i <= N /\ u[i] = x
      <3>1. PICK i \in a + 1 .. z : i <= N /\ u[i] = x
        BY <2>3, <1>8
      <3>2. i \in 1 .. N /\ i # mid /\ z \in Nat /\ z = a + l + 1
        <4>1. z \in Nat /\ z = a + l + 1
          BY <1>a DEF z
        <4>2. i # mid
          BY <3>1, <1>16, <1>4, <1>15
        <4>3. i \in 1 .. N
          BY <4>1, <3>1, <1>a
        <4> QED BY <4>1, <4>2, <4>3
      <3>3. CASE i > mid
        <4>1. i \in mid + 1 .. z
          BY <3>1, <3>2, <3>3, <2>1
        <4> QED BY <4>1, <3>1
      <3>4. CASE i < mid
        <4>1. mid > d
          <5> SUFFICES ASSUME ~(mid > d) PROVE FALSE
            OBVIOUS
          <5>0. mid \in Nat /\ mid >= 1 /\ i \in Nat /\ i >= 1
            BY <3>2, <1>15, <1>16
          <5>1. mid \in 1 .. d /\ i \in 1 .. d
            BY <5>0, <3>4, <1>a
          <5>2. u[i] < u[mid]
            BY <5>1, <3>4, <1>2
          <5>3. u[mid] \in Nat
            BY <1>4, <1>15, <1>16
          <5> QED BY <5>2, <5>3, <3>1, <1>16
        <4>2. PICK j \in 1 .. N : s[j] = x
          BY <2>3, <1>5, <1>11
        <4>3. mid \in d + 1 .. N /\ mid \in 1 .. N
          BY <4>1, <1>1, <1>15, <1>16
        <4>4. s[mid] < x /\ s[mid] \in Nat
          BY <4>3, <1>2, <1>4, <1>16
        <4>5. j > mid
          <5> SUFFICES ASSUME ~(j > mid) PROVE FALSE
            OBVIOUS
          <5>1. j <= mid
            BY <1>1, <4>3
          <5>2. s[j] <= s[mid]
            BY <5>1, <4>2, <4>3, <1>3
          <5> QED BY <5>2, <4>2, <4>4
        <4>6. j \in d + 1 .. N
          BY <4>1, <4>5, <1>1, <1>15, <1>16
        <4>7. u[j] = x
          BY <4>2, <4>6, <1>2
        <4>8. CASE j <= z
          <5>1. j \in mid + 1 .. z /\ j <= N
            BY <4>5, <4>8, <3>2, <2>1, <1>1
          <5> QED BY <5>1, <4>7
        <4>9. CASE ~(j <= z)
          <5>1. z \in d + 1 .. N /\ z \in 1 .. N /\ z <= j /\ z \in mid + 1 .. z /\ a + l < N /\ z <= N
            <6>1. mid \in Nat /\ mid <= a + l /\ j \in Nat /\ j <= N /\ z \in Nat /\ z = a + l + 1
              BY <1>15, <1>16, <3>2, <1>a
            <6> QED BY <6>1, <4>1, <4>9, <1>a
          <5>2. s[z] <= x /\ s[z] \in Nat /\ u[z] = s[z]
            BY <5>1, <4>2, <1>2, <1>3, <1>4
          <5>3. u[z] >= x
            BY <5>1, <1>7
          <5>4. u[z] = x
            BY <5>2, <5>3
          <5> QED BY <5>1, <5>4
        <4> QED BY <4>8, <4>9
      <3> QED BY <3>2, <3>3, <3>4, <2>1
    <2>4. y \in [first : Nat, len : Nat] /\ y.first = mid /\ y.len = m
      BY <2>1
    <2> HIDE DEF y, m
    <2>5. mid + m <= N
      BY <2>1, <1>6
    <2>6. mid + m < N => u[mid + m + 1] >= x
      BY <2>1, <1>7 DEF z
    <2>7. x \in RangeOf(u) => \E i \in mid + 1 .. mid + m + 1 : i <= N /\ u[i] = x
      BY <2>1, <2>3
    <2>8. y \in Searches(u, x, k)
      BY <2>1, <2>4, <2>5, <2>6, <2>7, <1>16 DEF Searches, N
    <2> QED BY <2>2, <2>8 DEF res
  <1>17. CASE l # 0 /\ ~(u[mid] < x)
    <2> DEFINE y == [first |-> a, len |-> half]
    <2>1. half \in Nat /\ a + half + 1 = mid /\ half <= N - k /\ a + half <= N /\ a \in Nat
      <3>1. half \in Nat /\ half <= l - 1
        BY <1>13, <1>17, <1>a
      <3> QED BY <3>1, <1>a, <1>b DEF mid
    <2>2. res = y
      BY <1>9, <1>17
    <2>3. mid \in 1 .. N /\ u[mid] \in Nat /\ u[mid] >= x /\ mid \in a + 1 .. mid /\ mid <= N
      <3>1. mid \in 1 .. N /\ u[mid] \in Nat
        BY <1>4, <1>15, <1>17
      <3>2. u[mid] >= x
        BY <3>1, <1>17
      <3>3. mid \in a + 1 .. mid /\ mid <= N
        BY <3>1, <1>1, <1>6, <1>15, <1>17
      <3> QED BY <3>1, <3>2, <3>3
    <2> HIDE DEF z
    <2>4. ASSUME x \in RangeOf(u) PROVE \E i \in a + 1 .. mid : i <= N /\ u[i] = x
      <3>1. PICK i \in a + 1 .. z : i <= N /\ u[i] = x
        BY <2>4, <1>8
      <3>2. i \in 1 .. N /\ z \in Nat
        BY <3>1, <1>1, <1>6 DEF z
      <3>3. CASE i <= mid
        <4>1. i \in a + 1 .. mid
          BY <3>1, <3>2, <3>3, <2>1, <2>3
        <4> QED BY <4>1, <3>1
      <3>4. CASE i > mid /\ mid <= d
        <4>1. PICK j \in 1 .. N : s[j] = x
          BY <2>4, <1>5, <1>11
        <4>2. PICK p \in 1 .. d : u[p] = x
          BY <4>1, <1>4
        <4>3. p <= mid
          <5> SUFFICES ASSUME mid < p PROVE FALSE
            BY <2>3, <1>1
          <5>1. mid \in 1 .. d
            BY <3>4, <2>3, <1>1
          <5>2. u[mid] < u[p]
            BY <5>1, <1>2
          <5> QED BY <5>2, <4>2, <2>3
        <4>4. p > a
          <5> SUFFICES ASSUME p <= a PROVE FALSE
            BY <2>1, <1>1
          <5>1. a \in 1 .. d /\ a > 0 /\ a \in 1 .. N
            BY <3>4, <2>1, <2>3, <1>1, <1>15, <1>17
          <5>2. u[a] < x /\ u[a] \in Nat
            BY <5>1, <1>4, <1>7
          <5>3. p = a \/ u[p] < u[a]
            BY <5>1, <1>1, <1>2
          <5> QED BY <5>2, <5>3, <4>2
        <4>5. p \in a + 1 .. mid /\ p <= N
          BY <4>3, <4>4, <2>1, <2>3, <1>1
        <4> QED BY <4>2, <4>5
      <3>5. CASE i > mid /\ ~(mid <= d)
        <4>1. mid \in d + 1 .. N /\ i \in d + 1 .. N /\ mid <= i
          BY <3>2, <3>5, <2>3, <1>1
        <4>2. u[mid] = s[mid] /\ s[i] = x /\ s[mid] <= s[i]
          BY <4>1, <3>1, <3>2, <2>3, <1>2, <1>3
        <4>3. u[mid] = x
          BY <4>2, <2>3
        <4> QED BY <4>3, <2>3
      <3>6. i <= mid \/ i > mid
        BY <3>2, <2>3
      <3> QED BY <3>3, <3>4, <3>5, <3>6
    <2>5. y \in [first : Nat, len : Nat] /\ y.first = a /\ y.len = half
      BY <2>1
    <2> HIDE DEF y
    <2>6. u[a + half + 1] >= x
      BY <2>1, <2>3
    <2>7. x \in RangeOf(u) => \E i \in a + 1 .. a + half + 1 : i <= N /\ u[i] = x
      BY <2>1, <2>4
    <2>8. y \in Searches(u, x, k)
      BY <2>1, <2>5, <2>6, <2>7, <1>7 DEF Searches, N
    <2> QED BY <2>2, <2>8 DEF res
  <1> QED BY <1>14, <1>16, <1>17

\* std::binary_search finds what a vector has that std::unique left, and nothing else.
LEMMA SearchExact ==
    ASSUME NEW s \in Seq(Nat), Sorted(s), NEW u, NEW d, Fronted(u, s, d), Holds(u, d, s, Len(s)),
           NEW x \in Nat
    PROVE  binary_search(u, x) <=> x \in RangeOf(u)
  <1> DEFINE N == Len(u)
             S == [k \in 0 .. N |-> Searches(u, x, k)]
             T(y) == LowerTurn(u, x, y)
             f == [k \in 1 .. N |-> [y \in S[k - 1] |-> T(y)]]
             e == [first |-> 0, len |-> N]
             Rec(g) == g = [i \in 0 .. N |-> IF i = 0 THEN [first |-> 0, len |-> Len(u)]
                                             ELSE LowerTurn(u, x, g[i - 1])]
             after == CHOOSE g : Rec(g)
  <1>1. binary_search(u, x) <=> after[N].first < N /\ ~(x < u[after[N].first + 1])
    BY DEF binary_search
  <1>2. u \in Seq(Nat) /\ N \in Nat /\ DOMAIN u = 1 .. N /\ \A i \in 1 .. N : u[i] \in Nat
    BY DEF Fronted
  <1>3. e \in Searches(u, x, 0)
    <2>1. e \in [first : Nat, len : Nat] /\ e.first = 0 /\ e.len = N
      BY <1>2
    <2> HIDE DEF e
    <2>2. x \in RangeOf(u) => \E i \in 0 + 1 .. 0 + N + 1 : i <= N /\ u[i] = x
      <3>1. x \in RangeOf(u) => \E i \in 1 .. N : u[i] = x
        BY <1>2 DEF RangeOf
      <3>2. \A i \in 1 .. N : i \in 0 + 1 .. 0 + N + 1 /\ i <= N
        BY <1>2
      <3> QED BY <3>1, <3>2
    <2>3. 0 + N <= N /\ N <= N - 0 /\ ~(0 > 0) /\ ~(0 + N < N)
      BY <1>2
    <2> QED BY <2>1, <2>2, <2>3 DEF Searches
  <1>4. \A k \in 0 .. N : S[k] = Searches(u, x, k)
    OBVIOUS
  <1>5. \A k \in 1 .. N : \A y \in Searches(u, x, k - 1) : T(y) \in Searches(u, x, k)
    BY LowerTurnKeeps
  <1>6. \A g : Rec(g) <=> g = [i \in 0 .. N |-> IF i = 0 THEN e ELSE T(g[i - 1])]
    OBVIOUS
  <1> HIDE DEF N, T, e, Rec
  <1>7. \A k \in 1 .. N : k \in 0 .. N /\ k - 1 \in 0 .. N
    BY <1>2
  <1>8. \A k \in 1 .. N : \A y \in S[k - 1] : f[k][y] = T(y)
    <2> HIDE DEF S
    <2> QED OBVIOUS
  <1> HIDE DEF S, f
  <1>9. e \in S[0] /\ \A k \in 1 .. N : \A y \in S[k - 1] : f[k][y] \in S[k]
    <2>1. 0 \in 0 .. N
      BY <1>2
    <2> QED BY <2>1, <1>3, <1>4, <1>5, <1>7, <1>8
  <1>10. PICK g : Turns(g, f, e, N) /\ \A k \in 0 .. N : g[k] \in S[k]
    BY <1>2, <1>9, LoopExists
  <1>11. Rec(g)
    <2>1. ASSUME NEW k \in 0 .. N PROVE g[k] = IF k = 0 THEN e ELSE T(g[k - 1])
      <3>1. k # 0 => k \in 1 .. N
        BY <1>2
      <3>2. g[k] = IF k = 0 THEN e ELSE f[k][g[k - 1]]
        BY <1>10 DEF Turns
      <3> QED BY <3>1, <3>2, <1>7, <1>8, <1>10
    <2>2. g = [k \in 0 .. N |-> g[k]]
      BY <1>10 DEF Turns
    <2>3. g = [k \in 0 .. N |-> IF k = 0 THEN e ELSE T(g[k - 1])]
      BY <2>1, <2>2
    <2> QED BY <2>3, <1>6
  <1>12. after = [i \in 0 .. N |-> IF i = 0 THEN e ELSE T(after[i - 1])]
    BY <1>6, <1>11
  <1> HIDE DEF after
  <1>13. \A k \in 0 .. N : after[k] \in S[k]
    <2>1. after[0] \in S[0]
      BY <1>2, <1>9, <1>12
    <2>2. ASSUME NEW k \in 1 .. N, after[k - 1] \in S[k - 1] PROVE after[k] \in S[k]
      <3>1. after[k] = T(after[k - 1])
        BY <1>7, <1>12
      <3> QED BY <3>1, <2>2, <1>8, <1>9
    <2> QED BY <2>1, <2>2, <1>2, LoopKeeps
  <1>14. after[N] \in Searches(u, x, N)
    BY <1>2, <1>4, <1>13
  <1> DEFINE a == after[N].first
             l == after[N].len
  <1>15. a \in Nat /\ l \in Nat /\ a + l <= N /\ l <= N - N
    BY <1>14 DEF Searches, N
  <1>16. (a + l < N => u[a + l + 1] >= x)
         /\ (x \in RangeOf(u) => \E i \in a + 1 .. a + l + 1 : i <= N /\ u[i] = x)
    BY <1>14 DEF Searches, N
  <1>17. binary_search(u, x) <=> a < N /\ ~(x < u[a + 1])
    BY <1>1
  <1> HIDE DEF a, l
  <1>18. l = 0 /\ a + l = a /\ a + l + 1 = a + 1
    BY <1>2, <1>15
  <1>19. ASSUME a < N, ~(x < u[a + 1]) PROVE x \in RangeOf(u)
    <2>1. a + 1 \in 1 .. N
      BY <1>19, <1>2, <1>15
    <2>2. u[a + 1] >= x /\ u[a + 1] \in Nat
      BY <2>1, <1>2, <1>16, <1>18, <1>19
    <2>3. u[a + 1] = x
      BY <2>2, <1>19
    <2> QED BY <2>1, <2>3, <1>2 DEF RangeOf
  <1>20. ASSUME x \in RangeOf(u) PROVE a < N /\ ~(x < u[a + 1])
    <2>1. PICK i \in a + 1 .. a + 1 : i <= N /\ u[i] = x
      BY <1>16, <1>18, <1>20
    <2>2. i = a + 1
      BY <1>15
    <2>3. a < N
      BY <2>1, <2>2, <1>2, <1>15
    <2>4. ~(x < x)
      OBVIOUS
    <2> QED BY <2>1, <2>2, <2>3, <2>4
  <1> QED BY <1>17, <1>19, <1>20

\* A vector that std::sort and std::unique made.
Uniqued(u) ==
    \E s \in Seq(Nat) : \E d : Sorted(s) /\ Fronted(u, s, d) /\ Holds(u, d, s, Len(s))

TapInv ==
    /\ ips \in Seq(Addrs) /\ Sorted(ips)
    /\ Uniqued(groups) /\ known = RangeOf(groups)
    /\ SubscribedExact

LEMMA UniquedSearch ==
    ASSUME NEW u, Uniqued(u)
    PROVE  RangeOf(u) \subseteq Nat /\ \A x \in Nat : binary_search(u, x) <=> x \in RangeOf(u)
  <1>0. PICK s \in Seq(Nat) :
            \E d : Sorted(s) /\ Fronted(u, s, d) /\ Holds(u, d, s, Len(s))
    BY DEF Uniqued
  <1>1. PICK d : Sorted(s) /\ Fronted(u, s, d) /\ Holds(u, d, s, Len(s))
    BY <1>0
  <1>2. \A x \in Nat : binary_search(u, x) <=> x \in RangeOf(u)
    BY <1>1, SearchExact
  <1>3. u \in Seq(Nat)
    BY <1>1 DEF Fronted
  <1>4. RangeOf(u) \subseteq Nat
    BY <1>3 DEF RangeOf
  <1> QED BY <1>2, <1>4

\* addIp keeps _ips sorted.
LEMMA AddIpInv == ASSUME TapInv, NEW ip \in Addrs, addIp(ip) PROVE TapInv'
  <1> DEFINE w == pico_init_interface(ip)
  <1>1. Addrs \subseteq Nat
    BY AddrsAssumption
  <1>2. ips \in Seq(Addrs) /\ Sorted(ips)
    BY DEF TapInv
  <1>3. w \in Seq(Addrs) /\ Sorted(w)
    <2>1. CASE ip \in RangeOf(ips)
      BY <2>1, <1>2 DEF pico_init_interface
    <2>2. CASE ip \notin RangeOf(ips)
      <3>1. SortIn(ips, ip) \in Seq(Addrs) /\ Sorted(SortIn(ips, ip))
        BY <1>1, <1>2, SortInKeeps
      <3> QED BY <2>2, <3>1 DEF pico_init_interface
    <2> QED BY <2>1, <2>2
  <1>4. ips' = SortIn(w, ip) /\ scanned' = FALSE /\ groups' = groups /\ known' = known
    BY DEF addIp
  <1> HIDE DEF w
  <1>5. SortIn(w, ip) \in Seq(Addrs) /\ Sorted(SortIn(w, ip))
    BY <1>1, <1>3, SortInKeeps
  <1>6. SubscribedExact'
    BY <1>4 DEF SubscribedExact
  <1> QED BY <1>4, <1>5, <1>6 DEF TapInv

LEMMA ConcatCells ==
    ASSUME NEW A, NEW p \in Seq(A), NEW q \in Seq(A)
    PROVE  /\ p \o q \in Seq(A) /\ Len(p \o q) = Len(p) + Len(q)
           /\ \A j \in 1 .. Len(p) : (p \o q)[j] = p[j]
           /\ \A j \in Len(p) + 1 .. Len(p) + Len(q) : (p \o q)[j] = q[j - Len(p)]
  OBVIOUS

LEMMA RemoveIpInv == ASSUME TapInv, NEW ip \in Addrs, removeIp(ip) PROVE TapInv'
  <1> DEFINE N == Len(ips)
  <1>1. Addrs \subseteq Nat
    BY AddrsAssumption
  <1>2. ips \in Seq(Addrs) /\ N \in Nat
    BY DEF TapInv
  <1>3. \A i, j \in 1 .. N : i <= j => ips[i] <= ips[j]
    BY DEF TapInv, Sorted
  <1>4. PICK i \in DOMAIN ips : ips' = SubSeq(ips, 1, i - 1) \o SubSeq(ips, i + 1, Len(ips))
    BY DEF removeIp
  <1>5. i \in 1 .. N
    BY <1>2
  <1> DEFINE p == SubSeq(ips, 1, i - 1)
             q == SubSeq(ips, i + 1, N)
             z == p \o q
  <1>6. p \in Seq(Addrs) /\ Len(p) = i - 1 /\ \A j \in 1 .. i - 1 : p[j] = ips[j]
    BY <1>2, <1>5
  <1>7. q \in Seq(Addrs) /\ Len(q) = N - i /\ \A j \in 1 .. N - i : q[j] = ips[i + j]
    BY <1>2, <1>5
  <1> HIDE DEF p, q, N
  <1>8. z \in Seq(Addrs) /\ Len(z) = Len(p) + Len(q)
        /\ (\A j \in 1 .. Len(p) : z[j] = p[j])
        /\ \A j \in Len(p) + 1 .. Len(p) + Len(q) : z[j] = q[j - Len(p)]
    <2>1. p \in Seq(Addrs)
      BY <1>6
    <2>2. q \in Seq(Addrs)
      BY <1>7
    <2> QED BY <2>1, <2>2, ConcatCells
  <1> HIDE DEF z
  <1>9. Len(z) = N - 1
    BY <1>2, <1>5, <1>6, <1>7, <1>8
  <1>10. \A j \in 1 .. N - 1 : \E h \in 1 .. N : z[j] = ips[h] /\ h = IF j < i THEN j ELSE j + 1
    <2> SUFFICES ASSUME NEW j \in 1 .. N - 1
                 PROVE  \E h \in 1 .. N : z[j] = ips[h] /\ h = IF j < i THEN j ELSE j + 1
      OBVIOUS
    <2>1. CASE j < i
      <3>1. j \in 1 .. i - 1 /\ j \in 1 .. N
        BY <2>1, <1>2, <1>5
      <3>2. z[j] = ips[j]
        BY <3>1, <1>6, <1>8
      <3> QED BY <3>1, <3>2, <2>1
    <2>2. CASE ~(j < i)
      <3>0. i \in Nat /\ j \in Nat /\ N \in Nat /\ i <= j /\ j <= N - 1 /\ 1 <= i /\ i <= N
        BY <2>2, <1>2, <1>5
      <3> DEFINE h == j - (i - 1)
      <3>1. h \in 1 .. N - i /\ h = j - (i - 1) /\ i + h = j + 1
        BY <3>0
      <3> HIDE DEF h
      <3>2. j \in i - 1 + 1 .. i - 1 + (N - i) /\ j + 1 \in 1 .. N
        BY <2>2, <1>2, <1>5
      <3>3. z[j] = q[h]
        BY <3>1, <3>2, <1>6, <1>7, <1>8
      <3>4. z[j] = ips[j + 1]
        BY <3>1, <3>3, <1>7
      <3> QED BY <3>2, <3>4, <2>2
    <2> QED BY <2>1, <2>2
  <1>11. Sorted(z)
    <2> SUFFICES ASSUME NEW j \in 1 .. N - 1, NEW k \in 1 .. N - 1, j <= k PROVE z[j] <= z[k]
      BY <1>9 DEF Sorted
    <2>1. PICK g \in 1 .. N : z[j] = ips[g] /\ g = IF j < i THEN j ELSE j + 1
      BY <1>10
    <2>2. PICK h \in 1 .. N : z[k] = ips[h] /\ h = IF k < i THEN k ELSE k + 1
      BY <1>10
    <2>3. g <= h
      BY <2>1, <2>2, <1>2, <1>5
    <2> QED BY <2>1, <2>2, <2>3, <1>3
  <1>12. ips' = z /\ scanned' = FALSE /\ groups' = groups /\ known' = known
    BY <1>4 DEF removeIp, z, p, q, N
  <1>13. SubscribedExact'
    BY <1>12 DEF SubscribedExact
  <1> QED BY <1>8, <1>11, <1>12, <1>13 DEF TapInv

\* The groups scanMulticastGroups derives.
LEMMA NewGroups ==
    ASSUME TapInv
    PROVE  Uniqued(newGroups) /\ RangeOf(newGroups) = {GroupOf[ip] : ip \in RangeOf(ips)}
  <1> DEFINE N == Len(ips)
             v == [i \in DOMAIN ips |-> GroupOf[ips[i]]]
             s == Sort(v)
  <1>1. N \in Nat /\ DOMAIN ips = 1 .. N /\ \A i \in 1 .. N : ips[i] \in Addrs
    BY DEF TapInv
  <1>2. \A i \in 1 .. N : GroupOf[ips[i]] \in Nat
    BY <1>1, AddrsAssumption
  <1>3. v \in [1 .. N -> Nat]
    BY <1>1, <1>2
  <1>4. v \in Seq(Nat)
    <2> HIDE DEF v, N
    <2> QED BY <1>1, <1>3
  <1>5. RangeOf(v) = {GroupOf[ip] : ip \in RangeOf(ips)}
    BY DEF RangeOf
  <1>6. newGroups = unique(s)
    BY DEF newGroups
  <1> HIDE DEF v
  <1>7. s \in Seq(Nat) /\ Sorted(s) /\ RangeOf(s) = RangeOf(v)
    BY <1>4, SortKeeps
  <1> HIDE DEF s
  <1>8. PICK d : Fronted(unique(s), s, d) /\ Holds(unique(s), d, s, Len(s))
    BY <1>7, UniqueKeeps
  <1>9. Uniqued(unique(s))
    BY <1>7, <1>8 DEF Uniqued
  <1>10. RangeOf(unique(s)) = RangeOf(s)
    BY <1>7, <1>8, UniqueRange
  <1> QED BY <1>5, <1>6, <1>7, <1>9, <1>10

LEMMA ScanInv == ASSUME TapInv, scanMulticastGroups PROVE TapInv'
  <1> DEFINE R == RangeOf(groups)
             Q == RangeOf(newGroups)
             added == {g \in Q : ~binary_search(groups, g)}
             removed == {g \in R : ~binary_search(newGroups, g)}
  <1>1. /\ groups' = newGroups /\ known' = (known \union added) \ removed
        /\ scanned' = TRUE /\ ips' = ips
    BY DEF scanMulticastGroups
  <1>2. Uniqued(groups) /\ known = R
    BY DEF TapInv
  <1>3. Uniqued(newGroups) /\ Q = {GroupOf[ip] : ip \in RangeOf(ips)}
    BY NewGroups
  <1>4. R \subseteq Nat /\ \A x \in Nat : binary_search(groups, x) <=> x \in R
    BY <1>2, UniquedSearch
  <1>5. Q \subseteq Nat /\ \A x \in Nat : binary_search(newGroups, x) <=> x \in Q
    BY <1>3, UniquedSearch
  <1> HIDE DEF R, Q
  <1>6. (R \union added) \ removed = Q
    BY <1>4, <1>5
  <1>7. known' = Q
    BY <1>1, <1>2, <1>6
  <1>8. Uniqued(groups') /\ known' = RangeOf(groups')
    BY <1>1, <1>3, <1>7 DEF Q
  <1>9. SubscribedExact'
    BY <1>1, <1>3, <1>7 DEF SubscribedExact
  <1>10. ips' \in Seq(Addrs) /\ Sorted(ips')
    BY <1>1 DEF TapInv
  <1> QED BY <1>8, <1>9, <1>10 DEF TapInv

LEMMA AddrsInitInv == ASSUME AddrsInit PROVE TapInv
  <1>1. ips = <<>> /\ groups = <<>> /\ known = {}
    BY DEF AddrsInit
  <1>2. ips \in Seq(Addrs) /\ groups \in Seq(Nat) /\ Len(ips) = 0 /\ Len(groups) = 0
        /\ DOMAIN ips = {} /\ DOMAIN groups = {}
    BY <1>1
  <1>3. Sorted(ips) /\ Sorted(groups)
    BY <1>2 DEF Sorted
  <1>4. RangeOf(ips) = {} /\ RangeOf(groups) = {}
    BY <1>2 DEF RangeOf
  <1>5. Fronted(groups, groups, 0) /\ Holds(groups, 0, groups, Len(groups))
    BY <1>2 DEF Fronted, Holds
  <1>6. Uniqued(groups)
    BY <1>2, <1>3, <1>5 DEF Uniqued
  <1>7. SubscribedExact
    BY <1>1, <1>4 DEF SubscribedExact
  <1> QED BY <1>1, <1>2, <1>3, <1>4, <1>6, <1>7 DEF TapInv

\* Whatever addresses come and go, a scan leaves the service subscribed to exactly their
\* groups: binary_search is exact on the vectors that std::unique leaves without the erase.
THEOREM SubscribedCorrect == AddrsSpec => []SubscribedExact
  <1>1. AddrsInit => TapInv
    BY AddrsInitInv
  <1>2. TapInv /\ [AddrsNext]_addrsVars => TapInv'
    <2> SUFFICES ASSUME TapInv, [AddrsNext]_addrsVars PROVE TapInv'
      OBVIOUS
    <2>1. ASSUME NEW ip \in Addrs, addIp(ip) PROVE TapInv'
      BY <2>1, AddIpInv
    <2>2. ASSUME NEW ip \in Addrs, removeIp(ip) PROVE TapInv'
      BY <2>2, RemoveIpInv
    <2>3. CASE scanMulticastGroups
      BY <2>3, ScanInv
    <2>4. CASE UNCHANGED addrsVars
      BY <2>4 DEF addrsVars, TapInv, SubscribedExact
    <2> QED BY <2>1, <2>2, <2>3, <2>4 DEF AddrsNext
  <1>3. TapInv => SubscribedExact
    BY DEF TapInv
  <1> QED BY <1>1, <1>2, <1>3, PTL DEF AddrsSpec

-----------------------------------------------------------------------------
\* The TCP data.

\* The constants, one by one.
LEMMA Constants ==
    /\ SeqMod \in Nat /\ Isn \in Nat /\ Total \in Nat /\ Mss \in Nat /\ InMax \in Nat
    /\ Ssthresh \in Nat /\ CwndMax \in Nat
    /\ 2 * (Total + 1) < SeqMod /\ Isn < SeqMod /\ 0 < Mss /\ Mss < InMax
    /\ Writes \subseteq 1 .. Mss
  BY TcpAssumption

-----------------------------------------------------------------------------
\* Sequence numbers.

\* The residue of a number less than twice the modulus.
LEMMA ModOnce ==
    ASSUME NEW a \in Int, -SeqMod <= a, a < 2 * SeqMod
    PROVE  a % SeqMod = IF a < 0 THEN a + SeqMod ELSE IF a < SeqMod THEN a ELSE a - SeqMod
  BY Constants

\* Adding to a sequence number gives a sequence number.
LEMMA PlusType ==
    ASSUME NEW s \in Int, NEW n \in Int
    PROVE  Plus(s, n) \in SeqNumbers
  BY Constants DEF Plus, SeqNumbers

LEMMA SeqOfValue ==
    ASSUME NEW p \in 0 .. Total
    PROVE  /\ SeqOf(p) = IF Isn + p < SeqMod THEN Isn + p ELSE Isn + p - SeqMod
           /\ SeqOf(p) \in SeqNumbers
  <1> DEFINE v == Isn + p
  <1>1. v \in Int /\ -SeqMod <= v /\ v < 2 * SeqMod /\ ~(v < 0)
    BY Constants
  <1>2. v % SeqMod = IF v < SeqMod THEN v ELSE v - SeqMod
    <2> HIDE DEF v
    <2> QED BY <1>1, ModOnce
  <1> QED BY <1>1, <1>2, Constants DEF SeqOf, Plus, SeqNumbers

\* The number n bytes after position p is that of position p + n.
LEMMA PlusSeqOf ==
    ASSUME NEW p \in Nat, NEW n \in Nat, p + n <= Total
    PROVE  Plus(SeqOf(p), n) = SeqOf(p + n)
  <1>1. /\ p \in 0 .. Total /\ p + n \in 0 .. Total /\ n \in 0 .. Total
    BY Constants
  <1> DEFINE s == SeqOf(p)
  <1>2. s = (IF Isn + p < SeqMod THEN Isn + p ELSE Isn + p - SeqMod) /\ s \in SeqNumbers
    BY <1>1, SeqOfValue
  <1>3. SeqOf(p + n) = IF Isn + (p + n) < SeqMod THEN Isn + (p + n) ELSE Isn + (p + n) - SeqMod
    BY <1>1, SeqOfValue
  <1> HIDE DEF s
  <1> DEFINE v == s + n
  <1>4. v \in Int /\ -SeqMod <= v /\ v < 2 * SeqMod
    BY <1>1, <1>2, Constants DEF SeqNumbers
  <1>5. v % SeqMod = IF v < 0 THEN v + SeqMod ELSE IF v < SeqMod THEN v ELSE v - SeqMod
    <2> HIDE DEF v
    <2> QED BY <1>4, ModOnce
  <1>6. v % SeqMod = SeqOf(p + n)
    BY <1>1, <1>2, <1>3, <1>5, Constants DEF SeqNumbers
  <1> QED BY <1>6 DEF s, Plus

\* pico_seq_compare gives the distance of two positions of the stream, also where
\* their numbers lie on two sides of zero.
LEMMA CompareExact ==
    ASSUME NEW p \in 0 .. Total, NEW q \in 0 .. Total
    PROVE  pico_seq_compare(SeqOf(p), SeqOf(q)) = p - q
  <1> DEFINE a == SeqOf(p)
             b == SeqOf(q)
             h == (SeqMod \div 2) - 1
  <1>1. a = (IF Isn + p < SeqMod THEN Isn + p ELSE Isn + p - SeqMod) /\ a \in SeqNumbers
    BY SeqOfValue
  <1>2. b = (IF Isn + q < SeqMod THEN Isn + q ELSE Isn + q - SeqMod) /\ b \in SeqNumbers
    BY SeqOfValue
  <1>3. h \in Int /\ 2 * h + 2 <= SeqMod /\ SeqMod < 2 * h + 4
    BY Constants
  <1> HIDE DEF a, b, h
  <1>4. /\ a \in Int /\ b \in Int /\ a - b < SeqMod /\ b - a < SeqMod
    BY <1>1, <1>2, Constants DEF SeqNumbers
  <1>5. /\ (b - a) % SeqMod = IF b - a < 0 THEN b - a + SeqMod ELSE b - a
        /\ (a - b) % SeqMod = IF a - b < 0 THEN a - b + SeqMod ELSE a - b
    BY <1>4, ModOnce, Constants
  <1>6. pico_seq_compare(a, b) =
            IF a > b THEN (IF a - b > h THEN -((b - a) % SeqMod) ELSE a - b)
            ELSE (IF b - a > h THEN (a - b) % SeqMod ELSE -(b - a))
    BY DEF pico_seq_compare, h
  <1>7. CASE a > b
    <2>1. CASE a - b > h
      BY <1>1, <1>2, <1>3, <1>4, <1>5, <1>6, <1>7, <2>1, Constants DEF a, b
    <2>2. CASE ~(a - b > h)
      BY <1>1, <1>2, <1>3, <1>4, <1>5, <1>6, <1>7, <2>2, Constants DEF a, b
    <2> QED BY <2>1, <2>2
  <1>8. CASE ~(a > b)
    <2>1. CASE b - a > h
      BY <1>1, <1>2, <1>3, <1>4, <1>5, <1>6, <1>8, <2>1, Constants DEF a, b
    <2>2. CASE ~(b - a > h)
      BY <1>1, <1>2, <1>3, <1>4, <1>5, <1>6, <1>8, <2>2, Constants DEF a, b
    <2> QED BY <2>1, <2>2
  <1> QED BY <1>7, <1>8

\* The distance to Isn is the position.
LEMMA PositionOf ==
    ASSUME NEW p \in 0 .. Total
    PROVE  (SeqOf(p) - Isn) % SeqMod = p
  <1> DEFINE s == SeqOf(p)
  <1>1. s = (IF Isn + p < SeqMod THEN Isn + p ELSE Isn + p - SeqMod) /\ s \in SeqNumbers
    BY SeqOfValue
  <1> HIDE DEF s
  <1>2. s - Isn \in Int /\ -SeqMod <= s - Isn /\ s - Isn < 2 * SeqMod
    BY <1>1, Constants DEF SeqNumbers
  <1>3. (s - Isn) % SeqMod = p
    BY <1>1, <1>2, ModOnce, Constants
  <1> QED BY <1>3 DEF s

-----------------------------------------------------------------------------
\* Segments and queues.

\* A segment carries the bytes its number says, and none the application has not written.
IsSeg(x, n) == x \in Segments /\ x.seq = SeqOf(x.at) /\ x.len > 0 /\ x.at + x.len <= n

\* A frame is a segment, or a probe without payload.
IsFrame(x, n) == x \in Segments /\ (x.len > 0 => IsSeg(x, n))

\* The positions a queue holds.
Held(q) == {p \in Nat : \E x \in q : x.at <= p /\ p < x.at + x.len}

\* Where a segment ends.
LEMMA EndOf ==
    ASSUME NEW n \in 0 .. Total, NEW x, IsSeg(x, n)
    PROVE  /\ x.at \in 0 .. Total /\ x.at + x.len \in 0 .. Total
           /\ End(x) = SeqOf(x.at + x.len) /\ End(x) \in SeqNumbers
  <1>1. x.at \in Nat /\ x.len \in Nat /\ x.at + x.len <= Total
    BY Constants DEF IsSeg, Segments
  <1>2. Plus(SeqOf(x.at), x.len) = SeqOf(x.at + x.len)
    BY <1>1, PlusSeqOf
  <1>3. x.at + x.len \in 0 .. Total
    BY <1>1
  <1>4. SeqOf(x.at + x.len) \in SeqNumbers
    BY <1>3, SeqOfValue
  <1>5. End(x) = SeqOf(x.at + x.len)
    BY <1>2 DEF IsSeg, End
  <1>6. End(x) \in SeqNumbers
    BY <1>4, <1>5
  <1>7. x.at \in 0 .. Total
    BY <1>1, Constants
  <1> QED BY <1>3, <1>5, <1>6, <1>7

\* The first segment of a queue is the one whose bytes come first.
LEMMA FirstSegment ==
    ASSUME NEW n \in 0 .. Total, NEW q, \A x \in q : IsSeg(x, n), q # {}
    PROVE  /\ first_segment(q) \in q
           /\ \A y \in q : first_segment(q).at <= y.at
  <1> DEFINE T == {x.at : x \in q}
  <1>1. T \subseteq Nat /\ T # {}
    BY DEF IsSeg, Segments
  <1>2. PICK m \in T : \A j \in T : m <= j
    BY <1>1, LeastNumber
  <1>3. PICK x \in q : x.at = m
    BY <1>2
  <1>4. \A y \in q : x.at <= y.at
    BY <1>2, <1>3
  <1>5. \A y, z \in q : pico_seq_compare(y.seq, z.seq) = y.at - z.at
    <2> SUFFICES ASSUME NEW y \in q, NEW z \in q
                 PROVE  pico_seq_compare(y.seq, z.seq) = y.at - z.at
      OBVIOUS
    <2>1. y.at \in 0 .. Total /\ z.at \in 0 .. Total
      BY EndOf
    <2>2. y.seq = SeqOf(y.at) /\ z.seq = SeqOf(z.at)
      BY DEF IsSeg
    <2> QED BY <2>1, <2>2, CompareExact
  <1>6. \A y \in q : y.at \in Nat
    BY DEF IsSeg, Segments
  <1>7. x \in First(q)
    BY <1>4, <1>5, <1>6 DEF First
  <1>8. first_segment(q) \in First(q)
    BY <1>7 DEF first_segment
  <1>9. \A y \in q : pico_seq_compare(first_segment(q).seq, y.seq) <= 0
    BY <1>8 DEF First
  <1>10. first_segment(q) \in q
    BY <1>8 DEF First
  <1> QED BY <1>5, <1>6, <1>9, <1>10

-----------------------------------------------------------------------------
\* The steps of the sender.

Steps ==
    [t : Senders, sent : Seq(Segments), shed : SUBSET Nat, overrun : BOOLEAN, on : BOOLEAN]

\* A step after which tcpq_out holds what q held, but for what was shed; it sends and
\* keeps only segments of a stream of n bytes.
Keeps(s, q, n) ==
    /\ s \in Steps
    /\ \A x \in s.t.outq : IsSeg(x, n)
    /\ \A i \in 1 .. Len(s.sent) : IsFrame(s.sent[i], n)
    /\ \A p \in Held(q) : p \in s.shed \/ p \in Held(s.t.outq)

\* The step that does nothing.
LEMMA StepKeeps ==
    ASSUME NEW n, NEW t \in Senders, \A x \in t.outq : IsSeg(x, n)
    PROVE  Keeps(Step(t), t.outq, n)
  <1>1. Step(t) \in Steps /\ Step(t).t = t /\ Step(t).sent = <<>>
    BY DEF Step, Steps
  <1> QED BY <1>1 DEF Keeps

\* The socket is changed.
Becomes(s, t) == [s EXCEPT !.t = t]

\* A change of the socket that leaves tcpq_out alone.
LEMMA SocketChange ==
    ASSUME NEW n, NEW q, NEW s, Keeps(s, q, n), NEW t \in Senders, t.outq = s.t.outq,
           NEW r, r = Becomes(s, t)
    PROVE  Keeps(r, q, n) /\ r.t = t
  <1>1. s \in Steps
    BY DEF Keeps
  <1>2. r \in Steps /\ r.t = t /\ r.sent = s.sent /\ r.shed = s.shed
    BY <1>1 DEF Steps, Becomes
  <1> QED BY <1>2 DEF Keeps

\* A frame is sent.
Sends(s, f, o) == [s EXCEPT !.overrun = o, !.sent = Append(@, f)]

\* Sending a frame.
LEMMA SendKeeps ==
    ASSUME NEW n, NEW q, NEW s, Keeps(s, q, n), NEW f, IsFrame(f, n), NEW o \in BOOLEAN,
           NEW r, r = Sends(s, f, o)
    PROVE  /\ Keeps(r, q, n) /\ r.t = s.t
           /\ Len(r.sent) = Len(s.sent) + 1 /\ r.sent[Len(r.sent)] = f
  <1>1. s \in Steps /\ f \in Segments
    BY DEF Keeps, IsFrame
  <1>0. s.sent \in Seq(Segments)
    BY <1>1 DEF Steps
  <1> DEFINE a == Append(s.sent, f)
  <1>5. a \in Seq(Segments)
    BY <1>0, <1>1
  <1>6. r \in Steps /\ r.t = s.t /\ r.shed = s.shed /\ r.sent = a
    <2> HIDE DEF a
    <2>1. r = [s EXCEPT !.overrun = o, !.sent = a]
      BY DEF a, Sends
    <2> QED BY <1>1, <1>5, <2>1 DEF Steps
  <1>2. /\ r \in Steps /\ r.t = s.t /\ r.shed = s.shed /\ r.sent = Append(s.sent, f)
        /\ s.sent \in Seq(Segments)
    BY <1>0, <1>6
  <1>3. /\ Len(r.sent) = Len(s.sent) + 1 /\ Len(s.sent) \in Nat
        /\ \A i \in 1 .. Len(s.sent) : r.sent[i] = s.sent[i]
        /\ r.sent[Len(s.sent) + 1] = f
    BY <1>2, <1>1
  <1>4. ASSUME NEW i \in 1 .. Len(r.sent) PROVE IsFrame(r.sent[i], n)
    <2>1. i \in 1 .. Len(s.sent) \/ i = Len(s.sent) + 1
      BY <1>3
    <2> QED BY <2>1, <1>3 DEF Keeps
  <1> QED BY <1>2, <1>3, <1>4 DEF Keeps

\* Cutting a frame to the window: what is cut off is sent and counted as shed.
LEMMA SplitKeeps ==
    ASSUME NEW n \in 0 .. Total, NEW q, NEW s, Keeps(s, q, n), NEW f \in s.t.outq,
           NEW size \in Nat, NEW r, r = tcp_split_segment(s, f, size)
    PROVE  /\ Keeps(r, q, n) /\ Len(r.sent) = Len(s.sent) + 1
           /\ r.sent[Len(r.sent)].len \in Nat
  <1>0. s \in Steps /\ s.t \in Senders /\ s.t.outq \in SUBSET Segments
    BY DEF Keeps, Steps, Senders
  <1>1. IsSeg(f, n) /\ IsFrame(f, n) /\ f \in Segments
    BY DEF Keeps, IsSeg, IsFrame
  <1>2. f.at \in Nat /\ f.len \in Nat /\ f.seq = SeqOf(f.at) /\ f.len > 0 /\ f.at + f.len <= n
        /\ f.seq \in SeqNumbers
    BY <1>1 DEF IsSeg, Segments
  <1>3. CASE size >= f.len
    <2> DEFINE yes == TRUE
    <2>1. r = Sends(s, f, yes)
      BY <1>3 DEF tcp_split_segment, Sends
    <2>2. yes \in BOOLEAN
      OBVIOUS
    <2> HIDE DEF yes
    <2>3. /\ Keeps(r, q, n) /\ r.t = s.t /\ Len(r.sent) = Len(s.sent) + 1
          /\ r.sent[Len(r.sent)] = f
      BY <2>1, <2>2, <1>1, SendKeeps
    <2> QED BY <2>3, <1>2
  <1>4. CASE ~(size >= f.len)
    <2> DEFINE tail == [seq |-> Plus(f.seq, size), at |-> f.at + size, len |-> f.len - size]
               head == [f EXCEPT !.len = size]
               o == (s.t.outq \ {f}) \union {tail}
               cutoff == f.at .. (f.at + size - 1)
               m == [s EXCEPT !.t.outq = o, !.shed = @ \union cutoff]
    <2>1. /\ Plus(SeqOf(f.at), size) = SeqOf(f.at + size)
      BY <1>2, <1>4, PlusSeqOf, Constants
    <2>2. f.at + size \in 0 .. Total
      BY <1>2, <1>4, Constants
    <2>3. SeqOf(f.at + size) \in SeqNumbers
      BY <2>2, SeqOfValue
    <2>4. IsSeg(tail, n)
      <3>1. tail.seq = SeqOf(f.at + size) /\ tail.at = f.at + size /\ tail.len = f.len - size
        BY <2>1, <1>2
      <3>2. tail \in Segments
        BY <3>1, <2>2, <2>3, <1>2, <1>4 DEF Segments
      <3> QED BY <3>1, <3>2, <1>2, <1>4 DEF IsSeg
    <2>5. IsFrame(head, n)
      <3>1. head.seq = f.seq /\ head.at = f.at /\ head.len = size /\ head \in Segments
        BY <1>1 DEF Segments
      <3> QED BY <3>1, <1>2, <1>4 DEF IsFrame, IsSeg
    <2>6. o \in SUBSET Segments
      BY <2>4, <1>0 DEF IsSeg
    <2>7. cutoff \in SUBSET Nat
      BY <1>2
    <2>8. /\ m \in Steps /\ m.t = [s.t EXCEPT !.outq = o] /\ m.t.outq = o
          /\ m.shed = s.shed \union cutoff /\ m.sent = s.sent
      <3> HIDE DEF o, cutoff
      <3>1. m.t = [s.t EXCEPT !.outq = o] /\ m.shed = s.shed \union cutoff
            /\ m.sent = s.sent /\ m.overrun = s.overrun /\ m.on = s.on
        BY <1>0 DEF Steps
      <3>2. [s.t EXCEPT !.outq = o] \in Senders /\ [s.t EXCEPT !.outq = o].outq = o
        BY <2>6, <1>0 DEF Senders
      <3>3. s.shed \union cutoff \in SUBSET Nat
        BY <1>0, <2>7 DEF Steps
      <3>4. m = [s EXCEPT !.t = [s.t EXCEPT !.outq = o], !.shed = s.shed \union cutoff]
        BY <1>0 DEF Steps
      <3>5. m \in Steps
        BY <1>0, <3>2, <3>3, <3>4 DEF Steps
      <3> QED BY <3>1, <3>2, <3>5
    <2>9. Keeps(m, q, n)
      <3>1. \A x \in o : IsSeg(x, n)
        BY <2>4 DEF Keeps
      <3>2. ASSUME NEW p \in Held(q) PROVE p \in m.shed \/ p \in Held(m.t.outq)
        <4>1. p \in s.shed \/ p \in Held(s.t.outq)
          BY DEF Keeps
        <4>2. CASE p \in s.shed
          BY <4>2, <2>8
        <4>3. CASE p \in Held(s.t.outq)
          <5>1. PICK x \in s.t.outq : x.at <= p /\ p < x.at + x.len
            BY <4>3 DEF Held
          <5>2. p \in Nat
            BY DEF Held
          <5>3. CASE x # f
            <6>1. x \in o
              BY <5>3
            <6>2. p \in Held(o)
              BY <6>1, <5>1, <5>2 DEF Held
            <6> QED BY <6>2, <2>8
          <5>4. CASE x = f /\ p < f.at + size
            <6>1. p \in cutoff
              BY <5>1, <5>2, <5>4, <1>2
            <6> QED BY <6>1, <2>8
          <5>5. CASE x = f /\ ~(p < f.at + size)
            <6>1. tail.at = f.at + size /\ tail.len = f.len - size /\ tail \in o
              OBVIOUS
            <6>2. tail.at <= p /\ p < tail.at + tail.len
              BY <6>1, <5>1, <5>2, <5>5, <1>2
            <6>3. p \in Held(o)
              BY <6>1, <6>2, <5>2 DEF Held
            <6> QED BY <6>3, <2>8
          <5> QED BY <5>3, <5>4, <5>5
        <4> QED BY <4>1, <4>2, <4>3
      <3> HIDE DEF m, o
      <3> QED BY <3>1, <3>2, <2>8 DEF Keeps
    <2>10. r = Sends(m, head, s.overrun)
      <3>1. r = [s EXCEPT !.t.outq = o, !.shed = @ \union cutoff, !.sent = Append(@, head)]
        BY <1>4 DEF tcp_split_segment
      <3> HIDE DEF o, cutoff, head
      <3> QED BY <3>1, <1>0 DEF Steps, Sends
    <2>11. s.overrun \in BOOLEAN
      BY <1>0 DEF Steps
    <2>12. /\ Keeps(r, q, n) /\ r.t = m.t /\ Len(r.sent) = Len(m.sent) + 1
           /\ r.sent[Len(r.sent)] = head
      <3> HIDE DEF m, head
      <3> QED BY <2>5, <2>9, <2>10, <2>11, SendKeeps
    <2>13. head.len \in Nat
      BY <1>1 DEF Segments
    <2> HIDE DEF m, o, head, tail
    <2> QED BY <2>12, <2>13, <2>8
  <1> QED BY <1>3, <1>4

\* A step that sends one frame.
LEMMA OneSent ==
    ASSUME NEW n, NEW t \in Senders, \A x \in t.outq : IsSeg(x, n), NEW f, IsFrame(f, n)
    PROVE  Keeps([Step(t) EXCEPT !.sent = <<f>>], t.outq, n)
  <1> DEFINE e == Step(t)
             one == <<f>>
             r == [e EXCEPT !.sent = one]
  <1>1. Keeps(e, t.outq, n) /\ e \in Steps /\ e.t = t
    BY StepKeeps DEF Step, Steps
  <1>2. one \in Seq(Segments) /\ Len(one) = 1 /\ one[1] = f
    BY DEF IsFrame
  <1>3. r \in Steps /\ r.t = t /\ r.sent = one /\ r.shed = e.shed
    <2> HIDE DEF e, one
    <2> QED BY <1>1, <1>2 DEF Steps
  <1>4. \A i \in 1 .. Len(one) : IsFrame(one[i], n)
    BY <1>2
  <1>5. Keeps(r, t.outq, n)
    <2> HIDE DEF e, one, r
    <2> QED BY <1>1, <1>3, <1>4 DEF Keeps
  <1> QED BY <1>5

\* One turn's frame.
LEMMA SendOneKeeps ==
    ASSUME NEW n \in 0 .. Total, NEW q, NEW s, Keeps(s, q, n), NEW f \in s.t.outq,
           NEW fits \in BOOLEAN
    PROVE  Keeps(SendOne(s, f, fits), q, n)
  <1> DEFINE cut == IF fits THEN [s EXCEPT !.sent = Append(@, f)]
                    ELSE tcp_split_segment(s, f, s.t.recv_wnd)
             flying == s.t.in_flight
  <1>0. s \in Steps /\ s.t \in Senders /\ s.overrun \in BOOLEAN
    BY DEF Keeps, Steps
  <1>1. IsFrame(f, n) /\ f \in Segments /\ f.seq \in SeqNumbers /\ f.len \in Nat
    BY DEF Keeps, IsSeg, IsFrame, Segments
  <1>2. s.t.recv_wnd \in Nat /\ flying \in Nat /\ s.t.outq \in SUBSET Segments
    BY <1>0, Constants DEF Senders
  <1>3. Keeps(cut, q, n) /\ cut.sent[Len(cut.sent)].len \in Nat
    <2>1. CASE fits
      <3>1. cut = Sends(s, f, s.overrun)
        BY <2>1, <1>0 DEF Sends, Steps
      <3> HIDE DEF cut
      <3>2. Keeps(cut, q, n) /\ cut.t = s.t /\ cut.sent[Len(cut.sent)] = f
        BY <3>1, <1>0, <1>1, SendKeeps
      <3> QED BY <3>2, <1>1
    <2>2. CASE ~fits
      <3>1. cut = tcp_split_segment(s, f, s.t.recv_wnd)
        BY <2>2
      <3> HIDE DEF cut
      <3> QED BY <3>1, <1>2, SplitKeeps
    <2> QED BY <2>1, <2>2
  <1>4. SendOne(s, f, fits) =
          [cut EXCEPT !.t.snd_nxt = Plus(@, cut.sent[Len(cut.sent)].len),
                      !.t.snd_last_out = f.seq,
                      !.t.in_flight = @ + 1,
                      !.t.cwnd = IF fits THEN @ ELSE IF flying < 1 THEN 1 ELSE flying]
    BY DEF SendOne
  <1> HIDE DEF cut, flying
  <1>5. cut \in Steps /\ cut.t \in Senders
    BY <1>3 DEF Keeps, Steps
  <1> DEFINE a == Plus(cut.t.snd_nxt, cut.sent[Len(cut.sent)].len)
             c == IF fits THEN cut.t.cwnd ELSE IF flying < 1 THEN 1 ELSE flying
             i == cut.t.in_flight + 1
             u == [cut.t EXCEPT !.snd_nxt = a, !.snd_last_out = f.seq, !.in_flight = i, !.cwnd = c]
  <1>6. a \in SeqNumbers
    <2>1. cut.t.snd_nxt \in Int
      BY <1>5, Constants DEF Senders, SeqNumbers
    <2> QED BY <2>1, <1>3, PlusType
  <1>7. c \in Nat \ {0} /\ i \in Nat
    BY <1>2, <1>5 DEF Senders
  <1>8. u \in Senders /\ u.outq = cut.t.outq
    <2> HIDE DEF a, c, i
    <2> QED BY <1>1, <1>5, <1>6, <1>7 DEF Senders
  <1>9. SendOne(s, f, fits) = Becomes(cut, u)
    <2> HIDE DEF a, c, i
    <2>1. SendOne(s, f, fits) =
          [cut EXCEPT !.t.snd_nxt = a, !.t.snd_last_out = f.seq, !.t.in_flight = i, !.t.cwnd = c]
      BY <1>4, <1>5 DEF a, c, i, Steps, Senders
    <2> QED BY <2>1, <1>5 DEF Steps, Senders, Becomes
  <1> HIDE DEF u
  <1> QED BY <1>3, <1>8, <1>9, SocketChange

\* One turn of pico_tcp_output.
LEMMA OutputTurnKeeps ==
    ASSUME NEW n \in 0 .. Total, NEW q, NEW s, Keeps(s, q, n), NEW una \in SeqNumbers
    PROVE  Keeps(OutputTurn(s, una), q, n)
  <1> DEFINE found == peek_segment(s.t.outq, s.t.snd_nxt)
             f == CHOOSE x \in found : TRUE
             diff == pico_seq_compare(f.seq, una)
             fits == diff + f.len <= s.t.recv_wnd
             full == [s EXCEPT !.t.snd_nxt = una, !.t.snd_retry = una, !.t.x_mode = WINDOW_FULL,
                               !.on = FALSE]
  <1>0. s \in Steps /\ s.t \in Senders
    BY DEF Keeps, Steps
  <1>1. \/ OutputTurn(s, una) = s
        \/ found # {} /\ OutputTurn(s, una) = SendOne(s, f, fits)
        \/ OutputTurn(s, una) = full
    BY DEF OutputTurn
  <1>2. CASE found # {} /\ OutputTurn(s, una) = SendOne(s, f, fits)
    <2>1. f \in s.t.outq
      BY <1>2 DEF peek_segment
    <2>2. fits \in BOOLEAN
      OBVIOUS
    <2> HIDE DEF f, fits
    <2> QED BY <1>2, <2>1, <2>2, SendOneKeeps
  <1>3. CASE OutputTurn(s, una) = full
    <2> DEFINE u == [s.t EXCEPT !.snd_nxt = una, !.snd_retry = una, !.x_mode = WINDOW_FULL]
               v == [s EXCEPT !.on = FALSE]
    <2>0. WINDOW_FULL \in 0 .. 6
      BY DEF WINDOW_FULL
    <2>1. u \in Senders /\ u.outq = s.t.outq
      BY <1>0, <2>0 DEF Senders
    <2>2. v \in Steps /\ v.t = s.t /\ v.sent = s.sent /\ v.shed = s.shed
      BY <1>0 DEF Steps
    <2>3. Keeps(v, q, n)
      <3> HIDE DEF v
      <3> QED BY <2>2 DEF Keeps
    <2>4. full = Becomes(v, u)
      BY <1>0 DEF Steps, Senders, Becomes
    <2>5. u.outq = v.t.outq
      BY <2>1, <2>2
    <2> HIDE DEF u, v, full
    <2> QED BY <2>1, <2>3, <2>4, <2>5, <1>3, SocketChange
  <1> QED BY <1>1, <1>2, <1>3

\* The loop of pico_tcp_output.
LEMMA OutputLoopKeeps ==
    ASSUME NEW n \in 0 .. Total, NEW q, NEW s, Keeps(s, q, n), NEW una \in SeqNumbers,
           NEW score \in Int
    PROVE  Keeps(OutputLoop(s, una, score), q, n)
  <1> DEFINE S == {x \in Steps : Keeps(x, q, n)}
             m == IF score < 1 THEN 1 ELSE score
             f == [x \in S |-> OutputTurn(x, una)]
             Rec(g) == g = [k \in 0 .. m |-> IF k = 0 THEN s ELSE OutputTurn(g[k - 1], una)]
             turn == CHOOSE g : Rec(g)
  <1>1. OutputLoop(s, una, score) = turn[m]
    BY DEF OutputLoop
  <1>2. m \in Nat
    OBVIOUS
  <1>3. \A x \in S : OutputTurn(x, una) \in S
    <2>1. ASSUME NEW x \in S PROVE OutputTurn(x, una) \in S
      <3>1. Keeps(OutputTurn(x, una), q, n)
        BY OutputTurnKeeps
      <3> QED BY <3>1 DEF Keeps
    <2> QED BY <2>1
  <1>4. s \in S
    BY DEF Keeps
  <1>5. \A x \in S : f[x] = OutputTurn(x, una)
    OBVIOUS
  <1>6. \A x \in S : f[x] \in S
    BY <1>3, <1>5
  <1> HIDE DEF S, f, m
  <1>7. PICK g : Repeats(g, f, s, m) /\ \A k \in 0 .. m : g[k] \in S
    BY <1>2, <1>4, <1>6, RepeatExists
  <1>8. Rec(g)
    <2>1. ASSUME NEW k \in 0 .. m
          PROVE  g[k] = IF k = 0 THEN s ELSE OutputTurn(g[k - 1], una)
      <3>1. k # 0 => k - 1 \in 0 .. m
        BY <1>2
      <3>2. g[k] = IF k = 0 THEN s ELSE f[g[k - 1]]
        BY <1>7 DEF Repeats
      <3> QED BY <3>1, <3>2, <1>7, <1>5
    <2>2. g = [k \in 0 .. m |-> g[k]]
      BY <1>7 DEF Repeats
    <2> QED BY <2>1, <2>2
  <1>9. Rec(turn)
    BY <1>8
  <1> HIDE DEF turn
  <1>10. \A k \in 0 .. m : turn[k] \in S
    <2>1. turn[0] \in S
      BY <1>2, <1>4, <1>9
    <2>2. ASSUME NEW k \in 1 .. m, turn[k - 1] \in S PROVE turn[k] \in S
      <3>1. turn[k] = OutputTurn(turn[k - 1], una)
        BY <1>2, <1>9
      <3> QED BY <3>1, <2>2, <1>3
    <2> QED BY <2>1, <2>2, <1>2, RepeatKeeps
  <1>11. turn[m] \in S
    BY <1>2, <1>10
  <1> QED BY <1>1, <1>11 DEF S

\* pico_tcp_output.
LEMMA OutputKeeps ==
    ASSUME NEW n \in 0 .. Total, NEW q, NEW s, Keeps(s, q, n), NEW score \in Int
    PROVE  Keeps(pico_tcp_output(s, score), q, n)
  <1> DEFINE idle == peek_segment(s.t.outq, s.t.snd_nxt) = {} \/ s.t.cwnd < s.t.in_flight
             u == [s.t EXCEPT !.timer = TRUE]
             una == first_segment(s.t.outq).seq
  <1>0. s \in Steps /\ s.t \in Senders /\ \A x \in s.t.outq : IsSeg(x, n)
    BY DEF Keeps, Steps
  <1>1. CASE idle
    BY <1>1 DEF pico_tcp_output
  <1>2. CASE ~idle
    <2>1. s.t.outq # {}
      BY <1>2 DEF peek_segment
    <2>2. first_segment(s.t.outq) \in s.t.outq
      BY <1>0, <2>1, FirstSegment
    <2>3. una \in SeqNumbers
      BY <1>0, <2>2 DEF IsSeg, Segments
    <2>4. u \in Senders /\ u.outq = s.t.outq
      BY <1>0 DEF Senders
    <2>5. Keeps(Becomes(s, u), q, n)
      <3> HIDE DEF u
      <3> QED BY <2>4, SocketChange
    <2>6. pico_tcp_output(s, score) = OutputLoop(Becomes(s, u), una, score)
      <3>1. [s EXCEPT !.t.timer = TRUE] = Becomes(s, u)
        BY <1>0 DEF Becomes, Steps, Senders
      <3> QED BY <3>1, <1>2 DEF pico_tcp_output
    <2> HIDE DEF u, una
    <2> QED BY <2>3, <2>5, <2>6, OutputLoopKeeps
  <1> QED BY <1>1, <1>2

\* Congestion control leaves tcpq_out alone.
LEMMA CongestionControl ==
    ASSUME NEW t \in Senders
    PROVE  tcp_congestion_control(t) \in Senders /\ tcp_congestion_control(t).outq = t.outq
  <1>1. t.cwnd \in Nat \ {0} /\ t.cwnd_counter \in Nat
    BY DEF Senders
  <1> DEFINE g == Grow(t.cwnd)
             c == t.cwnd_counter + 1
  <1>2. g \in Nat \ {0} /\ c \in Nat
    BY <1>1 DEF Grow
  <1> DEFINE r1 == [t EXCEPT !.cwnd = g]
             r2 == [t EXCEPT !.cwnd = g, !.cwnd_counter = 0]
             r3 == [t EXCEPT !.cwnd_counter = c]
  <1>3. tcp_congestion_control(t) \in {t, r1, r2, r3}
    BY DEF tcp_congestion_control
  <1> HIDE DEF g, c
  <1>4. r1 \in Senders /\ r1.outq = t.outq
    BY <1>2 DEF Senders
  <1>5. r2 \in Senders /\ r2.outq = t.outq
    BY <1>2 DEF Senders
  <1>6. r3 \in Senders /\ r3.outq = t.outq
    BY <1>2 DEF Senders
  <1> HIDE DEF r1, r2, r3
  <1> QED BY <1>3, <1>4, <1>5, <1>6

\* The end of tcp_ack.
LEMMA AckEndsKeeps ==
    ASSUME NEW n \in 0 .. Total, NEW q, NEW s, Keeps(s, q, n), NEW m, m.ack \in SeqNumbers
    PROVE  Keeps(AckEnds(m, s), q, n)
  <1>0. s \in Steps /\ s.t \in Senders
    BY DEF Keeps, Steps
  <1> DEFINE t == tcp_congestion_control(s.t)
             c == [s EXCEPT !.t = t]
             score == t.cwnd - t.in_flight
             goes == t.x_mode = LOOKAHEAD /\ t.cwnd >= t.in_flight /\ t.snd_nxt > t.snd_last_out
             out == IF goes THEN pico_tcp_output(c, score) ELSE c
  <1>1. t \in Senders /\ t.outq = s.t.outq
    BY <1>0, CongestionControl
  <1>2. AckEnds(m, s) = [out EXCEPT !.t.snd_old_ack = m.ack]
    BY DEF AckEnds
  <1> HIDE DEF t
  <1>3. c = Becomes(s, t)
    BY DEF Becomes
  <1>4. Keeps(c, q, n)
    <2> HIDE DEF c
    <2> QED BY <1>1, <1>3, SocketChange
  <1>5. score \in Int
    BY <1>1 DEF Senders
  <1>6. Keeps(out, q, n)
    <2> HIDE DEF c, score
    <2>1. Keeps(pico_tcp_output(c, score), q, n)
      BY <1>4, <1>5, OutputKeeps
    <2> QED BY <2>1, <1>4
  <1> HIDE DEF out
  <1>7. out \in Steps /\ out.t \in Senders
    BY <1>6 DEF Keeps, Steps
  <1> DEFINE u == [out.t EXCEPT !.snd_old_ack = m.ack]
  <1>8. u \in Senders /\ u.outq = out.t.outq
    BY <1>7 DEF Senders
  <1>9. AckEnds(m, s) = Becomes(out, u)
    BY <1>2, <1>7 DEF Becomes, Steps, Senders
  <1> HIDE DEF u
  <1> QED BY <1>6, <1>8, <1>9, SocketChange

\* The third duplicate ack leaves tcpq_out alone.
LEMMA EnterRecoverType ==
    ASSUME NEW n \in 0 .. Total, NEW t \in Senders, \A x \in t.outq : IsSeg(x, n), t.outq # {}
    PROVE  EnterRecover(t) \in Senders /\ EnterRecover(t).outq = t.outq
  <1> DEFINE cwnd == IF t.in_flight > PICO_TCP_IW THEN t.in_flight ELSE PICO_TCP_IW
             half == IF t.ssthresh > cwnd THEN t.ssthresh \div 4 ELSE cwnd \div 2
             a == first_segment(t.outq).seq
             h == IF half < 2 THEN 2 ELSE half
  <1>1. first_segment(t.outq) \in t.outq
    BY FirstSegment
  <1>2. a \in SeqNumbers
    BY <1>1 DEF IsSeg, Segments
  <1>3. t.in_flight \in Nat /\ t.ssthresh \in Nat
    BY DEF Senders
  <1>4. cwnd \in Nat \ {0}
    BY <1>3 DEF PICO_TCP_IW
  <1>5. half \in Nat
    <2> HIDE DEF cwnd
    <2> QED BY <1>3, <1>4
  <1>6. h \in Nat
    <2> HIDE DEF half
    <2> QED BY <1>5
  <1>7. EnterRecover(t) = [t EXCEPT !.x_mode = RECOVER, !.cwnd = cwnd, !.snd_retry = a, !.ssthresh = h]
    BY DEF EnterRecover
  <1>8. RECOVER \in 0 .. 6
    BY DEF RECOVER
  <1> HIDE DEF cwnd, h, a
  <1> QED BY <1>2, <1>4, <1>6, <1>7, <1>8 DEF Senders

\* A duplicate ack in RECOVER: one segment is sent again.
LEMMA RecoverKeeps ==
    ASSUME NEW n \in 0 .. Total, NEW t \in Senders, \A x \in t.outq : IsSeg(x, n),
           NEW nxt \in SeqNumbers
    PROVE  Keeps(Recover(t, nxt), t.outq, n)
  <1> DEFINE again == peek_segment(t.outq, t.snd_retry)
             f == CHOOSE x \in again : TRUE
             i == t.in_flight + 1
             t1 == [t EXCEPT !.snd_retry = nxt]
             t2 == [t EXCEPT !.snd_retry = nxt, !.in_flight = i, !.snd_last_out = f.seq]
             s3 == [Step(t2) EXCEPT !.sent = <<f>>]
             s == IF t.in_flight > t.cwnd THEN Step(t)
                  ELSE IF again = {} THEN Step(t1) ELSE s3
             c == IF s.t.cwnd - 1 < 2 THEN 2 ELSE s.t.cwnd - 1
             d == s.t.cwnd
  <1>1. Keeps(Step(t), t.outq, n)
    BY StepKeeps
  <1>2. i \in Nat
    BY DEF Senders
  <1>3. t1 \in Senders /\ t1.outq = t.outq
    BY DEF Senders
  <1>4. Keeps(Step(t1), t.outq, n)
    <2> HIDE DEF t1
    <2> QED BY <1>3, StepKeeps
  <1>5. ASSUME again # {} PROVE Keeps(s3, t.outq, n)
    <2>1. f \in t.outq
      BY <1>5 DEF peek_segment
    <2>2. IsFrame(f, n) /\ f \in Segments /\ f.seq \in SeqNumbers
      BY <2>1 DEF IsFrame, IsSeg, Segments
    <2> HIDE DEF f, i
    <2>3. t2 \in Senders /\ t2.outq = t.outq
      BY <1>2, <2>2 DEF Senders
    <2> HIDE DEF t2
    <2> QED BY <2>2, <2>3, OneSent
  <1>6. Keeps(s, t.outq, n)
    BY <1>1, <1>4, <1>5
  <1>7. Recover(t, nxt) =
          IF t.cwnd_counter = 0 THEN [s EXCEPT !.t.cwnd_counter = 1]
          ELSE [s EXCEPT !.t.cwnd_counter = 0, !.t.cwnd = IF @ - 1 < 2 THEN 2 ELSE @ - 1]
    BY DEF Recover
  <1> HIDE DEF s
  <1>8. s \in Steps /\ s.t \in Senders
    BY <1>6 DEF Keeps, Steps
  <1>9. c \in Nat \ {0}
    BY <1>8 DEF Senders
  <1> DEFINE u1 == [s.t EXCEPT !.cwnd_counter = 1]
             u2 == [s.t EXCEPT !.cwnd_counter = 0, !.cwnd = c]
  <1>10. u1 \in Senders /\ u1.outq = s.t.outq
    BY <1>8 DEF Senders
  <1>11. u2 \in Senders /\ u2.outq = s.t.outq
    <2> HIDE DEF c
    <2> QED BY <1>8, <1>9 DEF Senders
  <1>12. [s EXCEPT !.t.cwnd_counter = 1] = Becomes(s, u1)
    BY <1>8 DEF Becomes, Steps, Senders
  <1>13. [s EXCEPT !.t.cwnd_counter = 0, !.t.cwnd = IF @ - 1 < 2 THEN 2 ELSE @ - 1] = Becomes(s, u2)
    BY <1>8 DEF Becomes, Steps, Senders
  <1>14. Keeps(Becomes(s, u1), t.outq, n)
    <2> HIDE DEF u1
    <2> QED BY <1>6, <1>10, SocketChange
  <1>15. Keeps(Becomes(s, u2), t.outq, n)
    <2> HIDE DEF u2
    <2> QED BY <1>6, <1>11, SocketChange
  <1> HIDE DEF u1, u2
  <1> QED BY <1>7, <1>12, <1>13, <1>14, <1>15

\* snd_retry moves to a sequence number.
LEMMA RetryNextType ==
    ASSUME NEW n \in 0 .. Total, NEW t \in Senders, \A x \in t.outq : IsSeg(x, n), t.outq # {}
    PROVE  RetryNext(t) \subseteq SeqNumbers
  <1>1. first_segment(t.outq) \in t.outq
    BY FirstSegment
  <1> QED BY <1>1 DEF RetryNext, IsSeg, Segments

\* An interval of numbers has as many as it should.
LEMMA UpToFinite ==
    ASSUME NEW n \in Nat
    PROVE  IsFiniteSet(0 .. n) /\ IsFiniteSet(1 .. n) /\ Cardinality(1 .. n) = n
  <1>1. n \in Int /\ 0 \in Int /\ 1 \in Int
    OBVIOUS
  <1>2. IsFiniteSet(0 .. n)
    BY <1>1, FS_Interval
  <1>3. IsFiniteSet(1 .. n) /\ Cardinality(1 .. n) = IF 1 > n THEN 0 ELSE n - 1 + 1
    BY <1>1, FS_Interval
  <1>4. (IF 1 > n THEN 0 ELSE n - 1 + 1) = n
    OBVIOUS
  <1> QED BY <1>2, <1>3, <1>4

\* A queue of segments is finite.
LEMMA QueueFinite ==
    ASSUME NEW n \in 0 .. Total, NEW q, \A x \in q : IsSeg(x, n)
    PROVE  IsFiniteSet(q)
  <1> DEFINE I == 0 .. Total
             f == [x \in q |-> <<x.at, x.len>>]
  <1>1. IsFiniteSet(I)
    BY FS_Interval, Constants
  <1>2. IsFiniteSet(I \X I)
    <2> HIDE DEF I
    <2> QED BY <1>1, FS_Product
  <1>3. \A x \in q : x.at \in I /\ x.len \in I
    BY Constants DEF IsSeg, Segments
  <1>4. \A x, y \in q : x.at = y.at /\ x.len = y.len => x = y
    <2> SUFFICES ASSUME NEW x \in q, NEW y \in q, x.at = y.at, x.len = y.len PROVE x = y
      OBVIOUS
    <2>1. x.seq = y.seq /\ x \in Segments /\ y \in Segments
      BY DEF IsSeg
    <2> QED BY <2>1 DEF Segments
  <1>5. f \in Injection(q, I \X I)
    <2>1. f \in [q -> I \X I]
      BY <1>3
    <2>2. \A x, y \in q : f[x] = f[y] => x = y
      BY <1>4
    <2> HIDE DEF f
    <2> QED BY <2>1, <2>2 DEF Injection, IsInjective
  <1> HIDE DEF f
  <1> QED BY <1>2, <1>5, FS_Injection

-----------------------------------------------------------------------------
\* The inductive invariant.

\* Whatever the sender keeps, has sent or may send again is part of the stream.
SenderInv ==
    /\ \A x \in tx.outq : IsSeg(x, pushed)
    /\ \A i \in 1 .. Len(tcp_out) : IsFrame(tcp_out[i], pushed)
    /\ \A f \in frames : IsFrame(f, pushed)

\* What the application has read is the stream up to rcv_processed.
ReceiverInv ==
    /\ \A x \in rx.inq : IsSeg(x, pushed)
    /\ Len(got) <= pushed /\ rx.rcv_processed = SeqOf(Len(got))
    /\ StreamExact /\ SizeExact

\* An ack is never ahead of rcv_nxt.
AckInv ==
    /\ Received \in 0 .. pushed /\ rx.rcv_nxt = SeqOf(Received)
    /\ \A m \in acks : \E a \in 0 .. Received : m.ack = SeqOf(a)

\* Retained, in terms of the positions held.
RetainedInv == \A p \in Nat : Received <= p /\ p < pushed => p \in shed \/ p \in Held(tx.outq)

TcpInv == TypeOK /\ SenderInv /\ ReceiverInv /\ AckInv /\ RetainedInv

LEMMA RetainedHolds == ASSUME TcpInv PROVE Retained
  <1> SUFFICES ASSUME NEW p \in Received .. pushed - 1
               PROVE  p \in shed \/ \E x \in tx.outq : p \in x.at .. (x.at + x.len - 1)
    BY DEF Retained
  <1>1. Received \in Nat /\ pushed \in Nat
    BY Constants DEF TcpInv, AckInv, TypeOK
  <1>2. p \in Nat /\ Received <= p /\ p < pushed
    BY <1>1
  <1>3. p \in shed \/ p \in Held(tx.outq)
    BY <1>2 DEF TcpInv, RetainedInv
  <1>4. ASSUME p \in Held(tx.outq) PROVE \E x \in tx.outq : p \in x.at .. (x.at + x.len - 1)
    <2>1. PICK x \in tx.outq : x.at <= p /\ p < x.at + x.len
      BY <1>4 DEF Held
    <2>2. x.at \in Nat /\ x.len \in Nat
      BY DEF TcpInv, SenderInv, IsSeg, Segments
    <2>3. p \in x.at .. (x.at + x.len - 1)
      BY <1>2, <2>1, <2>2
    <2> QED BY <2>3
  <1> QED BY <1>3, <1>4

\* What holds of the sender after a step it takes.
LEMMA TakeKeeps ==
    ASSUME TcpInv, NEW s, NEW q, Keeps(s, q, pushed), Take(s), UNCHANGED pushed
    PROVE  /\ tx' \in Senders /\ \A x \in tx'.outq : IsSeg(x, pushed')
           /\ tcp_out' \in Seq(Segments)
           /\ \A i \in 1 .. Len(tcp_out') : IsFrame(tcp_out'[i], pushed')
           /\ shed' \subseteq Nat /\ overrun' \in BOOLEAN
           /\ shed \subseteq shed' /\ \A p \in Held(q) : p \in shed' \/ p \in Held(tx'.outq)
  <1>1. tx' = s.t /\ tcp_out' = tcp_out \o s.sent /\ shed' = shed \union s.shed
        /\ overrun' = (overrun \/ s.overrun) /\ pushed' = pushed
    BY DEF Take
  <1>2. s.t \in Senders /\ s.sent \in Seq(Segments) /\ s.shed \in SUBSET Nat
    BY DEF Keeps, Steps
  <1>3. tcp_out \in Seq(Segments) /\ shed \subseteq Nat
    BY DEF TcpInv, TypeOK
  <1>4. tcp_out' \in Seq(Segments) /\ Len(tcp_out') = Len(tcp_out) + Len(s.sent)
    BY <1>1, <1>2, <1>3
  <1>5. ASSUME NEW i \in 1 .. Len(tcp_out') PROVE IsFrame(tcp_out'[i], pushed')
    <2>1. Len(tcp_out) \in Nat /\ Len(s.sent) \in Nat
      BY <1>2, <1>3
    <2>2. CASE i <= Len(tcp_out)
      <3>1. i \in 1 .. Len(tcp_out)
        BY <2>1, <2>2, <1>4
      <3>2. tcp_out'[i] = tcp_out[i]
        BY <3>1, <1>1, <1>2, <1>3
      <3>3. IsFrame(tcp_out[i], pushed)
        BY <3>1 DEF TcpInv, SenderInv
      <3> QED BY <3>2, <3>3, <1>1
    <2>3. CASE ~(i <= Len(tcp_out))
      <3>1. i - Len(tcp_out) \in 1 .. Len(s.sent)
        BY <2>1, <2>3, <1>4
      <3>2. tcp_out'[i] = s.sent[i - Len(tcp_out)]
        BY <3>1, <2>1, <2>3, <1>1, <1>2, <1>3, <1>4
      <3>3. IsFrame(s.sent[i - Len(tcp_out)], pushed)
        BY <3>1 DEF Keeps
      <3> QED BY <3>2, <3>3, <1>1
    <2> QED BY <2>2, <2>3
  <1>6. overrun' \in BOOLEAN
    BY <1>1
  <1>7. \A x \in tx'.outq : IsSeg(x, pushed')
    BY <1>1 DEF Keeps
  <1>8. \A p \in Held(q) : p \in shed' \/ p \in Held(tx'.outq)
    BY <1>1 DEF Keeps
  <1> QED BY <1>1, <1>2, <1>3, <1>4, <1>5, <1>6, <1>7, <1>8

-----------------------------------------------------------------------------
\* The actions of the sender.

\* A step of the sender that keeps what the peer lacks keeps the invariant.
LEMMA SenderStep ==
    ASSUME TcpInv, NEW s, NEW q, Keeps(s, q, pushed), Take(s),
           UNCHANGED <<pushed, rx, got, frames>>, acks' \subseteq acks,
           \A p \in Nat : Received <= p /\ p < pushed /\ p \in Held(tx.outq) => p \in Held(q)
    PROVE  TcpInv'
  <1>0. pushed' = pushed /\ rx' = rx /\ got' = got /\ frames' = frames
    OBVIOUS
  <1>1. /\ tx' \in Senders /\ \A x \in tx'.outq : IsSeg(x, pushed')
        /\ tcp_out' \in Seq(Segments)
        /\ \A i \in 1 .. Len(tcp_out') : IsFrame(tcp_out'[i], pushed')
        /\ shed' \subseteq Nat /\ overrun' \in BOOLEAN
        /\ shed \subseteq shed' /\ \A p \in Held(q) : p \in shed' \/ p \in Held(tx'.outq)
    BY <1>0, TakeKeeps
  <1>2. Received' = Received
    BY <1>0 DEF Received
  <1>3. TypeOK'
    BY <1>0, <1>1 DEF TcpInv, TypeOK
  <1>4. SenderInv'
    BY <1>0, <1>1 DEF TcpInv, SenderInv
  <1>5. ReceiverInv'
    BY <1>0 DEF TcpInv, ReceiverInv, StreamExact, SizeExact
  <1>6. AckInv'
    BY <1>0, <1>2 DEF TcpInv, AckInv
  <1>7. RetainedInv'
    <2> SUFFICES ASSUME NEW p \in Nat, Received <= p, p < pushed
                 PROVE  p \in shed' \/ p \in Held(tx'.outq)
      BY <1>0, <1>2 DEF RetainedInv
    <2>1. p \in shed \/ p \in Held(tx.outq)
      BY DEF TcpInv, RetainedInv
    <2> QED BY <2>1, <1>1
  <1> QED BY <1>3, <1>4, <1>5, <1>6, <1>7 DEF TcpInv

\* The socket before the step.
LEMMA SenderFacts ==
    ASSUME TcpInv
    PROVE  /\ pushed \in 0 .. Total /\ tx \in Senders /\ tx.outq \in SUBSET Segments
           /\ \A x \in tx.outq : IsSeg(x, pushed)
           /\ tx.snd_nxt \in SeqNumbers /\ tx.in_flight \in Nat
  BY DEF TcpInv, TypeOK, SenderInv, Senders

LEMMA SocketsLoopInv == ASSUME TcpInv, SocketsLoop PROVE TcpInv'
  <1>1. PICK score \in 1 .. Burst : Take(pico_tcp_output(Step(tx), score))
    BY DEF SocketsLoop
  <1>2. /\ pushed \in 0 .. Total /\ tx \in Senders
        /\ \A x \in tx.outq : IsSeg(x, pushed)
    BY SenderFacts
  <1>3. Keeps(Step(tx), tx.outq, pushed)
    BY <1>2, StepKeeps
  <1>4. score \in Int
    BY TcpAssumption
  <1>5. Keeps(pico_tcp_output(Step(tx), score), tx.outq, pushed)
    BY <1>2, <1>3, <1>4, OutputKeeps
  <1>6. UNCHANGED <<pushed, rx, got, frames>> /\ acks' \subseteq acks
    BY DEF SocketsLoop
  <1> QED BY <1>1, <1>5, <1>6, SenderStep

LEMMA TimeoutInv == ASSUME TcpInv, tcp_retrans_timeout PROVE TcpInv'
  <1>1. /\ pushed \in 0 .. Total /\ tx \in Senders /\ tx.snd_nxt \in SeqNumbers
        /\ \A x \in tx.outq : IsSeg(x, pushed)
    BY SenderFacts
  <1>2. UNCHANGED <<pushed, rx, got, frames>> /\ acks' \subseteq acks
    BY DEF tcp_retrans_timeout
  <1>3. SUFFICES \E s : Keeps(s, tx.outq, pushed) /\ Take(s)
    BY <1>2, SenderStep
  <1>4. CASE tx.outq = {}
    <2> DEFINE u == [tx EXCEPT !.timer = FALSE]
    <2>1. u \in Senders /\ u.outq = tx.outq
      BY <1>1 DEF Senders
    <2>2. Take(Step(u))
      BY <1>4 DEF tcp_retrans_timeout
    <2> HIDE DEF u
    <2>3. Keeps(Step(u), tx.outq, pushed)
      BY <1>1, <2>1, StepKeeps
    <2> QED BY <2>2, <2>3
  <1>5. CASE tx.outq # {} /\ tx.x_mode = WINDOW_FULL
    <2> DEFINE p == Probe
    <2>1. Take([Step(tx) EXCEPT !.sent = <<p>>])
      BY <1>5 DEF tcp_retrans_timeout
    <2>2. Plus(tx.snd_nxt, SeqMod - 1) \in SeqNumbers
      <3>1. tx.snd_nxt \in Int /\ SeqMod - 1 \in Int
        BY <1>1, Constants DEF SeqNumbers
      <3> QED BY <3>1, PlusType
    <2>3. IsFrame(p, pushed)
      BY <2>2 DEF Probe, IsFrame, Segments
    <2> HIDE DEF p
    <2>4. Keeps([Step(tx) EXCEPT !.sent = <<p>>], tx.outq, pushed)
      BY <1>1, <2>3, OneSent
    <2> QED BY <2>1, <2>4
  <1>6. CASE tx.outq # {} /\ tx.x_mode # WINDOW_FULL
    <2> DEFINE f == first_segment(tx.outq)
               b == IF tx.x_mode = BLACKOUT THEN tx
                    ELSE [tx EXCEPT !.x_mode = BLACKOUT, !.cwnd = PICO_TCP_IW, !.in_flight = 0]
               u == [b EXCEPT !.snd_last_out = f.seq]
    <2>1. Take([Step(u) EXCEPT !.sent = <<f>>])
      BY <1>6 DEF tcp_retrans_timeout
    <2>2. f \in tx.outq
      BY <1>1, <1>6, FirstSegment
    <2>3. IsFrame(f, pushed) /\ f.seq \in SeqNumbers
      BY <1>1, <2>2 DEF IsFrame, IsSeg, Segments
    <2>4. b \in Senders /\ b.outq = tx.outq
      <3>1. BLACKOUT \in 0 .. 6 /\ PICO_TCP_IW \in Nat \ {0}
        BY DEF BLACKOUT, PICO_TCP_IW
      <3> DEFINE d == [tx EXCEPT !.x_mode = BLACKOUT, !.cwnd = PICO_TCP_IW, !.in_flight = 0]
      <3>2. d \in Senders /\ d.outq = tx.outq
        BY <1>1, <3>1 DEF Senders
      <3> HIDE DEF d
      <3> QED BY <3>2, <1>1 DEF d
    <2> HIDE DEF b, f
    <2>5. u \in Senders /\ u.outq = tx.outq
      BY <2>3, <2>4 DEF Senders
    <2> HIDE DEF u
    <2>6. Keeps([Step(u) EXCEPT !.sent = <<f>>], u.outq, pushed)
      BY <1>1, <2>3, <2>5, OneSent
    <2> QED BY <2>1, <2>5, <2>6
  <1> QED BY <1>4, <1>5, <1>6

\* A segment stays one when the stream grows.
LEMMA FrameGrows ==
    ASSUME NEW n \in Nat, NEW k \in Nat, n <= k, NEW x
    PROVE  (IsSeg(x, n) => IsSeg(x, k)) /\ (IsFrame(x, n) => IsFrame(x, k))
  BY DEF IsSeg, IsFrame, Segments

LEMMA PushInv == ASSUME TcpInv, pico_tcp_push PROVE TcpInv'
  <1>1. PICK n \in Writes : /\ pushed + n <= Total /\ pushed' = pushed + n
                            /\ tx' = [tx EXCEPT !.outq = @ \union {Segment(pushed, n)}]
    BY DEF pico_tcp_push
  <1>2. UNCHANGED <<tcp_out, rx, got, frames, acks, shed, overrun>>
    BY DEF pico_tcp_push
  <1>3. /\ pushed \in 0 .. Total /\ tx \in Senders /\ tx.outq \in SUBSET Segments
        /\ \A x \in tx.outq : IsSeg(x, pushed)
    BY SenderFacts
  <1>4. n \in Nat /\ n > 0 /\ pushed \in Nat /\ pushed' \in Nat /\ pushed <= pushed' /\ pushed' <= Total
    BY <1>1, <1>3, Constants
  <1> DEFINE g == Segment(pushed, n)
  <1>5. IsSeg(g, pushed') /\ g.at = pushed /\ g.len = n
    <2>1. SeqOf(pushed) \in SeqNumbers
      BY <1>3, SeqOfValue
    <2>2. g.seq = SeqOf(pushed) /\ g.at = pushed /\ g.len = n /\ g \in Segments
      BY <1>4, <2>1 DEF Segment, Segments
    <2> QED BY <2>2, <1>1, <1>4 DEF IsSeg
  <1>6. g \in Segments
    BY <1>5 DEF IsSeg
  <1> DEFINE o == tx.outq \union {g}
  <1>7. o \in SUBSET Segments
    BY <1>3, <1>6
  <1>8. tx' \in Senders /\ tx'.outq = o
    <2>1. tx' = [tx EXCEPT !.outq = o]
      BY <1>1
    <2> HIDE DEF o
    <2> QED BY <2>1, <1>3, <1>7 DEF Senders
  <1> HIDE DEF g
  <1>9. \A x : (IsSeg(x, pushed) => IsSeg(x, pushed')) /\ (IsFrame(x, pushed) => IsFrame(x, pushed'))
    BY <1>4, FrameGrows
  <1>10. Received' = Received
    BY <1>2 DEF Received
  <1>11. TypeOK'
    BY <1>2, <1>4, <1>8, Constants DEF TcpInv, TypeOK
  <1>12. SenderInv'
    BY <1>2, <1>5, <1>8, <1>9 DEF TcpInv, SenderInv
  <1>13. ReceiverInv'
    <2>1. Len(got) \in Nat /\ Len(got) <= pushed
      BY DEF TcpInv, ReceiverInv, TypeOK
    <2>2. Len(got) <= pushed'
      BY <2>1, <1>4
    <2> QED BY <2>2, <1>2, <1>9 DEF TcpInv, ReceiverInv, StreamExact, SizeExact
  <1>14. AckInv'
    <2>1. Received \in 0 .. pushed'
      BY <1>4 DEF TcpInv, AckInv
    <2> QED BY <2>1, <1>2, <1>10 DEF TcpInv, AckInv
  <1>15. RetainedInv'
    <2> SUFFICES ASSUME NEW p \in Nat, Received <= p, p < pushed'
                 PROVE  p \in shed \/ p \in Held(tx'.outq)
      BY <1>2, <1>10 DEF RetainedInv
    <2>1. CASE p < pushed
      <3>1. p \in shed \/ p \in Held(tx.outq)
        BY <2>1 DEF TcpInv, RetainedInv
      <3>2. Held(tx.outq) \subseteq Held(tx'.outq)
        BY <1>8 DEF Held
      <3> QED BY <3>1, <3>2
    <2>2. CASE ~(p < pushed)
      <3>1. g.at <= p /\ p < g.at + g.len
        BY <2>2, <1>1, <1>4, <1>5
      <3>2. g \in tx'.outq
        BY <1>8
      <3> QED BY <3>1, <3>2 DEF Held
    <2> QED BY <2>1, <2>2
  <1> QED BY <1>11, <1>12, <1>13, <1>14, <1>15 DEF TcpInv

LEMMA ProcessOutInv == ASSUME TcpInv, pico_tcp_process_out PROVE TcpInv'
  <1> DEFINE f == Head(tcp_out)
             a == IF f.len > 0 /\ pico_seq_compare(End(f), tx.snd_nxt) > 0 THEN End(f) ELSE tx.snd_nxt
  <1>1. /\ tcp_out # <<>> /\ tx' = [tx EXCEPT !.snd_nxt = a]
        /\ frames' \in Carry(frames, f, MaxFrames) /\ tcp_out' = Tail(tcp_out)
        /\ UNCHANGED <<pushed, rx, got, acks, shed, overrun>>
    BY DEF pico_tcp_process_out
  <1>2. /\ pushed \in 0 .. Total /\ tx \in Senders /\ tx.snd_nxt \in SeqNumbers
        /\ \A x \in tx.outq : IsSeg(x, pushed)
    BY SenderFacts
  <1>3. tcp_out \in Seq(Segments) /\ frames \subseteq Segments
    BY DEF TcpInv, TypeOK
  <1>4. 1 \in 1 .. Len(tcp_out) /\ f = tcp_out[1]
    BY <1>1, <1>3
  <1>5. IsFrame(f, pushed)
    BY <1>4 DEF TcpInv, SenderInv
  <1>6. a \in SeqNumbers
    <2>1. f.len > 0 => End(f) \in SeqNumbers
      BY <1>2, <1>5, EndOf DEF IsFrame
    <2> QED BY <2>1, <1>2
  <1>7. tx' \in Senders /\ tx'.outq = tx.outq
    <2> HIDE DEF a
    <2> QED BY <1>1, <1>2, <1>6 DEF Senders
  <1>8. frames' \subseteq frames \union {f}
    BY <1>1 DEF Carry
  <1>9. /\ tcp_out' \in Seq(Segments) /\ Len(tcp_out') = Len(tcp_out) - 1
        /\ \A i \in 1 .. Len(tcp_out') : i + 1 \in 1 .. Len(tcp_out) /\ tcp_out'[i] = tcp_out[i + 1]
    BY <1>1, <1>3
  <1> HIDE DEF f
  <1>10. Received' = Received
    BY <1>1 DEF Received
  <1>11. TypeOK'
    BY <1>1, <1>3, <1>5, <1>7, <1>8, <1>9 DEF TcpInv, TypeOK, IsFrame
  <1>12. SenderInv'
    <2>1. \A x \in tx'.outq : IsSeg(x, pushed')
      BY <1>1, <1>2, <1>7
    <2>2. \A i \in 1 .. Len(tcp_out') : IsFrame(tcp_out'[i], pushed')
      BY <1>1, <1>9 DEF TcpInv, SenderInv
    <2>3. \A x \in frames' : IsFrame(x, pushed')
      BY <1>1, <1>5, <1>8 DEF TcpInv, SenderInv
    <2> QED BY <2>1, <2>2, <2>3 DEF SenderInv
  <1>13. ReceiverInv'
    BY <1>1 DEF TcpInv, ReceiverInv, StreamExact, SizeExact
  <1>14. AckInv'
    BY <1>1, <1>10 DEF TcpInv, AckInv
  <1>15. RetainedInv'
    BY <1>1, <1>7, <1>10 DEF TcpInv, RetainedInv
  <1> QED BY <1>11, <1>12, <1>13, <1>14, <1>15 DEF TcpInv

\* What an ack does first: the segments it covers leave tcpq_out.
LEMMA AckBeginsType ==
    ASSUME TcpInv, NEW m \in acks, NEW acked \in SUBSET tx.outq, NEW sacked \in {0, 1},
           sacked = 1 => tx.in_flight > 0
    PROVE  /\ AckBegins(m, acked, sacked) \in Senders
           /\ AckBegins(m, acked, sacked).outq = tx.outq \ acked
  <1>1. /\ pushed \in 0 .. Total /\ tx \in Senders /\ tx.outq \in SUBSET Segments
        /\ \A x \in tx.outq : IsSeg(x, pushed)
        /\ tx.snd_nxt \in SeqNumbers /\ tx.in_flight \in Nat
    BY SenderFacts
  <1>2. m.wnd \in 0 .. InMax
    BY DEF TcpInv, TypeOK
  <1> DEFINE rest == tx.outq \ acked
             awake == tx.x_mode = BLACKOUT \/ (tx.x_mode = WINDOW_FULL /\ m.wnd > Mss)
             back == tx.x_mode = BLACKOUT /\ acked # {} /\ rest # {}
             flying == tx.in_flight - sacked
             n == Cardinality(acked)
             a == IF back THEN first_segment(rest).seq ELSE tx.snd_nxt
             x == IF awake \/ rest = {} \/ acked # {} THEN LOOKAHEAD ELSE tx.x_mode
             i == IF acked = {} THEN (IF flying > 0 THEN flying - 1 ELSE 0)
                  ELSE (IF n > flying THEN 0 ELSE flying - n)
  <1>3. AckBegins(m, acked, sacked) =
          [tx EXCEPT !.outq = rest, !.recv_wnd = m.wnd, !.timer = TRUE, !.snd_nxt = a,
                     !.x_mode = x, !.in_flight = i]
    BY DEF AckBegins
  <1>4. n \in Nat
    <2>1. IsFiniteSet(tx.outq)
      BY <1>1, QueueFinite
    <2>2. IsFiniteSet(acked)
      BY <2>1, FS_Subset
    <2> QED BY <2>2, FS_CardinalityType
  <1>5. flying \in Nat
    BY <1>1
  <1>6. i \in Nat
    <2> HIDE DEF n, flying
    <2> QED BY <1>4, <1>5
  <1>7. a \in SeqNumbers
    <2>1. CASE back
      <3>1. first_segment(rest) \in rest
        BY <1>1, <2>1, FirstSegment
      <3>2. first_segment(rest).seq \in SeqNumbers
        BY <1>1, <3>1 DEF IsSeg, Segments
      <3> QED BY <2>1, <3>2
    <2>2. CASE ~back
      BY <2>2, <1>1
    <2> QED BY <2>1, <2>2
  <1>8. x \in 0 .. 6
    BY <1>1 DEF Senders, LOOKAHEAD
  <1>9. rest \in SUBSET Segments
    BY <1>1
  <1> HIDE DEF rest, a, x, i
  <1>10. AckBegins(m, acked, sacked) \in Senders /\ AckBegins(m, acked, sacked).outq = rest
    <2> DEFINE w == m.wnd
               t == tx
               t1 == [t EXCEPT !.outq = rest, !.recv_wnd = w]
               t2 == [t1 EXCEPT !.timer = TRUE]
               t3 == [t2 EXCEPT !.snd_nxt = a, !.x_mode = x]
               t4 == [t3 EXCEPT !.in_flight = i]
    <2>1. t \in Senders /\ w \in 0 .. InMax
      BY <1>1, <1>2
    <2>2. AckBegins(m, acked, sacked) =
            [t EXCEPT !.outq = rest, !.recv_wnd = w, !.timer = TRUE, !.snd_nxt = a,
                      !.x_mode = x, !.in_flight = i]
      BY <1>3
    <2> HIDE DEF w, t
    <2>3. AckBegins(m, acked, sacked) = t4
      BY <2>1, <2>2 DEF Senders
    <2>4. t1 \in Senders /\ t1.outq = rest
      BY <2>1, <1>9 DEF Senders
    <2> HIDE DEF t1
    <2>5. t2 \in Senders /\ t2.outq = rest
      BY <2>4 DEF Senders
    <2> HIDE DEF t2
    <2>6. t3 \in Senders /\ t3.outq = rest
      BY <2>5, <1>7, <1>8 DEF Senders
    <2> HIDE DEF t3
    <2>7. t4 \in Senders /\ t4.outq = rest
      BY <2>6, <1>6 DEF Senders
    <2> QED BY <2>3, <2>7
  <1> QED BY <1>10 DEF rest

LEMMA AckAction == ASSUME TcpInv, NEW m \in acks, tcp_ack(m) PROVE TcpInv'
  <1> DEFINE acked == release_all_until(tx.outq, m.ack)
  <1>1. /\ pushed \in 0 .. Total /\ tx \in Senders /\ tx.in_flight \in Nat
        /\ \A x \in tx.outq : IsSeg(x, pushed)
    BY SenderFacts
  <1>2. UNCHANGED <<pushed, rx, got, frames>> /\ acks' \subseteq acks
    BY DEF tcp_ack, Left
  <1>3. m.ack \in SeqNumbers
    BY DEF TcpInv, TypeOK
  <1>4. acked \in SUBSET tx.outq
    BY DEF release_all_until
  <1> DEFINE rest == tx.outq \ acked
  <1>5. ASSUME NEW p \in Nat, Received <= p, p \in Held(tx.outq) PROVE p \in Held(rest)
    <2>1. PICK x \in tx.outq : x.at <= p /\ p < x.at + x.len
      BY <1>5 DEF Held
    <2>2. PICK a \in 0 .. Received : m.ack = SeqOf(a)
      BY DEF TcpInv, AckInv
    <2>3. Received \in 0 .. pushed
      BY DEF TcpInv, AckInv
    <2> DEFINE e == x.at + x.len
    <2>4. IsSeg(x, pushed)
      BY <1>1
    <2>5. e \in 0 .. Total /\ End(x) = SeqOf(e)
      BY <1>1, <2>4, EndOf
    <2>6. a \in 0 .. Total /\ a <= Received
      <3>1. Received \in Nat /\ Received <= Total
        BY <1>1, <2>3, Constants
      <3> HIDE DEF Received
      <3> QED BY <2>2, <3>1, Constants
    <2> HIDE DEF e
    <2>7. pico_seq_compare(End(x), m.ack) = e - a
      BY <2>2, <2>5, <2>6, CompareExact
    <2>8. p < e
      BY <2>1 DEF e
    <2>9. ~(e - a <= 0)
      BY <1>5, <2>3, <2>5, <2>6, <2>8
    <2>10. x \in rest
      BY <2>7, <2>9 DEF release_all_until
    <2> HIDE DEF rest
    <2> QED BY <2>1, <2>10 DEF Held
  <1> HIDE DEF acked
  <1>6. SUFFICES \E s : Keeps(s, rest, pushed) /\ Take(s)
    <2> HIDE DEF rest
    <2> QED BY <1>2, <1>5, <1>6, SenderStep
  <1>7. PICK sacked \in 0 .. (IF tx.x_mode > LOOKAHEAD /\ tx.in_flight > 0 THEN 1 ELSE 0) :
            LET t == AckBegins(m, acked, sacked)
                dup == /\ t.outq # {} /\ acked = {}
                       /\ t.snd_old_ack = m.ack /\ m.ack # t.snd_nxt
            IN  \/ ~dup /\ Take(AckEnds(m, Step(t)))
                \/ dup /\ t.x_mode > RECOVER /\ Take(AckEnds(m, Step(t)))
                \/ /\ dup /\ t.x_mode < RECOVER
                   /\ Take(AckEnds(m, Step(IF t.x_mode + 1 = RECOVER THEN EnterRecover(t)
                                           ELSE [t EXCEPT !.x_mode = @ + 1])))
                \/ /\ dup /\ t.x_mode = RECOVER
                   /\ \E nxt \in RetryNext(t) : Take(AckEnds(m, Recover(t, nxt)))
    BY DEF tcp_ack, acked
  <1>8. sacked \in {0, 1} /\ (sacked = 1 => tx.in_flight > 0)
    BY <1>1
  <1> DEFINE t == AckBegins(m, acked, sacked)
  <1>9. t \in Senders /\ t.outq = rest
    BY <1>4, <1>8, AckBeginsType
  <1> DEFINE r == IF t.x_mode + 1 = RECOVER THEN EnterRecover(t) ELSE [t EXCEPT !.x_mode = @ + 1]
  <1>10. \/ Take(AckEnds(m, Step(t)))
         \/ t.outq # {} /\ t.x_mode < RECOVER /\ Take(AckEnds(m, Step(r)))
         \/ t.outq # {} /\ \E nxt \in RetryNext(t) : Take(AckEnds(m, Recover(t, nxt)))
    BY <1>7
  <1> HIDE DEF t
  <1>11. \A x \in t.outq : IsSeg(x, pushed)
    BY <1>1, <1>9
  <1> HIDE DEF rest
  <1>12. CASE Take(AckEnds(m, Step(t)))
    <2>1. Keeps(Step(t), rest, pushed)
      BY <1>9, <1>11, StepKeeps
    <2>2. Keeps(AckEnds(m, Step(t)), rest, pushed)
      BY <2>1, <1>1, <1>3, AckEndsKeeps
    <2> QED BY <2>2, <1>12
  <1>13. CASE t.outq # {} /\ t.x_mode < RECOVER /\ Take(AckEnds(m, Step(r)))
    <2>1. r \in Senders /\ r.outq = t.outq
      <3>1. EnterRecover(t) \in Senders /\ EnterRecover(t).outq = t.outq
        BY <1>1, <1>9, <1>11, <1>13, EnterRecoverType
      <3> DEFINE d == t.x_mode + 1
                 v == [t EXCEPT !.x_mode = d]
      <3>2. d \in 0 .. 6
        BY <1>9, <1>13 DEF Senders, RECOVER
      <3>3. v \in Senders /\ v.outq = t.outq
        <4> HIDE DEF d
        <4> QED BY <1>9, <3>2 DEF Senders
      <3>4. r = EnterRecover(t) \/ r = v
        OBVIOUS
      <3> HIDE DEF v, r
      <3> QED BY <3>1, <3>3, <3>4
    <2> HIDE DEF r
    <2>2. Keeps(Step(r), rest, pushed)
      BY <2>1, <1>9, <1>11, StepKeeps
    <2>3. Keeps(AckEnds(m, Step(r)), rest, pushed)
      BY <2>2, <1>1, <1>3, AckEndsKeeps
    <2> QED BY <2>3, <1>13
  <1>14. CASE t.outq # {} /\ \E nxt \in RetryNext(t) : Take(AckEnds(m, Recover(t, nxt)))
    <2>1. PICK nxt \in RetryNext(t) : Take(AckEnds(m, Recover(t, nxt)))
      BY <1>14
    <2>2. nxt \in SeqNumbers
      BY <1>1, <1>9, <1>11, <1>14, RetryNextType
    <2>3. Keeps(Recover(t, nxt), rest, pushed)
      BY <2>2, <1>1, <1>9, <1>11, RecoverKeeps
    <2>4. Keeps(AckEnds(m, Recover(t, nxt)), rest, pushed)
      BY <2>3, <1>1, <1>3, AckEndsKeeps
    <2> QED BY <2>1, <2>4
  <1> QED BY <1>10, <1>12, <1>13, <1>14

-----------------------------------------------------------------------------
\* The loops of the receiver.

\* rcv_nxt moves forward from where a segment ends, and no further than the stream.
LEMMA ScrollPosition ==
    ASSUME NEW n \in 0 .. Total, NEW q, \A x \in q : IsSeg(x, n), NEW e \in 0 .. n
    PROVE  \E p \in e .. n : Scroll(q, SeqOf(e)) = SeqOf(p)
  <1> DEFINE S == {SeqOf(p) : p \in e .. n}
             s == SeqOf(e)
             m == Cardinality(q)
             f == [x \in S |-> ScrollTurn(q, x)]
             Rec(g) == g = [k \in 0 .. m |-> IF k = 0 THEN s ELSE ScrollTurn(q, g[k - 1])]
             nxt == CHOOSE g : Rec(g)
  <1>1. Scroll(q, s) = nxt[m]
    BY DEF Scroll
  <1>2. m \in Nat
    BY QueueFinite, FS_CardinalityType
  <1>3. \A x \in S : ScrollTurn(q, x) \in S
    <2> SUFFICES ASSUME NEW p \in e .. n PROVE ScrollTurn(q, SeqOf(p)) \in S
      OBVIOUS
    <2> DEFINE found == peek_segment(q, SeqOf(p))
               y == CHOOSE x \in found : TRUE
    <2>1. CASE found = {}
      BY <2>1 DEF ScrollTurn
    <2>2. CASE found # {}
      <3>1. y \in q /\ y.seq = SeqOf(p)
        BY <2>2 DEF peek_segment
      <3>2. ScrollTurn(q, SeqOf(p)) = End(y)
        BY <2>2 DEF ScrollTurn
      <3> HIDE DEF y
      <3>3. IsSeg(y, n)
        BY <3>1
      <3>4. y.at \in 0 .. Total /\ End(y) = SeqOf(y.at + y.len)
        BY <3>3, EndOf
      <3>5. p \in 0 .. Total
        BY Constants
      <3>6. y.at = p
        BY <3>1, <3>3, <3>4, <3>5, PositionOf DEF IsSeg
      <3>7. y.at + y.len \in e .. n
        BY <3>3, <3>6 DEF IsSeg, Segments
      <3> QED BY <3>2, <3>4, <3>7
    <2> QED BY <2>1, <2>2
  <1>4. s \in S
    OBVIOUS
  <1>5. \A x \in S : f[x] = ScrollTurn(q, x)
    OBVIOUS
  <1>6. \A x \in S : f[x] \in S
    BY <1>3, <1>5
  <1> HIDE DEF S, f, m, s
  <1>7. PICK g : Repeats(g, f, s, m) /\ \A k \in 0 .. m : g[k] \in S
    BY <1>2, <1>4, <1>6, RepeatExists
  <1>8. Rec(g)
    <2>1. ASSUME NEW k \in 0 .. m
          PROVE  g[k] = IF k = 0 THEN s ELSE ScrollTurn(q, g[k - 1])
      <3>1. k # 0 => k - 1 \in 0 .. m
        BY <1>2
      <3>2. g[k] = IF k = 0 THEN s ELSE f[g[k - 1]]
        BY <1>7 DEF Repeats
      <3> QED BY <3>1, <3>2, <1>7, <1>5
    <2>2. g = [k \in 0 .. m |-> g[k]]
      BY <1>7 DEF Repeats
    <2> QED BY <2>1, <2>2
  <1>9. Rec(nxt)
    BY <1>8
  <1> HIDE DEF nxt
  <1>10. \A k \in 0 .. m : nxt[k] \in S
    <2>1. nxt[0] \in S
      BY <1>2, <1>4, <1>9
    <2>2. ASSUME NEW k \in 1 .. m, nxt[k - 1] \in S PROVE nxt[k] \in S
      <3>1. nxt[k] = ScrollTurn(q, nxt[k - 1])
        BY <1>2, <1>9
      <3> QED BY <3>1, <2>2, <1>3
    <2> QED BY <2>1, <2>2, <1>2, RepeatKeeps
  <1>11. nxt[m] \in S
    BY <1>2, <1>10
  <1> QED BY <1>1, <1>11 DEF S, s

\* Releasing what is read only removes segments.
LEMMA ReleaseUntil ==
    ASSUME NEW n \in 0 .. Total, NEW q, \A x \in q : IsSeg(x, n), NEW s
    PROVE  release_until(q, s) \subseteq q
  <1> DEFINE S == [q : SUBSET q, head : SUBSET q]
             b == [q |-> q, head |-> First(q)]
             m == Cardinality(q)
             f == [x \in S |-> ReleaseTurn(x, s)]
             Rec(g) == g = [k \in 0 .. m |-> IF k = 0 THEN b ELSE ReleaseTurn(g[k - 1], s)]
             r == CHOOSE g : Rec(g)
  <1>1. release_until(q, s) = r[m].q
    BY DEF release_until
  <1>2. m \in Nat
    BY QueueFinite, FS_CardinalityType
  <1>3. \A x \in S : ReleaseTurn(x, s) \in S
    <2> SUFFICES ASSUME NEW x \in S PROVE ReleaseTurn(x, s) \in S
      OBVIOUS
    <2> DEFINE h == CHOOSE y \in x.head : TRUE
               u == [x EXCEPT !.head = {}]
               p == peek_segment(x.q, End(h))
               v == [q |-> x.q \ {h}, head |-> p]
    <2>1. ReleaseTurn(x, s) \in {x, u, v}
      BY DEF ReleaseTurn
    <2>2. u \in S
      OBVIOUS
    <2>3. p \in SUBSET q
      BY DEF peek_segment
    <2>4. v \in S
      <3> HIDE DEF p, h
      <3> QED BY <2>3
    <2> HIDE DEF u, v
    <2> QED BY <2>1, <2>2, <2>4
  <1>4. b \in S
    <2>1. First(q) \in SUBSET q
      BY DEF First
    <2> QED BY <2>1
  <1>5. \A x \in S : f[x] = ReleaseTurn(x, s)
    OBVIOUS
  <1>6. \A x \in S : f[x] \in S
    BY <1>3, <1>5
  <1> HIDE DEF S, f, m, b
  <1>7. PICK g : Repeats(g, f, b, m) /\ \A k \in 0 .. m : g[k] \in S
    BY <1>2, <1>4, <1>6, RepeatExists
  <1>8. Rec(g)
    <2>1. ASSUME NEW k \in 0 .. m
          PROVE  g[k] = IF k = 0 THEN b ELSE ReleaseTurn(g[k - 1], s)
      <3>1. k # 0 => k - 1 \in 0 .. m
        BY <1>2
      <3>2. g[k] = IF k = 0 THEN b ELSE f[g[k - 1]]
        BY <1>7 DEF Repeats
      <3> QED BY <3>1, <3>2, <1>7, <1>5
    <2>2. g = [k \in 0 .. m |-> g[k]]
      BY <1>7 DEF Repeats
    <2> QED BY <2>1, <2>2
  <1>9. Rec(r)
    BY <1>8
  <1> HIDE DEF r
  <1>10. \A k \in 0 .. m : r[k] \in S
    <2>1. r[0] \in S
      BY <1>2, <1>4, <1>9
    <2>2. ASSUME NEW k \in 1 .. m, r[k - 1] \in S PROVE r[k] \in S
      <3>1. r[k] = ReleaseTurn(r[k - 1], s)
        BY <1>2, <1>9
      <3> QED BY <3>1, <2>2, <1>3
    <2> QED BY <2>1, <2>2, <1>2, RepeatKeeps
  <1>11. r[m] \in S
    BY <1>2, <1>10
  <1> QED BY <1>1, <1>11 DEF S

\* A read that has begun at position d of a stream of n bytes, with the queue q.
Reads == [q : SUBSET Segments, done : SeqNumbers, out : Seq(Nat), fatal : BOOLEAN]

Reading(r, q, d, len, n) ==
    /\ r \in Reads /\ r.q \subseteq q
    /\ Len(r.out) <= len /\ d + Len(r.out) <= n /\ r.done = SeqOf(d + Len(r.out))
    /\ \A i \in 1 .. Len(r.out) : r.out[i] = d + i - 1

\* A sequence of positions from d on, and another one that goes on where it ends.
LEMMA Consecutive ==
    ASSUME NEW u \in Seq(Nat), NEW v \in Seq(Nat), NEW d \in Nat,
           \A i \in 1 .. Len(u) : u[i] = d + i - 1,
           \A i \in 1 .. Len(v) : v[i] = d + Len(u) + i - 1
    PROVE  /\ u \o v \in Seq(Nat) /\ Len(u \o v) = Len(u) + Len(v)
           /\ \A i \in 1 .. Len(u \o v) : (u \o v)[i] = d + i - 1
  <1> DEFINE w == u \o v
  <1>1. w \in Seq(Nat) /\ Len(w) = Len(u) + Len(v) /\ Len(u) \in Nat /\ Len(v) \in Nat
    OBVIOUS
  <1>2. \A i \in 1 .. Len(w) : w[i] = IF i <= Len(u) THEN u[i] ELSE v[i - Len(u)]
    OBVIOUS
  <1> HIDE DEF w
  <1>3. ASSUME NEW i \in 1 .. Len(w) PROVE w[i] = d + i - 1
    <2>1. CASE i <= Len(u)
      <3>1. i \in 1 .. Len(u)
        BY <1>1, <2>1
      <3> QED BY <1>2, <2>1, <3>1
    <2>2. CASE ~(i <= Len(u))
      <3> DEFINE k == i - Len(u)
      <3>1. k \in 1 .. Len(v) /\ w[i] = v[k]
        BY <1>1, <1>2, <2>2
      <3>2. v[k] = d + Len(u) + k - 1
        BY <3>1
      <3>3. d + Len(u) + k - 1 = d + i - 1
        BY <1>1
      <3> HIDE DEF k
      <3> QED BY <3>1, <3>2, <3>3
    <2> QED BY <2>1, <2>2
  <1> QED BY <1>1, <1>3 DEF w

\* One turn copies the bytes that come next, or nothing.
LEMMA ReadTurnKeeps ==
    ASSUME NEW n \in 0 .. Total, NEW q \in SUBSET Segments, \A x \in q : IsSeg(x, n),
           NEW d \in Nat, NEW len \in Nat, NEW r, Reading(r, q, d, len, n)
    PROVE  Reading(ReadTurn(r, len), q, d, len, n)
  <1> DEFINE o == release_until(r.q, r.done)
             f == first_segment(o)
             off == pico_seq_compare(r.done, f.seq)
             left == len - Len(r.out)
             c == IF f.len - off > left THEN left ELSE f.len - off
             b == Bytes(f, off, c)
             o2 == IF c \in {0, f.len} THEN o \ {f} ELSE o
             r1 == [r EXCEPT !.q = o]
             r2 == [r EXCEPT !.q = o, !.fatal = TRUE]
             r3 == [r EXCEPT !.q = o2, !.done = Plus(r.done, c), !.out = r.out \o b]
  <1>1. /\ r \in Reads /\ r.q \subseteq q /\ r.out \in Seq(Nat) /\ Len(r.out) \in Nat
        /\ r.q \in SUBSET Segments
    BY DEF Reading, Reads
  <1>2. /\ Len(r.out) <= len /\ d + Len(r.out) <= n /\ r.done = SeqOf(d + Len(r.out))
        /\ \A i \in 1 .. Len(r.out) : r.out[i] = d + i - 1
    BY DEF Reading
  <1>3. o \subseteq r.q
    BY <1>1, ReleaseUntil
  <1>4. o \in SUBSET Segments /\ o \subseteq q /\ \A x \in o : IsSeg(x, n)
    <2> HIDE DEF o
    <2> QED BY <1>1, <1>3
  <1>5. \/ ReadTurn(r, len) \in {r, r1, r2}
        \/ o # {} /\ left # 0 /\ ~(off < 0) /\ ~(off > f.len) /\ ReadTurn(r, len) = r3
    BY DEF ReadTurn
  <1> HIDE DEF o
  <1>6. Reading(r1, q, d, len, n)
    <2>1. r1 \in Reads /\ r1.q = o /\ r1.done = r.done /\ r1.out = r.out
      BY <1>1, <1>4 DEF Reads
    <2> HIDE DEF r1
    <2> QED BY <2>1, <1>2, <1>4 DEF Reading
  <1>7. Reading(r2, q, d, len, n)
    <2>1. r2 \in Reads /\ r2.q = o /\ r2.done = r.done /\ r2.out = r.out
      BY <1>1, <1>4 DEF Reads
    <2> HIDE DEF r2
    <2> QED BY <2>1, <1>2, <1>4 DEF Reading
  <1>8. ASSUME o # {}, left # 0, ~(off < 0), ~(off > f.len) PROVE Reading(r3, q, d, len, n)
    <2> DEFINE p == d + Len(r.out)
    <2>1. p \in Nat /\ p <= n /\ p \in 0 .. Total
      BY <1>1, <1>2, Constants
    <2>2. f \in o
      BY <1>4, <1>8, FirstSegment
    <2>3. IsSeg(f, n) /\ f.at \in Nat /\ f.len \in Nat /\ f.at + f.len <= n /\ f.seq = SeqOf(f.at)
      BY <1>4, <2>2 DEF IsSeg, Segments
    <2>4. f.at \in 0 .. Total
      BY <2>3, EndOf
    <2>5. r.done = SeqOf(p)
      BY <1>2
    <2> HIDE DEF f, p
    <2>6. off = p - f.at
      BY <2>1, <2>3, <2>4, <2>5, CompareExact
    <2>7. left \in Nat
      BY <1>1, <1>2
    <2>8. off \in Nat /\ off <= f.len
      BY <1>8, <2>1, <2>3, <2>6
    <2> HIDE DEF off, left
    <2>9. c \in Nat /\ c <= left /\ c <= f.len - off
      BY <2>3, <2>7, <2>8
    <2> HIDE DEF c
    <2>10. p + c <= n /\ p + c <= Total
      <3>1. p + c <= f.at + f.len
        BY <2>1, <2>3, <2>6, <2>8, <2>9
      <3> QED BY <3>1, <2>1, <2>3, <2>9, Constants
    <2>11. Plus(r.done, c) = SeqOf(p + c)
      BY <2>1, <2>5, <2>9, <2>10, PlusSeqOf
    <2>12. SeqOf(p + c) \in SeqNumbers
      <3>1. p + c \in 0 .. Total
        BY <2>1, <2>9, <2>10, Constants
      <3> QED BY <3>1, SeqOfValue
    <2>13. b \in Seq(Nat) /\ Len(b) = c /\ \A i \in 1 .. c : b[i] = p + i - 1
      <3>1. b = [i \in 1 .. c |-> f.at + off + i - 1]
        BY DEF Bytes
      <3>2. \A i \in 1 .. c : f.at + off + i - 1 \in Nat /\ f.at + off + i - 1 = p + i - 1
        BY <2>1, <2>3, <2>6, <2>8, <2>9
      <3> QED BY <3>1, <3>2, <2>9
    <2> HIDE DEF b
    <2> DEFINE out == r.out \o b
    <2>14. out \in Seq(Nat) /\ Len(out) = Len(r.out) + c
      BY <1>1, <2>13, Consecutive, <1>2 DEF p
    <2>15. \A i \in 1 .. Len(out) : out[i] = d + i - 1
      BY <1>1, <2>13, Consecutive, <1>2 DEF p
    <2>16. o2 \in SUBSET Segments /\ o2 \subseteq q
      BY <1>4
    <2> HIDE DEF out, o2
    <2>17. r3 = [r EXCEPT !.q = o2, !.done = SeqOf(p + c), !.out = out]
      BY <2>11 DEF out
    <2>18. r3 \in Reads /\ r3.q = o2 /\ r3.done = SeqOf(p + c) /\ r3.out = out
      BY <2>17, <1>1, <2>12, <2>14, <2>16 DEF Reads
    <2> HIDE DEF r3
    <2>19. d + Len(out) = p + c /\ Len(out) <= len
      BY <2>7, <2>9, <2>14, <1>1, <1>2 DEF p, left
    <2> QED BY <2>10, <2>15, <2>16, <2>18, <2>19 DEF Reading
  <1> HIDE DEF r1, r2, r3
  <1> QED BY <1>5, <1>6, <1>7, <1>8

\* The loop of pico_tcp_read.
LEMMA ReadLoopKeeps ==
    ASSUME NEW n \in 0 .. Total, NEW q \in SUBSET Segments, \A x \in q : IsSeg(x, n),
           NEW d \in Nat, d <= n, NEW len \in Nat
    PROVE  Reading(ReadLoop(q, SeqOf(d), len), q, d, len, n)
  <1> DEFINE S == {x \in Reads : Reading(x, q, d, len, n)}
             b == [q |-> q, done |-> SeqOf(d), out |-> <<>>, fatal |-> FALSE]
             m == len + Cardinality(q) + 1
             f == [x \in S |-> ReadTurn(x, len)]
             Rec(g) == g = [k \in 0 .. m |-> IF k = 0 THEN b ELSE ReadTurn(g[k - 1], len)]
             turn == CHOOSE g : Rec(g)
  <1>1. ReadLoop(q, SeqOf(d), len) = turn[m]
    BY DEF ReadLoop
  <1>2. m \in Nat
    <2>1. Cardinality(q) \in Nat
      BY QueueFinite, FS_CardinalityType
    <2> QED BY <2>1
  <1>3. \A x \in S : ReadTurn(x, len) \in S
    <2>1. ASSUME NEW x \in S PROVE ReadTurn(x, len) \in S
      <3>1. Reading(ReadTurn(x, len), q, d, len, n)
        BY ReadTurnKeeps
      <3> QED BY <3>1 DEF Reading
    <2> QED BY <2>1
  <1>4. b \in S
    <2>1. d \in 0 .. Total
      BY Constants
    <2>2. SeqOf(d) \in SeqNumbers
      BY <2>1, SeqOfValue
    <2>3. b \in Reads /\ b.q = q /\ b.done = SeqOf(d) /\ b.out = <<>>
      BY <2>2 DEF Reads
    <2> HIDE DEF b
    <2>4. Len(b.out) = 0 /\ d + Len(b.out) = d
      BY <2>3
    <2> QED BY <2>3, <2>4 DEF Reading
  <1>5. \A x \in S : f[x] = ReadTurn(x, len)
    OBVIOUS
  <1>6. \A x \in S : f[x] \in S
    BY <1>3, <1>5
  <1> HIDE DEF S, f, m, b
  <1>7. PICK g : Repeats(g, f, b, m) /\ \A k \in 0 .. m : g[k] \in S
    BY <1>2, <1>4, <1>6, RepeatExists
  <1>8. Rec(g)
    <2>1. ASSUME NEW k \in 0 .. m
          PROVE  g[k] = IF k = 0 THEN b ELSE ReadTurn(g[k - 1], len)
      <3>1. k # 0 => k - 1 \in 0 .. m
        BY <1>2
      <3>2. g[k] = IF k = 0 THEN b ELSE f[g[k - 1]]
        BY <1>7 DEF Repeats
      <3> QED BY <3>1, <3>2, <1>7, <1>5
    <2>2. g = [k \in 0 .. m |-> g[k]]
      BY <1>7 DEF Repeats
    <2> QED BY <2>1, <2>2
  <1>9. Rec(turn)
    BY <1>8
  <1> HIDE DEF turn
  <1>10. \A k \in 0 .. m : turn[k] \in S
    <2>1. turn[0] \in S
      BY <1>2, <1>4, <1>9
    <2>2. ASSUME NEW k \in 1 .. m, turn[k - 1] \in S PROVE turn[k] \in S
      <3>1. turn[k] = ReadTurn(turn[k - 1], len)
        BY <1>2, <1>9
      <3> QED BY <3>1, <2>2, <1>3
    <2> QED BY <2>1, <2>2, <1>2, RepeatKeeps
  <1>11. turn[m] \in S
    BY <1>2, <1>10
  <1> QED BY <1>1, <1>11 DEF S

-----------------------------------------------------------------------------
\* The bytes a queue holds.

ByteCells(q) == UNION {{x} \X (1 .. x.len) : x \in q}

LEMMA ByteCellsFinite ==
    ASSUME NEW n \in 0 .. Total, NEW q, \A x \in q : IsSeg(x, n)
    PROVE  IsFiniteSet(ByteCells(q)) /\ Cardinality(ByteCells(q)) \in Nat
  <1> DEFINE I == 0 .. Total
  <1>1. IsFiniteSet(q) /\ IsFiniteSet(I)
    BY QueueFinite, UpToFinite, Constants
  <1>2. IsFiniteSet(q \X I)
    <2> HIDE DEF I
    <2> QED BY <1>1, FS_Product
  <1>3. \A x \in q : x.len \in Nat /\ x.len <= Total
    BY Constants DEF IsSeg, Segments
  <1>4. ByteCells(q) \subseteq q \X I
    BY <1>3, Constants DEF ByteCells
  <1>5. IsFiniteSet(ByteCells(q))
    <2> HIDE DEF I
    <2> QED BY <1>2, <1>4, FS_Subset
  <1> QED BY <1>5, FS_CardinalityType

\* The bytes of two parts of a queue add up.
LEMMA SumParts ==
    ASSUME NEW n \in 0 .. Total, NEW q, \A x \in q : IsSeg(x, n), NEW p, p \subseteq q
    PROVE  /\ SumLen(q) = SumLen(p) + SumLen(q \ p)
           /\ SumLen(q) \in Nat /\ SumLen(p) \in Nat /\ SumLen(q \ p) \in Nat
  <1> DEFINE r == q \ p
  <1>1. ByteCells(q) = ByteCells(p) \union ByteCells(r)
    BY DEF ByteCells
  <1>2. ByteCells(p) \intersect ByteCells(r) = {}
    BY DEF ByteCells
  <1>3. \A x \in p : IsSeg(x, n)
    OBVIOUS
  <1>4. \A x \in r : IsSeg(x, n)
    OBVIOUS
  <1> HIDE DEF r
  <1>5. IsFiniteSet(ByteCells(p)) /\ Cardinality(ByteCells(p)) \in Nat
    BY <1>3, ByteCellsFinite
  <1>6. IsFiniteSet(ByteCells(r)) /\ Cardinality(ByteCells(r)) \in Nat
    BY <1>4, ByteCellsFinite
  <1>7. Cardinality(ByteCells(q)) = Cardinality(ByteCells(p)) + Cardinality(ByteCells(r))
    <2>1. Cardinality(ByteCells(p) \union ByteCells(r)) =
            Cardinality(ByteCells(p)) + Cardinality(ByteCells(r)) - Cardinality(ByteCells(p) \intersect ByteCells(r))
      BY <1>5, <1>6, FS_Union
    <2>2. Cardinality({}) = 0
      BY FS_EmptySet
    <2>3. Cardinality(ByteCells(p) \intersect ByteCells(r)) = 0
      BY <1>2, <2>2
    <2>4. Cardinality(ByteCells(p) \union ByteCells(r)) = Cardinality(ByteCells(p)) + Cardinality(ByteCells(r))
      <3> DEFINE i == Cardinality(ByteCells(p))
                 j == Cardinality(ByteCells(r))
      <3>1. i \in Nat /\ j \in Nat
        BY <1>5, <1>6
      <3>2. Cardinality(ByteCells(p) \union ByteCells(r)) = i + j - 0
        BY <2>1, <2>3
      <3> HIDE DEF i, j
      <3>3. i + j - 0 = i + j
        BY <3>1
      <3>4. Cardinality(ByteCells(p) \union ByteCells(r)) = i + j
        BY <3>2, <3>3
      <3> QED BY <3>4 DEF i, j
    <2> QED BY <1>1, <2>4
  <1>8. SumLen(q) = Cardinality(ByteCells(q)) /\ SumLen(p) = Cardinality(ByteCells(p))
    BY DEF SumLen, ByteCells
  <1>9. SumLen(r) = Cardinality(ByteCells(r))
    BY DEF SumLen, ByteCells
  <1>10. SumLen(q) = SumLen(p) + SumLen(r) /\ SumLen(q) \in Nat /\ SumLen(p) \in Nat /\ SumLen(r) \in Nat
    BY <1>5, <1>6, <1>7, <1>8, <1>9
  <1> QED BY <1>10 DEF r

\* The bytes of one segment.
LEMMA SumOne ==
    ASSUME NEW f \in Segments
    PROVE  SumLen({f}) = f.len
  <1> DEFINE I == 1 .. f.len
  <1>1. f.len \in Nat
    BY DEF Segments
  <1>2. IsFiniteSet(I) /\ Cardinality(I) = f.len
    BY <1>1, UpToFinite
  <1>3. IsFiniteSet({f}) /\ Cardinality({f}) = 1
    BY FS_Singleton
  <1>4. SumLen({f}) = Cardinality({f} \X I)
    <2>1. UNION {{x} \X (1 .. x.len) : x \in {f}} = {f} \X I
      OBVIOUS
    <2> QED BY <2>1 DEF SumLen
  <1> HIDE DEF I
  <1>5. Cardinality({f} \X I) = Cardinality({f}) * Cardinality(I)
    BY <1>2, <1>3, FS_Product
  <1> QED BY <1>1, <1>2, <1>3, <1>4, <1>5

\* A segment that was not in the queue adds its length.
LEMMA SumAdd ==
    ASSUME NEW n \in 0 .. Total, NEW q, \A x \in q : IsSeg(x, n), NEW f, IsSeg(f, n), f \notin q
    PROVE  SumLen(q \union {f}) = SumLen(q) + f.len
  <1> DEFINE r == q \union {f}
  <1>1. \A x \in r : IsSeg(x, n)
    OBVIOUS
  <1>2. q \subseteq r /\ r \ q = {f}
    OBVIOUS
  <1> HIDE DEF r
  <1>3. SumLen(r) = SumLen(q) + SumLen({f})
    BY <1>1, <1>2, SumParts
  <1>4. SumLen({f}) = f.len
    BY SumOne DEF IsSeg
  <1> QED BY <1>3, <1>4 DEF r

-----------------------------------------------------------------------------
\* The actions of the receiver.

\* The receiving socket before the step.
LEMMA ReceiverFacts ==
    ASSUME TcpInv
    PROVE  /\ pushed \in 0 .. Total /\ rx \in Receivers /\ rx.inq \in SUBSET Segments
           /\ \A x \in rx.inq : IsSeg(x, pushed)
           /\ rx.size \in Nat /\ rx.size <= InMax /\ rx.size = SumLen(rx.inq)
           /\ Received \in Nat /\ Received <= pushed /\ rx.rcv_nxt = SeqOf(Received)
           /\ rx.rcv_nxt \in SeqNumbers
           /\ Len(got) \in Nat /\ Len(got) <= pushed /\ rx.rcv_processed = SeqOf(Len(got))
  <1>1. pushed \in 0 .. Total /\ rx \in Receivers /\ got \in Seq(Nat)
    BY DEF TcpInv, TypeOK
  <1>2. /\ rx.inq \in SUBSET Segments /\ rx.size \in Nat /\ rx.size <= InMax
        /\ rx.rcv_nxt \in SeqNumbers
    BY <1>1, Constants DEF Receivers
  <1>3. \A x \in rx.inq : IsSeg(x, pushed)
    BY DEF TcpInv, ReceiverInv
  <1>4. Len(got) <= pushed /\ rx.rcv_processed = SeqOf(Len(got)) /\ rx.size = SumLen(rx.inq)
    BY DEF TcpInv, ReceiverInv, SizeExact
  <1>5. Received \in 0 .. pushed /\ rx.rcv_nxt = SeqOf(Received)
    BY DEF TcpInv, AckInv
  <1>6. Received \in Nat /\ Received <= pushed
    BY <1>1, <1>5, Constants
  <1> QED BY <1>1, <1>2, <1>3, <1>4, <1>5, <1>6

\* A window that is announced.
LEMMA SpaceType ==
    ASSUME NEW s \in Nat, s <= InMax
    PROVE  Space(s) \in 0 .. InMax
  BY Constants DEF Space

LEMMA DataInInv == ASSUME TcpInv, NEW f \in frames, tcp_data_in(f) PROVE TcpInv'
  <1> DEFINE cmp == pico_seq_compare(f.seq, rx.rcv_nxt)
             takes == cmp >= 0 /\ pico_enqueue_segment(f)
             size == IF takes THEN rx.size + f.len ELSE rx.size
             q == IF takes THEN rx.inq \union {f} ELSE rx.inq
             nxt == IF takes /\ cmp = 0 THEN Scroll(q, End(f)) ELSE rx.rcv_nxt
             z == (Space(size) = 0)
  <1>1. /\ frames' \in Left(frames, f) /\ tcp_send_ack(nxt, size)
        /\ rx' = [rx EXCEPT !.inq = q, !.size = size, !.rcv_nxt = nxt, !.zeroWindow = z]
        /\ UNCHANGED <<pushed, tx, tcp_out, got, shed, overrun>>
    BY DEF tcp_data_in
  <1>2. /\ pushed \in 0 .. Total /\ rx \in Receivers /\ rx.inq \in SUBSET Segments
        /\ \A x \in rx.inq : IsSeg(x, pushed)
    BY ReceiverFacts
  <1>3. /\ rx.size \in Nat /\ rx.size <= InMax /\ rx.size = SumLen(rx.inq)
        /\ Received \in Nat /\ Received <= pushed /\ rx.rcv_nxt = SeqOf(Received)
        /\ rx.rcv_nxt \in SeqNumbers
    BY ReceiverFacts
  <1>4. IsFrame(f, pushed) /\ f \in Segments /\ f.len \in Nat
    BY DEF TcpInv, SenderInv, IsFrame, Segments
  <1>5. ASSUME takes
        PROVE  IsSeg(f, pushed) /\ rx.size + f.len <= InMax /\ f \notin rx.inq
    <2>1. f.len > 0 /\ rx.size + f.len <= InMax /\ peek_segment(rx.inq, f.seq) = {}
      BY <1>5 DEF pico_enqueue_segment
    <2> QED BY <2>1, <1>4 DEF IsFrame, peek_segment
  <1>6. Received \in 0 .. Total /\ pushed \in Nat
    BY <1>2, <1>3, Constants
  <1>7. /\ q \in SUBSET Segments /\ (\A x \in q : IsSeg(x, pushed))
        /\ size \in Nat /\ size <= InMax /\ size = SumLen(q)
    <2>1. CASE takes
      <3>1. q = rx.inq \union {f} /\ size = rx.size + f.len
        BY <2>1
      <3>2. SumLen(rx.inq \union {f}) = SumLen(rx.inq) + f.len
        BY <1>2, <1>5, <2>1, SumAdd
      <3> HIDE DEF q, size, takes
      <3>3. \A x \in q : IsSeg(x, pushed)
        BY <3>1, <1>2, <1>5, <2>1
      <3>4. q \in SUBSET Segments
        BY <3>1, <1>2, <1>4
      <3>5. size \in Nat /\ size <= InMax
        BY <3>1, <1>3, <1>4, <1>5, <2>1
      <3>6. size = SumLen(q)
        BY <3>1, <3>2, <1>3
      <3> QED BY <3>3, <3>4, <3>5, <3>6
    <2>2. CASE ~takes
      <3>1. q = rx.inq /\ size = rx.size
        BY <2>2
      <3> HIDE DEF q, size, takes
      <3> QED BY <3>1, <1>2, <1>3
    <2> QED BY <2>1, <2>2
  <1>8. \E e \in Received .. pushed : nxt = SeqOf(e)
    <2>1. CASE takes /\ cmp = 0
      <3>1. IsSeg(f, pushed)
        BY <1>5, <2>1
      <3>2. f.at \in 0 .. Total /\ End(f) = SeqOf(f.at + f.len) /\ f.seq = SeqOf(f.at)
        BY <1>2, <3>1, EndOf DEF IsSeg
      <3>3. cmp = f.at - Received
        BY <1>3, <1>6, <3>2, CompareExact
      <3>4. f.at = Received
        BY <2>1, <3>2, <3>3, <1>6, Constants
      <3> DEFINE e == f.at + f.len
      <3>5. e \in 0 .. pushed /\ e >= Received
        BY <1>3, <1>6, <3>1, <3>4 DEF IsSeg, Segments
      <3>6. nxt = Scroll(q, SeqOf(e))
        BY <2>1, <3>2
      <3> HIDE DEF e, q, nxt
      <3>7. PICK p \in e .. pushed : Scroll(q, SeqOf(e)) = SeqOf(p)
        BY <1>2, <1>7, <3>5, ScrollPosition
      <3>8. p \in Received .. pushed
        BY <1>3, <1>6, <3>5
      <3> QED BY <3>6, <3>7, <3>8
    <2>2. CASE ~(takes /\ cmp = 0)
      <3>1. nxt = rx.rcv_nxt
        BY <2>2
      <3>2. Received \in Received .. pushed
        BY <1>3, <1>6
      <3> HIDE DEF nxt
      <3> QED BY <3>1, <3>2, <1>3
    <2> QED BY <2>1, <2>2
  <1>9. PICK e \in Received .. pushed : nxt = SeqOf(e)
    BY <1>8
  <1>10. e \in 0 .. Total /\ e \in 0 .. pushed /\ Received <= e /\ e \in Nat
    BY <1>2, <1>3, <1>6, <1>9, Constants
  <1>11. nxt \in SeqNumbers
    BY <1>9, <1>10, SeqOfValue
  <1> HIDE DEF cmp, takes, size, q, nxt
  <1>12. Space(size) \in 0 .. InMax /\ z \in BOOLEAN
    BY <1>7, SpaceType
  <1>13. size \in 0 .. InMax
    BY <1>7, Constants
  <1> HIDE DEF z
  <1>14. /\ rx' \in Receivers /\ rx'.inq = q /\ rx'.size = size /\ rx'.rcv_nxt = nxt
         /\ rx'.rcv_processed = rx.rcv_processed
    BY <1>1, <1>2, <1>7, <1>11, <1>12, <1>13 DEF Receivers
  <1>15. Received' = e
    <2>1. Received' = (rx'.rcv_nxt - Isn) % SeqMod
      BY DEF Received
    <2> QED BY <2>1, <1>9, <1>10, <1>14, PositionOf
  <1> DEFINE m == [ack |-> nxt, wnd |-> Space(size)]
  <1>16. acks' \subseteq acks \union {m}
    BY <1>1 DEF tcp_send_ack, Carry
  <1>17. m \in [ack : SeqNumbers, wnd : 0 .. InMax] /\ m.ack = SeqOf(e)
    BY <1>9, <1>11, <1>12
  <1> HIDE DEF m
  <1>18. frames' \subseteq frames
    BY <1>1 DEF Left
  <1>19. TypeOK'
    BY <1>1, <1>14, <1>16, <1>17, <1>18 DEF TcpInv, TypeOK
  <1>20. SenderInv'
    BY <1>1, <1>18 DEF TcpInv, SenderInv
  <1>21. ReceiverInv'
    <2>1. \A x \in rx'.inq : IsSeg(x, pushed')
      BY <1>1, <1>7, <1>14
    <2>2. SizeExact'
      BY <1>7, <1>14 DEF SizeExact
    <2> QED BY <2>1, <2>2, <1>1, <1>14 DEF TcpInv, ReceiverInv, StreamExact
  <1>22. AckInv'
    <2>1. ASSUME NEW a \in acks' PROVE \E k \in 0 .. e : a.ack = SeqOf(k)
      <3>1. CASE a \in acks
        <4>1. PICK k \in 0 .. Received : a.ack = SeqOf(k)
          BY <3>1 DEF TcpInv, AckInv
        <4>2. k \in 0 .. e
          <5> HIDE DEF Received
          <5> QED BY <1>3, <1>10, <4>1
        <4> QED BY <4>1, <4>2
      <3>2. CASE a = m
        <4>1. e \in 0 .. e
          BY <1>10
        <4> QED BY <3>2, <4>1, <1>17
      <3> QED BY <3>1, <3>2, <1>16
    <2> QED BY <2>1, <1>1, <1>9, <1>10, <1>14, <1>15 DEF AckInv
  <1>23. RetainedInv'
    <2> SUFFICES ASSUME NEW p \in Nat, e <= p, p < pushed
                 PROVE  p \in shed \/ p \in Held(tx.outq)
      BY <1>1, <1>15 DEF RetainedInv
    <2>1. Received <= p
      <3> HIDE DEF Received
      <3> QED BY <1>3, <1>10
    <2> QED BY <2>1 DEF TcpInv, RetainedInv
  <1> QED BY <1>19, <1>20, <1>21, <1>22, <1>23 DEF TcpInv

LEMMA ReadInv == ASSUME TcpInv, pico_tcp_read PROVE TcpInv'
  <1>1. PICK len \in 1 .. InMax :
          LET r == ReadLoop(rx.inq, rx.rcv_processed, len)
              size == rx.size - SumLen(rx.inq \ r.q)
          IN  /\ rx' = [rx EXCEPT !.inq = r.q, !.size = size, !.rcv_processed = r.done,
                                  !.zeroWindow = (Space(size) = 0), !.fatal = r.fatal]
              /\ got' = got \o r.out
              /\ IF rx.zeroWindow /\ Space(size) > 0 THEN tcp_send_ack(rx.rcv_nxt, size)
                 ELSE UNCHANGED acks
              /\ UNCHANGED <<pushed, tx, tcp_out, frames, shed, overrun>>
    BY DEF pico_tcp_read
  <1> DEFINE r == ReadLoop(rx.inq, rx.rcv_processed, len)
             size == rx.size - SumLen(rx.inq \ r.q)
             z == (Space(size) = 0)
             m == [ack |-> rx.rcv_nxt, wnd |-> Space(size)]
  <1>2. /\ rx' = [rx EXCEPT !.inq = r.q, !.size = size, !.rcv_processed = r.done,
                            !.zeroWindow = z, !.fatal = r.fatal]
        /\ got' = got \o r.out
        /\ UNCHANGED <<pushed, tx, tcp_out, frames, shed, overrun>>
    BY <1>1
  <1>3. acks' \subseteq acks \union {m}
    BY <1>1 DEF tcp_send_ack, Carry
  <1>4. /\ pushed \in 0 .. Total /\ rx \in Receivers /\ rx.inq \in SUBSET Segments
        /\ \A x \in rx.inq : IsSeg(x, pushed)
    BY ReceiverFacts
  <1>5. /\ rx.size \in Nat /\ rx.size <= InMax /\ rx.size = SumLen(rx.inq)
        /\ Received \in Nat /\ Received <= pushed /\ rx.rcv_nxt = SeqOf(Received)
        /\ rx.rcv_nxt \in SeqNumbers
    BY ReceiverFacts
  <1>6. /\ Len(got) \in Nat /\ Len(got) <= pushed /\ rx.rcv_processed = SeqOf(Len(got))
    BY ReceiverFacts
  <1>7. len \in Nat
    BY Constants
  <1>8. Reading(r, rx.inq, Len(got), len, pushed)
    BY <1>4, <1>6, <1>7, ReadLoopKeeps
  <1> HIDE DEF r
  <1>9. /\ r \in Reads /\ r.q \in SUBSET Segments /\ r.done \in SeqNumbers /\ r.out \in Seq(Nat)
        /\ r.fatal \in BOOLEAN /\ r.q \subseteq rx.inq
    BY <1>8 DEF Reading, Reads
  <1>10. /\ Len(got) + Len(r.out) <= pushed /\ r.done = SeqOf(Len(got) + Len(r.out))
         /\ \A i \in 1 .. Len(r.out) : r.out[i] = Len(got) + i - 1
    BY <1>8 DEF Reading
  <1>11. size \in Nat /\ size <= InMax /\ size = SumLen(r.q)
    <2>1. /\ SumLen(rx.inq) = SumLen(r.q) + SumLen(rx.inq \ r.q)
          /\ SumLen(r.q) \in Nat /\ SumLen(rx.inq \ r.q) \in Nat
      BY <1>4, <1>9, SumParts
    <2> QED BY <2>1, <1>5, Constants
  <1> HIDE DEF size
  <1>12. Space(size) \in 0 .. InMax /\ z \in BOOLEAN /\ size \in 0 .. InMax
    BY <1>11, SpaceType, Constants
  <1> HIDE DEF z
  <1>13. /\ rx' \in Receivers /\ rx'.inq = r.q /\ rx'.size = size /\ rx'.rcv_nxt = rx.rcv_nxt
         /\ rx'.rcv_processed = r.done
    BY <1>2, <1>4, <1>9, <1>12 DEF Receivers
  <1>14. Received' = Received
    BY <1>13 DEF Received
  <1>15. m \in [ack : SeqNumbers, wnd : 0 .. InMax] /\ m.ack = SeqOf(Received)
    BY <1>5, <1>12
  <1> HIDE DEF m
  <1>16. got \in Seq(Nat) /\ \A i \in 1 .. Len(got) : got[i] = 0 + i - 1
    <2>1. got \in Seq(Nat) /\ got = [i \in 1 .. Len(got) |-> i - 1]
      BY DEF TcpInv, TypeOK, ReceiverInv, StreamExact
    <2>2. \A i \in 1 .. Len(got) : got[i] = i - 1
      BY <2>1
    <2> QED BY <2>1, <2>2, <1>6
  <1>17. \A i \in 1 .. Len(r.out) : r.out[i] = 0 + Len(got) + i - 1
    <2>1. 0 + Len(got) = Len(got)
      BY <1>6
    <2> QED BY <2>1, <1>10
  <1>18. /\ got' \in Seq(Nat) /\ Len(got') = Len(got) + Len(r.out)
         /\ \A i \in 1 .. Len(got') : got'[i] = 0 + i - 1
    <2> DEFINE o == 0
    <2>1. /\ o \in Nat /\ \A i \in 1 .. Len(got) : got[i] = o + i - 1
      BY <1>16
    <2>2. \A i \in 1 .. Len(r.out) : r.out[i] = o + Len(got) + i - 1
      BY <1>17
    <2>3. got' = got \o r.out
      BY <1>2
    <2> HIDE DEF o
    <2>4. /\ got' \in Seq(Nat) /\ Len(got') = Len(got) + Len(r.out)
          /\ \A i \in 1 .. Len(got') : got'[i] = o + i - 1
      BY <1>9, <1>16, <2>1, <2>2, <2>3, Consecutive
    <2> QED BY <2>4 DEF o
  <1>19. TypeOK'
    BY <1>2, <1>3, <1>13, <1>15, <1>18 DEF TcpInv, TypeOK
  <1>20. SenderInv'
    BY <1>2 DEF TcpInv, SenderInv
  <1>21. ReceiverInv'
    <2>1. \A x \in rx'.inq : IsSeg(x, pushed')
      BY <1>2, <1>4, <1>9, <1>13
    <2>2. SizeExact'
      BY <1>11, <1>13 DEF SizeExact
    <2>3. Len(got') <= pushed' /\ rx'.rcv_processed = SeqOf(Len(got'))
      BY <1>2, <1>10, <1>13, <1>18
    <2>4. StreamExact'
      <3>1. got' = [i \in 1 .. Len(got') |-> got'[i]]
        BY <1>18
      <3>2. \A i \in 1 .. Len(got') : got'[i] = i - 1
        BY <1>18
      <3>3. got' = [i \in 1 .. Len(got') |-> i - 1]
        BY <3>1, <3>2
      <3> QED BY <3>3 DEF StreamExact
    <2> QED BY <2>1, <2>2, <2>3, <2>4 DEF ReceiverInv
  <1>22. AckInv'
    <2>1. ASSUME NEW a \in acks' PROVE \E k \in 0 .. Received : a.ack = SeqOf(k)
      <3>1. CASE a \in acks
        BY <3>1 DEF TcpInv, AckInv
      <3>2. CASE a = m
        <4>1. Received \in 0 .. Received
          <5> HIDE DEF Received
          <5> QED BY <1>5
        <4> QED BY <3>2, <4>1, <1>15
      <3> QED BY <3>1, <3>2, <1>3
    <2> QED BY <2>1, <1>2, <1>13, <1>14 DEF TcpInv, AckInv
  <1>23. RetainedInv'
    BY <1>2, <1>14 DEF TcpInv, RetainedInv
  <1> QED BY <1>19, <1>20, <1>21, <1>22, <1>23 DEF TcpInv

-----------------------------------------------------------------------------
\* The theorems.

\* The state a connection begins in.
LEMMA InitInv == ASSUME Init PROVE TcpInv
  <1>1. /\ pushed = 0 /\ tcp_out = <<>> /\ got = <<>> /\ frames = {} /\ acks = {}
        /\ shed = {} /\ overrun = FALSE
    BY DEF Init
  <1>2. /\ Isn \in SeqNumbers /\ 0 \in SeqNumbers /\ SeqOf(0) = Isn
        /\ InMax \in 0 .. InMax /\ 0 \in 0 .. InMax /\ 0 \in 0 .. 6 /\ 0 \in 0 .. Total
    <2>1. 0 \in 0 .. Total
      BY Constants
    <2>2. SeqOf(0) = Isn
      BY <2>1, SeqOfValue, Constants
    <2> QED BY <2>1, <2>2, Constants DEF SeqNumbers
  <1>3. tx \in Senders /\ tx.outq = {}
    BY <1>2, Constants DEF Init, Senders, LOOKAHEAD, PICO_TCP_IW
  <1>4. /\ rx \in Receivers /\ rx.inq = {} /\ rx.size = 0 /\ rx.rcv_nxt = Isn
        /\ rx.rcv_processed = Isn
    BY <1>2 DEF Init, Receivers
  <1>5. Received = 0
    <2>1. (SeqOf(0) - Isn) % SeqMod = 0
      BY <1>2, PositionOf
    <2> QED BY <2>1, <1>2, <1>4 DEF Received
  <1>6. SumLen({}) = 0
    <2>1. UNION {{x} \X (1 .. x.len) : x \in {}} = {}
      OBVIOUS
    <2> QED BY <2>1, FS_EmptySet DEF SumLen
  <1>7. TypeOK
    <2>1. tcp_out \in Seq(Segments) /\ got \in Seq(Nat)
      BY <1>1
    <2>2. /\ pushed \in 0 .. Total /\ frames \subseteq Segments /\ shed \subseteq Nat
          /\ acks \subseteq [ack : SeqNumbers, wnd : 0 .. InMax] /\ overrun \in BOOLEAN
      BY <1>1, <1>2
    <2> QED BY <2>1, <2>2, <1>3, <1>4 DEF TypeOK
  <1>8. SenderInv
    BY <1>1, <1>3 DEF SenderInv
  <1>9. ReceiverInv
    <2>1. Len(got) = 0 /\ got = [i \in 1 .. Len(got) |-> i - 1]
      BY <1>1
    <2>2. StreamExact /\ SizeExact
      BY <2>1, <1>4, <1>6 DEF StreamExact, SizeExact
    <2> QED BY <2>1, <2>2, <1>1, <1>2, <1>4 DEF ReceiverInv
  <1>10. AckInv
    BY <1>1, <1>2, <1>4, <1>5 DEF AckInv
  <1>11. RetainedInv
    <2> SUFFICES ASSUME NEW p \in Nat, p < pushed PROVE FALSE
      BY DEF RetainedInv
    <2> QED BY <1>1
  <1> QED BY <1>7, <1>8, <1>9, <1>10, <1>11 DEF TcpInv

\* Every step keeps the invariant.
LEMMA NextInv == ASSUME TcpInv, [Next]_vars PROVE TcpInv'
  <1>1. CASE UNCHANGED vars
    <2>1. /\ pushed' = pushed /\ tx' = tx /\ tcp_out' = tcp_out /\ rx' = rx /\ got' = got
          /\ frames' = frames /\ acks' = acks /\ shed' = shed /\ overrun' = overrun
      BY <1>1 DEF vars
    <2>2. Received' = Received
      BY <2>1 DEF Received
    <2> QED BY <2>1, <2>2 DEF TcpInv, TypeOK, SenderInv, ReceiverInv, AckInv, RetainedInv,
                              StreamExact, SizeExact
  <1>2. CASE Next
    BY <1>2, PushInv, SocketsLoopInv, ProcessOutInv, TimeoutInv, AckAction, DataInInv, ReadInv
       DEF Next
  <1> QED BY <1>1, <1>2

LEMMA TcpInductive == Spec => []TcpInv
  <1>1. Init => TcpInv
    BY InitInv
  <1>2. TcpInv /\ [Next]_vars => TcpInv'
    BY NextInv
  <1> QED BY <1>1, <1>2, PTL DEF Spec

\* The counters of both sockets stay in their ranges: tcpq_in never grows past max_size,
\* whatever segments arrive, so the window tcp_set_space announces is never negative; the
\* congestion window never falls to 0, and in_flight never below 0.
THEOREM TcpTypeCorrect == Spec => []TypeOK
  <1>1. TcpInv => TypeOK
    BY DEF TcpInv
  <1> QED BY <1>1, TcpInductive, PTL

\* What pico_tcp_read returns is the stream pico_tcp_push took, up to the first read that
\* meets the segment release_until left behind, for every width of the sequence numbers,
\* whichever of them the stream begins with, and whatever the network loses, repeats or
\* reorders.
THEOREM StreamCorrect == Spec => []StreamExact
  <1>1. TcpInv => StreamExact
    BY DEF TcpInv, ReceiverInv
  <1> QED BY <1>1, TcpInductive, PTL

\* tcpq_in.size is the number of bytes in tcpq_in, after every mix of segments that
\* pico_enqueue_segment took or refused and that pico_tcp_read released or discarded.
THEOREM SizeCorrect == Spec => []SizeExact
  <1>1. TcpInv => SizeExact
    BY DEF TcpInv, ReceiverInv
  <1> QED BY <1>1, TcpInductive, PTL

\* tcp_ack releases nothing the peer lacks: whatever is not received is in tcpq_out, but
\* for the heads tcp_split_segment does not keep.
THEOREM RetainedCorrect == Spec => []Retained
  <1>1. TcpInv => Retained
    BY RetainedHolds
  <1> QED BY <1>1, TcpInductive, PTL
=============================================================================
