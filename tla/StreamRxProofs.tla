--------------------------- MODULE StreamRxProofs ---------------------------
(***************************************************************************)
(* The invariants of StreamRx, for every size of RXbuf, of the socketpair   *)
(* and of one read from the stack, and for every length of the stream.      *)
(***************************************************************************)
EXTENDS StreamRx, RingBufferProofs

\* The inductive invariant.
RxInv == TypeOK /\ ExactUntilShort /\ NumberKept

\* RXbuf is well-formed.
LEMMA RxWellFormed == ASSUME TypeOK PROVE WellFormed(rx)
  BY DEF TypeOK, WellFormed, WrapMeansFull

\* The bytes a + 1 .. b of the stream.
LEMMA BytesAre ==
    ASSUME NEW a \in Nat, NEW b \in a .. MaxBytes
    PROVE  /\ Bytes(a, b) \in Seq(Elem) /\ Len(Bytes(a, b)) = b - a
           /\ \A i \in 1 .. b - a : Bytes(a, b)[i] = a + i
  <1>1. MaxBytes \in Nat /\ b - a \in Nat
    BY RxAssumption
  <1>2. \A i \in 1 .. b - a : a + i \in Elem
    BY <1>1, RxAssumption
  <1> DEFINE s == [i \in 1 .. b - a |-> a + i]
  <1>3. s \in Seq(Elem) /\ Len(s) = b - a /\ \A i \in 1 .. b - a : s[i] = a + i
    BY <1>1, <1>2
  <1> QED BY <1>3 DEF Bytes

\* Two runs of bytes, one after the other.
LEMMA BytesConcat ==
    ASSUME NEW a \in Nat, NEW b \in a .. MaxBytes
    PROVE  Bytes(0, a) \o Bytes(a, b) = Bytes(0, b)
  <1>1. MaxBytes \in Nat /\ a \in 0 .. MaxBytes /\ b \in 0 .. MaxBytes /\ 0 \in Nat /\ b \in Nat
    BY RxAssumption
  <1>2. /\ Bytes(0, a) \in Seq(Elem) /\ Len(Bytes(0, a)) = a - 0
        /\ \A i \in 1 .. a - 0 : Bytes(0, a)[i] = 0 + i
    BY <1>1, BytesAre
  <1>3. /\ Bytes(0, b) \in Seq(Elem) /\ Len(Bytes(0, b)) = b - 0
        /\ \A i \in 1 .. b - 0 : Bytes(0, b)[i] = 0 + i
    BY <1>1, BytesAre
  <1>4. /\ Bytes(a, b) \in Seq(Elem) /\ Len(Bytes(a, b)) = b - a
        /\ \A i \in 1 .. b - a : Bytes(a, b)[i] = a + i
    BY BytesAre
  <1> DEFINE p == Bytes(0, a)
             q == Bytes(a, b)
             s == Bytes(0, b)
  <1>5. p \in Seq(Elem) /\ q \in Seq(Elem) /\ s \in Seq(Elem)
        /\ Len(p) = a /\ Len(q) = b - a /\ Len(s) = b
    BY <1>1, <1>2, <1>3, <1>4
  <1> HIDE DEF p, q, s
  <1>6. p \o q \in Seq(Elem) /\ Len(p \o q) = Len(p) + Len(q)
        /\ \A i \in 1 .. Len(p) + Len(q) :
              (p \o q)[i] = IF i <= Len(p) THEN p[i] ELSE q[i - Len(p)]
    BY <1>5, ConcatProperties
  <1>7. Len(p) + Len(q) = b
    BY <1>5, <1>1
  <1>8. ASSUME NEW i \in 1 .. b PROVE (p \o q)[i] = s[i]
    <2>1. s[i] = i
      BY <1>1, <1>3 DEF s
    <2>2. CASE i <= a
      <3>1. i \in 1 .. a - 0
        BY <2>2, <1>1
      <3>2. p[i] = i
        BY <3>1, <1>1, <1>2 DEF p
      <3> QED BY <3>2, <2>1, <2>2, <1>5, <1>6, <1>7
    <2>3. CASE ~(i <= a)
      <3>1. i - a \in 1 .. b - a /\ a + (i - a) = i
        BY <2>3, <1>1
      <3>2. q[i - a] = i
        BY <3>1, <1>4 DEF q
      <3> QED BY <3>2, <2>1, <2>3, <1>5, <1>6, <1>7
    <2> QED BY <2>2, <2>3
  <1>9. p \o q = s
    BY <1>5, <1>6, <1>7, <1>8, SeqEqual
  <1> QED BY <1>9 DEF p, q, s

\* Three sequences one after the other: it does not matter which two come first.
Associate(x, y, z) == (x \o y) \o z = x \o (y \o z)

LEMMA Associative ==
    ASSUME NEW S, NEW x \in Seq(S), NEW y \in Seq(S), NEW z \in Seq(S)
    PROVE  Associate(x, y, z)
  BY ONLY x \in Seq(S), y \in Seq(S), z \in Seq(S), ConcatAssociative, SMT DEF Associate

\* What is taken from the front of one sequence and put at the end of another
\* leaves the two together as they were.
MovedFront(S, g, p, k) ==
    /\ g \o SubSeq(p, 1, k) \in Seq(S) /\ SubSeq(p, k + 1, Len(p)) \in Seq(S)
    /\ Len(g \o SubSeq(p, 1, k)) = Len(g) + k
    /\ Len(SubSeq(p, k + 1, Len(p))) = Len(p) - k
    /\ (g \o SubSeq(p, 1, k)) \o SubSeq(p, k + 1, Len(p)) = g \o p

LEMMA MoveFront ==
    ASSUME NEW S, NEW g \in Seq(S), NEW p \in Seq(S), NEW k \in 1 .. Len(p)
    PROVE  MovedFront(S, g, p, k)
  <1> DEFINE u == SubSeq(p, 1, k)
             v == SubSeq(p, k + 1, Len(p))
  <1>0. Len(p) \in Nat /\ Len(g) \in Nat /\ k \in Nat
    OBVIOUS
  <1>1. u \in Seq(S) /\ Len(u) = k /\ \A i \in 1 .. k : u[i] = p[i]
    OBVIOUS
  <1>2. v \in Seq(S) /\ Len(v) = Len(p) - k /\ \A i \in 1 .. Len(p) - k : v[i] = p[k + i]
    OBVIOUS
  <1> HIDE DEF u, v
  <1>3. /\ g \o u \in Seq(S) /\ Len(g \o u) = Len(g) + k
        /\ \A i \in 1 .. Len(g) + k : (g \o u)[i] = IF i <= Len(g) THEN g[i] ELSE u[i - Len(g)]
    BY <1>1, ConcatProperties
  <1>4. (g \o u) \o v = g \o (u \o v)
    <2>1. Associate(g, u, v)
      BY <1>1, <1>2, Associative
    <2> QED BY <2>1 DEF Associate
  <1>5. u \o v = p
    <2>1. /\ u \o v \in Seq(S) /\ Len(u \o v) = Len(u) + Len(v)
          /\ \A i \in 1 .. Len(u) + Len(v) :
                (u \o v)[i] = IF i <= Len(u) THEN u[i] ELSE v[i - Len(u)]
      BY <1>1, <1>2, ConcatProperties
    <2>2. Len(u) + Len(v) = Len(p)
      BY <1>0, <1>1, <1>2
    <2>3. ASSUME NEW i \in 1 .. Len(p) PROVE (u \o v)[i] = p[i]
      <3>1. CASE i <= k
        <4>1. i \in 1 .. k
          BY <3>1, <1>0
        <4> QED BY <4>1, <3>1, <2>1, <2>2, <1>1
      <3>2. CASE ~(i <= k)
        <4>1. i - k \in 1 .. Len(p) - k /\ k + (i - k) = i
          BY <3>2, <1>0
        <4> QED BY <4>1, <3>2, <2>1, <2>2, <1>1, <1>2
      <3> QED BY <3>1, <3>2
    <2> QED BY <2>1, <2>2, <2>3, SeqEqual
  <1> QED BY <1>1, <1>2, <1>3, <1>4, <1>5 DEF u, v, MovedFront

-----------------------------------------------------------------------------
\* The store of pico_socket_recvfrom through get_buf() changes neither the
\* indices nor, if the array does not end before, what a raw read then returns.
LEMMA RawStoreKeeps ==
    ASSUME NEW b, WellFormed(b), NEW data \in Seq(Elem)
    PROVE  /\ WellFormed(RawStore(b, data)) /\ count(RawStore(b, data)) = count(b)
           /\ RawStore(b, data).begin = b.begin
           /\ Len(data) <= Size - b.begin =>
                 \A i \in 1 .. Len(data) : RawStore(b, data).buf[b.begin + i - 1] = data[i]
  <1> DEFINE n == Least(Len(data), Size - b.begin)
             mem == MemCopy(b.buf, b.begin, data, 0, n)
             c == RawStore(b, data)
  <1>1. /\ b \in RingBuffers /\ b.buf \in [Index -> Elem] /\ b.begin \in Index
        /\ b.end \in Index /\ b.wrap \in BOOLEAN /\ Len(data) \in Nat
    BY DEF WellFormed, RingBuffers
  <1>2. b.begin \in 0 .. Size - 1 /\ Size \in Nat
    BY <1>1, SizeAssumption DEF Index
  <1>3. n \in 0 .. Len(data) /\ n \in Nat /\ b.begin + n <= Size
        /\ (Len(data) <= Size - b.begin => n = Len(data))
    BY <1>1, <1>2 DEF Least
  <1>4. c = [b EXCEPT !.buf = mem]
    BY DEF RawStore
  <1> HIDE DEF n, c
  <1>5. ASSUME NEW k \in Index PROVE mem[k] \in Elem
    <2>1. CASE b.begin <= k /\ k < b.begin + n
      <3>1. mem[k] = data[0 + 1 + k - b.begin]
        BY <2>1 DEF MemCopy
      <3>2. 0 + 1 + k - b.begin \in 1 .. Len(data)
        BY <2>1, <1>2, <1>3 DEF Index
      <3> QED BY <3>1, <3>2
    <2>2. CASE ~(b.begin <= k /\ k < b.begin + n)
      BY <2>2, <1>1 DEF MemCopy
    <2> QED BY <2>1, <2>2
  <1>6. mem \in [Index -> Elem]
    BY <1>5 DEF MemCopy
  <1>7. ASSUME Len(data) <= Size - b.begin, NEW i \in 1 .. Len(data)
        PROVE  mem[b.begin + i - 1] = data[i]
    <2>1. /\ b.begin + i - 1 \in Index /\ b.begin <= b.begin + i - 1
          /\ b.begin + i - 1 < b.begin + n
          /\ 0 + 1 + (b.begin + i - 1) - b.begin = i
      BY <1>7, <1>1, <1>2, <1>3 DEF Index
    <2> QED BY <2>1 DEF MemCopy
  <1> HIDE DEF mem
  <1>8. /\ c.buf = mem /\ c.begin = b.begin /\ c.end = b.end /\ c.wrap = b.wrap
        /\ c \in RingBuffers
    BY <1>1, <1>4, <1>6 DEF RingBuffers
  <1>9. WellFormed(c) /\ count(c) = count(b)
    BY <1>8 DEF WellFormed, WrapMeansFull, count
  <1> QED BY <1>7, <1>8, <1>9 DEF c

\* RXbuf after receiving r bytes, and what a raw read of it returns.
LEMMA Received ==
    ASSUME NEW b, WellFormed(b), NEW data \in Seq(Elem), NEW r \in Nat, Len(data) = r
    PROVE  LET c == produce(RawStore(b, data), r)
           IN  /\ WellFormed(c) /\ count(c) = count(b) + Least(r, getFree(b))
               /\ RawRead(c, r, Foreign) \in Seq(Elem) /\ Len(RawRead(c, r, Foreign)) = r
               /\ r <= Size - b.begin => RawRead(c, r, Foreign) = data
  <1> DEFINE s == RawStore(b, data)
             c == produce(s, r)
             d == RawRead(c, r, Foreign)
  <1>1. /\ WellFormed(s) /\ count(s) = count(b) /\ s.begin = b.begin
        /\ Len(data) <= Size - b.begin =>
              \A i \in 1 .. Len(data) : s.buf[b.begin + i - 1] = data[i]
    BY RawStoreKeeps
  <1> HIDE DEF s
  <1>2. /\ WellFormed(c) /\ count(c) = count(s) + Produced(s, r)
        /\ c.buf = s.buf /\ c.begin = s.begin
    BY <1>1, ProduceCount
  <1> HIDE DEF c
  <1>3. count(c) = count(b) + Least(r, getFree(b))
    BY <1>1, <1>2 DEF Produced, getFree
  <1>4. c.begin \in 0 .. Size - 1 /\ c.buf \in [Index -> Elem] /\ Size \in Nat
    BY <1>2, SizeAssumption DEF WellFormed, RingBuffers, Index
  <1>5. ASSUME NEW i \in 1 .. r PROVE d[i] \in Elem
    <2>1. CASE c.begin + i - 1 < Size
      <3>1. c.begin + i - 1 \in Index
        BY <2>1, <1>4 DEF Index
      <3> QED BY <3>1, <2>1, <1>4 DEF RawRead
    <2>2. CASE ~(c.begin + i - 1 < Size)
      BY <2>2, RxAssumption DEF RawRead, Foreign
    <2> QED BY <2>1, <2>2
  <1>6. d \in Seq(Elem) /\ Len(d) = r
    <2>1. d = [i \in 1 .. r |-> d[i]]
      BY DEF RawRead
    <2> HIDE DEF d
    <2>2. [i \in 1 .. r |-> d[i]] \in Seq(Elem) /\ Len([i \in 1 .. r |-> d[i]]) = r
      BY <1>5
    <2> QED BY <2>1, <2>2
  <1>7. ASSUME r <= Size - b.begin PROVE d = data
    <2>1. ASSUME NEW i \in 1 .. r PROVE d[i] = data[i]
      <3>1. c.begin + i - 1 < Size
        BY <1>1, <1>2, <1>4, <1>7
      <3>2. d[i] = c.buf[c.begin + i - 1]
        BY <3>1 DEF RawRead
      <3> QED BY <3>2, <1>1, <1>2, <1>7
    <2> HIDE DEF d
    <2> QED BY <2>1, <1>6, SeqEqual
  <1> QED BY <1>2, <1>3, <1>6, <1>7 DEF c, s, d

-----------------------------------------------------------------------------
\* A new connection: nothing has arrived and every queue is empty.
LEMMA RxInit == Init => RxInv
  <1> SUFFICES ASSUME Init PROVE RxInv
    OBVIOUS
  <1>1. rx \in RingBuffers /\ ~rx.wrap /\ count(rx) = 0
    <2>1. [k \in Index |-> Foreign] \in [Index -> Elem] /\ 0 \in Index
      BY RxAssumption, SizeAssumption DEF Foreign, Index
    <2> QED BY <2>1 DEF Init, NewRingBuffer, RingBuffers, count
  <1>2. /\ arrived = 0 /\ taken = 0 /\ pipe = <<>> /\ got = <<>> /\ short = {}
        /\ notify = FALSE /\ at = "idle"
    BY DEF Init
  <1>3. TypeOK
    <2>1. pipe \in Seq(Elem) /\ Len(pipe) = 0 /\ got \in Seq(Elem)
      BY <1>2
    <2>2. MaxBytes \in Nat /\ PipeCap \in Nat
      BY RxAssumption
    <2>3. arrived \in 0 .. MaxBytes /\ taken \in 0 .. arrived /\ Len(pipe) <= PipeCap
      BY <1>2, <2>1, <2>2
    <2>4. /\ notify \in BOOLEAN /\ short \subseteq {"send", "array", "room"}
          /\ at \in {"idle", "first", "loop", "spin"}
      BY <1>2
    <2> QED BY <1>1, <2>1, <2>3, <2>4 DEF TypeOK, WrapMeansFull
  <1>4. got \o pipe = Bytes(0, taken) /\ Len(got) + Len(pipe) + count(rx) = taken
    <2> DEFINE s == Bytes(0, 0)
    <2>1. s \in Seq(Elem) /\ Len(s) = 0
      <3>1. 0 \in Nat /\ 0 \in 0 .. MaxBytes
        BY RxAssumption
      <3> HIDE DEF s
      <3> QED BY <3>1, BytesAre DEF s
    <2> HIDE DEF s
    <2>2. s = <<>>
      BY <2>1, EmptySeq
    <2>3. <<>> \o <<>> = <<>> /\ Len(<<>>) = 0
      OBVIOUS
    <2> QED BY <1>1, <1>2, <2>2, <2>3 DEF s
  <1> QED BY <1>1, <1>3, <1>4 DEF RxInv, ExactUntilShort, NumberKept

\* Steps that move no byte.
LEMMA RxControlStep ==
    ASSUME RxInv, UNCHANGED <<taken, rx, pipe, got, notify, short>>,
           arrived' \in taken .. MaxBytes, at' \in {"idle", "first", "loop", "spin"}
    PROVE  RxInv'
  <1>1. TypeOK'
    <2>1. taken \in Nat /\ MaxBytes \in Nat
      BY RxAssumption DEF RxInv, TypeOK
    <2>2. arrived' \in 0 .. MaxBytes /\ taken \in 0 .. arrived'
      BY <2>1
    <2> QED BY <2>2 DEF RxInv, TypeOK
  <1> QED BY <1>1 DEF RxInv, ExactUntilShort, NumberKept

\* The application takes from the socketpair what it has not read yet.
LEMMA RxReadStep == ASSUME RxInv, zts_read PROVE RxInv'
  <1>1. PICK k \in 1 .. Len(pipe) : /\ got' = got \o SubSeq(pipe, 1, k)
                                    /\ pipe' = SubSeq(pipe, k + 1, Len(pipe))
    BY DEF zts_read
  <1>2. UNCHANGED <<arrived, taken, rx, notify, at, short>>
    BY DEF zts_read
  <1>3. /\ pipe \in Seq(Elem) /\ got \in Seq(Elem) /\ Len(pipe) <= PipeCap
        /\ Len(pipe) \in Nat /\ Len(got) \in Nat /\ PipeCap \in Nat
    BY RxAssumption DEF RxInv, TypeOK
  <1>4. /\ got' \in Seq(Elem) /\ pipe' \in Seq(Elem) /\ Len(got') = Len(got) + k
        /\ Len(pipe') = Len(pipe) - k /\ got' \o pipe' = got \o pipe
    <2>1. MovedFront(Elem, got, pipe, k)
      BY <1>3, MoveFront
    <2> QED BY <1>1, <2>1 DEF MovedFront
  <1>5. Len(pipe') <= PipeCap /\ Len(got') + Len(pipe') = Len(got) + Len(pipe)
    BY <1>3, <1>4
  <1>6. TypeOK'
    BY <1>2, <1>4, <1>5 DEF RxInv, TypeOK
  <1> QED BY <1>2, <1>4, <1>5, <1>6 DEF RxInv, ExactUntilShort, NumberKept

\* One turn of the loop: what is received, sent and left.
LEMMA RxTurnStep == ASSUME RxInv, ReadTurn PROVE RxInv'
  <1> DEFINE r == Least(arrived - taken, ReadMax)
             data == Bytes(taken, taken + r)
             b2 == produce(RawStore(rx, data), r)
             n == StreamSent(r)
             raw == RawRead(b2, r, Foreign)
  <1>1. /\ arrived \in Nat /\ taken \in Nat /\ taken <= arrived /\ arrived <= MaxBytes
        /\ MaxBytes \in Nat /\ ReadMax \in Nat /\ ReadMax > 0 /\ PipeCap \in Nat
        /\ pipe \in Seq(Elem) /\ Len(pipe) \in Nat /\ Len(pipe) <= PipeCap
        /\ got \in Seq(Elem) /\ Len(got) \in Nat
    BY RxAssumption DEF RxInv, TypeOK
  <1>2. r \in Nat /\ taken + r <= arrived
    BY <1>1 DEF Least
  <1>3. n \in Nat /\ n <= r /\ Len(pipe) + n <= PipeCap
    <2> HIDE DEF r
    <2> QED BY <1>1, <1>2 DEF StreamSent, Least
  <1>4. WellFormed(rx) /\ count(rx) \in 0 .. Size /\ getFree(rx) \in 0 .. Size
        /\ getFree(rx) = Size - count(rx) /\ Size \in Nat /\ rx.begin \in 0 .. Size - 1
    <2>1. WellFormed(rx)
      BY RxWellFormed DEF RxInv
    <2> QED BY <2>1, CountBounds, SizeAssumption DEF getFree, WellFormed, RingBuffers, Index
  <1>5. /\ taken' = taken + r /\ rx' = consume(b2, n)
        /\ \E d \in {raw, data} : pipe' = pipe \o SubSeq(d, 1, n)
        /\ at' \in {"idle", "loop"} /\ notify' \in BOOLEAN
        /\ short' = short \union (IF n < r THEN {"send"} ELSE {})
                          \union (IF r > Size - rx.begin THEN {"array"} ELSE {})
                          \union (IF r > getFree(rx) THEN {"room"} ELSE {})
        /\ UNCHANGED <<arrived, got>>
    BY DEF ReadTurn
  <1> HIDE DEF r
  <1>6. data \in Seq(Elem) /\ Len(data) = r
    <2>1. taken + r \in taken .. MaxBytes /\ (taken + r) - taken = r
      BY <1>1, <1>2
    <2> QED BY <2>1, <1>1, BytesAre
  <1> HIDE DEF n, data
  <1>7. /\ WellFormed(b2) /\ count(b2) = count(rx) + Least(r, getFree(rx))
        /\ raw \in Seq(Elem) /\ Len(raw) = r
        /\ r <= Size - rx.begin => raw = data
    BY <1>2, <1>4, <1>6, Received
  <1> HIDE DEF b2, raw
  <1>8. /\ WellFormed(rx') /\ count(rx') = count(b2) - Consumed(b2, n)
    BY <1>3, <1>5, <1>7, ConsumeContents
  <1>9. PICK d \in {raw, data} : pipe' = pipe \o SubSeq(d, 1, n)
    BY <1>5
  <1>10. d \in Seq(Elem) /\ Len(d) = r
    BY <1>6, <1>7, <1>9
  <1>11. SubSeq(d, 1, n) \in Seq(Elem) /\ Len(SubSeq(d, 1, n)) = n
    BY <1>3, <1>2, <1>10
  <1>12. pipe' \in Seq(Elem) /\ Len(pipe') = Len(pipe) + n
    BY <1>1, <1>9, <1>11, ConcatProperties
  <1>13. TypeOK'
    <2>1. arrived' \in 0 .. MaxBytes /\ taken' \in 0 .. arrived' /\ Len(pipe') <= PipeCap
      BY <1>1, <1>2, <1>3, <1>5, <1>12
    <2>2. rx' \in RingBuffers /\ WrapMeansFull(rx')
      BY <1>8 DEF WellFormed
    <2>3. short' \subseteq {"send", "array", "room"}
      <3>1. short \subseteq {"send", "array", "room"}
        BY DEF RxInv, TypeOK
      <3> QED BY <3>1, <1>5
    <2> QED BY <2>1, <2>2, <2>3, <1>1, <1>5, <1>12 DEF TypeOK, WrapMeansFull
  <1>14. ASSUME "room" \notin short'
         PROVE  "room" \notin short /\ r <= getFree(rx) /\ count(rx') = count(rx) + r - n
    <2>1. "room" \notin short
      BY <1>14, <1>5
    <2>2. ~(r > getFree(rx))
      BY <1>14, <1>5
    <2>3. r <= getFree(rx) /\ count(b2) = count(rx) + r
      BY <2>2, <1>2, <1>4, <1>7 DEF Least
    <2>4. Consumed(b2, n) = n
      BY <2>3, <1>2, <1>3, <1>4 DEF Consumed, Least
    <2> QED BY <2>1, <2>3, <2>4, <1>2, <1>3, <1>4, <1>8
  <1>15. NumberKept'
    <2> SUFFICES ASSUME "room" \notin short'
                 PROVE  Len(got') + Len(pipe') + count(rx') = taken'
      BY DEF NumberKept
    <2>1. Len(got) + Len(pipe) + count(rx) = taken
      BY <1>14 DEF RxInv, NumberKept
    <2>2. count(rx) \in Nat /\ count(rx') = count(rx) + r - n
      BY <1>4, <1>14
    <2>3. /\ got' = got /\ taken' = taken + r /\ Len(pipe') = Len(pipe) + n
          /\ Len(got) \in Nat /\ Len(pipe) \in Nat /\ taken \in Nat /\ r \in Nat /\ n \in Nat
      BY <1>1, <1>2, <1>3, <1>5, <1>12
    <2> QED BY ONLY <2>1, <2>2, <2>3
  <1>16. ExactUntilShort'
    <2> SUFFICES ASSUME short' = {}
                 PROVE  count(rx') = 0 /\ got' \o pipe' = Bytes(0, taken')
      BY DEF ExactUntilShort
    <2>1. short = {}
      BY <1>5
    <2>2. ~(n < r) /\ ~(r > Size - rx.begin) /\ "room" \notin short'
      BY <1>5
    <2>3. n = r /\ r <= Size - rx.begin
      BY <2>2, <1>2, <1>3, <1>4
    <2>4. count(rx) = 0 /\ got \o pipe = Bytes(0, taken)
      BY <2>1 DEF RxInv, ExactUntilShort
    <2>5. count(rx') = 0
      BY <2>2, <2>3, <2>4, <1>14, <1>2
    <2>6. d = data
      BY <2>3, <1>7, <1>9
    <2>7. SubSeq(d, 1, n) = data
      <3>1. SubSeq(data, 1, Len(data)) = data
        BY <1>6, SubSeqFull
      <3> QED BY <3>1, <2>3, <2>6, <1>6
    <2>8. pipe' = pipe \o data
      BY <2>7, <1>9
    <2>9. got \o (pipe \o data) = (got \o pipe) \o data
      <3>1. Associate(got, pipe, data)
        BY <1>1, <1>6, Associative
      <3> QED BY <3>1 DEF Associate
    <2>10. Bytes(0, taken) \o data = Bytes(0, taken + r)
      <3>1. taken + r \in taken .. MaxBytes
        BY <1>1, <1>2
      <3>2. Bytes(0, taken) \o Bytes(taken, taken + r) = Bytes(0, taken + r)
        BY <3>1, <1>1, BytesConcat
      <3> QED BY <3>2 DEF data
    <2> QED BY <2>4, <2>5, <2>8, <2>9, <2>10, <1>5
  <1> QED BY <1>13, <1>15, <1>16 DEF RxInv

\* Every step keeps the invariant.
LEMMA RxStep == RxInv /\ [Next]_vars => RxInv'
  <1> SUFFICES ASSUME RxInv, [Next]_vars PROVE RxInv'
    OBVIOUS
  <1>1. arrived \in taken .. MaxBytes /\ at \in {"idle", "first", "loop", "spin"}
        /\ taken \in Nat /\ arrived \in Nat /\ MaxBytes \in Nat
    BY RxAssumption DEF RxInv, TypeOK
  <1>2. CASE Arrive
    <2>1. PICK k \in 1 .. MaxBytes - arrived : arrived' = arrived + k
      BY <1>2 DEF Arrive
    <2>2. arrived' \in taken .. MaxBytes
      BY <2>1, <1>1
    <2> QED BY <2>2, <1>1, <1>2, RxControlStep DEF Arrive
  <1>3. CASE EvRd
    BY <1>1, <1>3, RxControlStep DEF EvRd
  <1>4. CASE ReadTurn
    BY <1>4, RxTurnStep
  <1>5. CASE ReadTurnFull
    BY <1>1, <1>5, RxControlStep DEF ReadTurnFull
  <1>6. CASE phyOnUnixWritable \/ UNCHANGED vars
    BY <1>1, <1>6, RxControlStep DEF phyOnUnixWritable, vars
  <1>7. CASE zts_read
    BY <1>7, RxReadStep
  <1> QED BY <1>2, <1>3, <1>4, <1>5, <1>6, <1>7 DEF Next

\* The invariant holds in every reachable state.
LEMMA RxInvariant == Spec => []RxInv
  BY RxInit, RxStep, PTL DEF Spec

-----------------------------------------------------------------------------
\* RXbuf stays well-formed, although pico_cb_tcp_read stores into it and reads
\* from it through get_buf(), past its indices.
THEOREM RxTypeCorrect == Spec => []TypeOK
  BY RxInvariant, PTL DEF RxInv

\* Until the first short send, wrapped read or full RXbuf, the application gets
\* the bytes of the stream, all of them and in order.
THEOREM RxExactUntilShort == Spec => []ExactUntilShort
  BY RxInvariant, PTL DEF RxInv

\* However many sends were short, no byte is lost or added in number while RXbuf
\* has room for what the stack returns.
THEOREM RxNumberKept == Spec => []NumberKept
  BY RxInvariant, PTL DEF RxInv
=============================================================================
