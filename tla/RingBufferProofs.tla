-------------------------- MODULE RingBufferProofs --------------------------
(***************************************************************************)
(* What the methods of RingBuffer do to a well-formed buffer, for every     *)
(* Size and Elem: where the indices go, what count() becomes, and how the   *)
(* contents change; and that RingBufferSpec keeps its invariant and         *)
(* implements BoundedFifo.                                                  *)
(***************************************************************************)
EXTENDS RingBufferSpec, SequenceTheorems, TLAPS

\* A well-formed buffer: the inductive invariant of every method.
WellFormed(b) == b \in RingBuffers /\ WrapMeansFull(b)

\* The only residues the methods take are of numbers up to Size.
LEMMA ModSize ==
    ASSUME NEW a \in 0 .. Size
    PROVE  a % Size = IF a = Size THEN 0 ELSE a
  BY SizeAssumption

\* count() and getFree() are sizes, and a full buffer is not an empty one.
LEMMA CountBounds ==
    ASSUME NEW b, WellFormed(b)
    PROVE  count(b) \in 0 .. Size /\ getFree(b) \in 0 .. Size
  BY SizeAssumption DEF WellFormed, RingBuffers, Index, count, getFree

\* Advancing an index by at most Size elements goes once round the array.
LEMMA AdvanceValue ==
    ASSUME NEW i \in Index, NEW n \in 0 .. Size
    PROVE  /\ Advance(i, n) = IF i + n < Size THEN i + n ELSE i + n - Size
           /\ Advance(i, n) \in Index
  <1>1. ASSUME n <= Size - i PROVE Advance(i, n) = (i + n) % Size
    BY <1>1, SizeAssumption DEF Advance, Index, Least
  <1>2. ASSUME ~(n <= Size - i)
        PROVE  Advance(i, n) = (((i + (Size - i)) % Size) + (n - (Size - i))) % Size
    BY <1>2, SizeAssumption DEF Advance, Index, Least
  <1>3. CASE n <= Size - i
    <2>1. i + n \in 0 .. Size
      BY <1>3, SizeAssumption DEF Index
    <2> QED BY <2>1, <1>3, <1>1, ModSize, SizeAssumption DEF Index
  <1>4. CASE ~(n <= Size - i)
    <2>1. i + (Size - i) = Size /\ Size \in 0 .. Size
      BY SizeAssumption DEF Index
    <2>2. (i + (Size - i)) % Size = 0
      BY <2>1, ModSize
    <2>3. n - (Size - i) \in 0 .. Size /\ n - (Size - i) < Size
      BY <1>4, SizeAssumption DEF Index
    <2>4. (0 + (n - (Size - i))) % Size = n - (Size - i)
      BY <2>3, ModSize, SizeAssumption DEF Index
    <2> QED BY <2>2, <2>3, <2>4, <1>2, <1>4, SizeAssumption DEF Index
  <1> QED BY <1>3, <1>4

\* The three shapes of a well-formed buffer: full, in one piece, in two.
LEMMA CountCases ==
    ASSUME NEW b, WellFormed(b)
    PROVE  \/ b.wrap /\ b.begin = b.end /\ count(b) = Size
           \/ ~b.wrap /\ b.begin <= b.end /\ count(b) = b.end - b.begin
           \/ ~b.wrap /\ b.end < b.begin /\ count(b) = Size + b.end - b.begin
  BY SizeAssumption DEF WellFormed, WrapMeansFull, RingBuffers, Index, count

-----------------------------------------------------------------------------
\* consume(n) leaves a well-formed buffer whose contents are the old ones
\* without the first min(n, count()) elements.
LEMMA ConsumeContents ==
    ASSUME NEW b, WellFormed(b), NEW n \in Nat
    PROVE  /\ WellFormed(consume(b, n))
           /\ count(consume(b, n)) = count(b) - Consumed(b, n)
           /\ Contents(consume(b, n)) =
                 SubSeq(Contents(b), Consumed(b, n) + 1, Len(Contents(b)))
  <1> DEFINE m == Consumed(b, n)
             c == consume(b, n)
  <1>1. count(b) \in 0 .. Size
    BY CountBounds
  <1>2. m \in 0 .. Size /\ m <= count(b)
    BY <1>1, SizeAssumption DEF Consumed, Least
  <1>3. b \in RingBuffers /\ b.begin \in Index /\ b.end \in Index
        /\ b.wrap \in BOOLEAN /\ b.buf \in [Index -> Elem]
    BY DEF WellFormed, RingBuffers
  <1>4. CASE m = 0
    <2>1. c = b
      BY <1>4 DEF consume
    <2> QED BY <2>1, <1>1, <1>4 DEF Contents
  <1>5. CASE m # 0
    <2>1. c = [b EXCEPT !.begin = Advance(b.begin, m), !.wrap = FALSE]
      BY <1>5 DEF consume
    <2>2. /\ Advance(b.begin, m) \in Index
          /\ Advance(b.begin, m) = IF b.begin + m < Size THEN b.begin + m
                                                 ELSE b.begin + m - Size
      BY <1>3, <1>2, AdvanceValue
    <2>3. /\ c \in RingBuffers /\ c.buf = b.buf /\ c.end = b.end /\ ~c.wrap
          /\ c.begin = Advance(b.begin, m)
      BY <2>1, <2>2, <1>3 DEF RingBuffers
    <2>4. /\ b.begin \in Index /\ b.end \in Index /\ c.begin \in Index
          /\ c.end = b.end
          /\ c.begin = IF b.begin + m < Size THEN b.begin + m ELSE b.begin + m - Size
      BY <1>3, <2>3, <2>2
    <2>5. WellFormed(c)
      BY <2>3 DEF WellFormed, WrapMeansFull
    <2>6. count(c) = count(b) - m
      <3>1. count(c) = IF c.end = c.begin THEN 0
                       ELSE IF c.end > c.begin THEN c.end - c.begin
                       ELSE Size + c.end - c.begin
        BY <2>3 DEF count
      <3> HIDE DEF m, c
      <3>2. \/ b.begin = b.end /\ count(b) = Size
            \/ b.begin <= b.end /\ count(b) = b.end - b.begin
            \/ b.end < b.begin /\ count(b) = Size + b.end - b.begin
        BY CountCases
      <3>3. \A x, y, z \in Index : \A k \in 1 .. Size : \A q \in 0 .. Size :
               /\ k <= q
               /\ z = IF x + k < Size THEN x + k ELSE x + k - Size
               /\ \/ x = y /\ q = Size
                  \/ x <= y /\ q = y - x
                  \/ y < x /\ q = Size + y - x
               => (IF y = z THEN 0 ELSE IF y > z THEN y - z ELSE Size + y - z) = q - k
        BY SizeAssumption DEF Index
      <3>4. m \in 1 .. Size
        BY <1>2, <1>5, SizeAssumption
      <3> QED BY ONLY <3>1, <3>2, <3>3, <3>4, <2>4, <1>1, <1>2
    <2>7. Contents(c) = SubSeq(Contents(b), m + 1, Len(Contents(b)))
      <3> HIDE DEF m, c
      <3>1. Len(Contents(b)) = count(b)
        BY <1>1 DEF Contents
      <3>2. Contents(c) = [i \in 1 .. count(b) - m |->
                IF c.begin + i - 1 < Size THEN b.buf[c.begin + i - 1]
                                          ELSE b.buf[c.begin + i - 1 - Size]]
        BY <2>3, <2>6 DEF Contents
      <3>3. ASSUME NEW i \in 1 .. count(b) - m
            PROVE  Contents(b)[m + i] =
                IF c.begin + i - 1 < Size THEN b.buf[c.begin + i - 1]
                                          ELSE b.buf[c.begin + i - 1 - Size]
        <4>1. m + i \in 1 .. count(b)
          BY <1>1, <1>2
        <4>2. Contents(b)[m + i] =
                IF b.begin + (m + i) - 1 < Size THEN b.buf[b.begin + (m + i) - 1]
                                          ELSE b.buf[b.begin + (m + i) - 1 - Size]
          BY <4>1 DEF Contents
        <4> QED BY ONLY <4>2, <2>4, <1>1, <1>2, i \in 1 .. count(b) - m, SizeAssumption DEF Index
      <3>4. SubSeq(Contents(b), m + 1, count(b)) =
                [i \in 1 .. count(b) - m |-> Contents(b)[m + i]]
        BY <1>1, <1>2
      <3> QED BY <3>1, <3>2, <3>3, <3>4
    <2> QED BY <2>5, <2>6, <2>7
  <1> QED BY <1>4, <1>5

\* read(n) moves the indices exactly as consume(n) does, and dest receives the
\* first min(n, count()) elements of the contents.
LEMMA ReadContents ==
    ASSUME NEW b, WellFormed(b), NEW n \in Nat
    PROVE  /\ read(b, n) = consume(b, n)
           /\ ReadOut(b, n) = SubSeq(Contents(b), 1, Consumed(b, n))
  <1> DEFINE m == Consumed(b, n)
             f == Least(m, Size - b.begin)
  <1>1. read(b, n) = consume(b, n)
    BY DEF read, consume, Advance
  <1>2. count(b) \in 0 .. Size
    BY CountBounds
  <1>3. m \in 0 .. Size /\ m <= count(b)
    BY <1>2, SizeAssumption DEF Consumed, Least
  <1>4. b.begin \in Index
    BY DEF WellFormed, RingBuffers
  <1>5. SubSeq(Contents(b), 1, m) = [i \in 1 .. m |-> Contents(b)[i]]
    BY <1>2, <1>3 DEF Contents
  <1>6. ASSUME NEW i \in 1 .. m
        PROVE  Contents(b)[i] = IF i <= f THEN b.buf[b.begin + i - 1]
                  ELSE b.buf[((b.begin + f) % Size) + i - f - 1]
    <2> HIDE DEF m
    <2>1. i \in 1 .. count(b)
      BY <1>2, <1>3
    <2>2. Contents(b)[i] = IF b.begin + i - 1 < Size THEN b.buf[b.begin + i - 1]
                           ELSE b.buf[b.begin + i - 1 - Size]
      BY <2>1 DEF Contents
    <2>3. CASE i <= f
      <3>1. b.begin + i - 1 < Size
        BY ONLY <2>3, <1>3, <1>4, i \in 1 .. m, SizeAssumption DEF Index, Least
      <3> QED BY <3>1, <2>2, <2>3
    <2>4. CASE ~(i <= f)
      <3>1. f = Size - b.begin
        BY ONLY <2>4, <1>3, <1>4, i \in 1 .. m, SizeAssumption DEF Index, Least
      <3>2. b.begin + f = Size /\ Size \in 0 .. Size
        BY ONLY <3>1, <1>4, SizeAssumption DEF Index
      <3>3. (b.begin + f) % Size = 0
        BY <3>2, ModSize
      <3>4. 0 + i - f - 1 = b.begin + i - 1 - Size /\ ~(b.begin + i - 1 < Size)
        BY ONLY <3>1, <2>4, <1>3, <1>4, i \in 1 .. m, SizeAssumption DEF Index
      <3> QED BY <3>3, <3>4, <2>2, <2>4
    <2> QED BY <2>3, <2>4
  <1>7. ReadOut(b, n) = [i \in 1 .. m |-> IF i <= f THEN b.buf[b.begin + i - 1]
                  ELSE b.buf[((b.begin + f) % Size) + i - f - 1]]
    BY DEF ReadOut
  <1> HIDE DEF m, f
  <1>8. ReadOut(b, n) = SubSeq(Contents(b), 1, m)
    BY <1>5, <1>6, <1>7
  <1> QED BY <1>1, <1>8 DEF m

-----------------------------------------------------------------------------
\* A buffer that differs from b in its memory, and in its end and wrap as
\* produce(n) and write() set them, is well-formed and holds m more elements.
LEMMA ExtendedCount ==
    ASSUME NEW b, WellFormed(b), NEW m \in 1 .. Size, m <= getFree(b),
           NEW mem \in [Index -> Elem], NEW c,
           c = [buf |-> mem, begin |-> b.begin, end |-> Advance(b.end, m),
                wrap |-> (b.begin = Advance(b.end, m)) \/ b.wrap]
    PROVE  WellFormed(c) /\ count(c) = count(b) + m
  <1>1. count(b) \in 0 .. Size /\ count(b) + m <= Size
    BY CountBounds, SizeAssumption DEF getFree
  <1>2. b.begin \in Index /\ b.end \in Index /\ b.wrap \in BOOLEAN
    BY DEF WellFormed, RingBuffers
  <1>3. /\ Advance(b.end, m) \in Index
        /\ Advance(b.end, m) = IF b.end + m < Size THEN b.end + m ELSE b.end + m - Size
    BY <1>2, AdvanceValue
  <1>4. /\ c.begin = b.begin /\ c.end = Advance(b.end, m) /\ c.buf = mem
        /\ c.wrap = ((b.begin = Advance(b.end, m)) \/ b.wrap)
    OBVIOUS
  <1>5. c \in RingBuffers
    BY <1>2, <1>3 DEF RingBuffers
  <1>6. \/ b.begin <= b.end /\ count(b) = b.end - b.begin
        \/ b.end < b.begin /\ count(b) = Size + b.end - b.begin
    BY ONLY <1>1, <1>2, CountCases, WellFormed(b), m \in 1 .. Size, SizeAssumption DEF Index
  <1>7. ~b.wrap
    BY <1>1, CountCases, SizeAssumption
  <1>8. c.wrap <=> c.begin = c.end
    BY <1>4, <1>7
  <1>9. \A x, y, z \in Index : \A k \in 1 .. Size : \A q \in 0 .. Size :
           /\ q + k <= Size
           /\ z = IF y + k < Size THEN y + k ELSE y + k - Size
           /\ \/ x <= y /\ q = y - x
              \/ y < x /\ q = Size + y - x
           => (IF z = x THEN Size ELSE IF z > x THEN z - x ELSE Size + z - x) = q + k
    BY SizeAssumption DEF Index
  <1>10. count(c) = IF c.end = c.begin THEN Size
                    ELSE IF c.end > c.begin THEN c.end - c.begin
                    ELSE Size + c.end - c.begin
    BY <1>8 DEF count
  <1>11. /\ b.begin \in Index /\ b.end \in Index /\ c.end \in Index
         /\ c.begin = b.begin
         /\ c.end = IF b.end + m < Size THEN b.end + m ELSE b.end + m - Size
    BY <1>2, <1>3, <1>4
  <1>12. count(c) = count(b) + m
    BY ONLY <1>1, <1>6, <1>9, <1>10, <1>11, m \in 1 .. Size
  <1> QED BY <1>5, <1>8, <1>12 DEF WellFormed, WrapMeansFull

\* produce(n) and write(data) extend the buffer; m = 0 leaves it alone.
LEMMA ProduceCount ==
    ASSUME NEW b, WellFormed(b), NEW n \in Nat
    PROVE  /\ WellFormed(produce(b, n))
           /\ count(produce(b, n)) = count(b) + Produced(b, n)
           /\ produce(b, n).buf = b.buf /\ produce(b, n).begin = b.begin
  <1> DEFINE m == Produced(b, n)
             e == Advance(b.end, m)
  <1>1. m \in 0 .. Size /\ m <= getFree(b) /\ count(b) \in 0 .. Size
    BY CountBounds, SizeAssumption DEF Produced, Least
  <1>2. CASE m = 0
    BY <1>1, <1>2 DEF produce
  <1>3. CASE m # 0
    <2>1. m \in 1 .. Size
      BY <1>1, <1>3, SizeAssumption
    <2>2. b \in RingBuffers /\ b.buf \in [Index -> Elem]
      BY DEF WellFormed, RingBuffers
    <2>3. produce(b, n) = [b EXCEPT !.end = e, !.wrap = (b.begin = e) \/ @]
      BY <1>3 DEF produce
    <2>4. produce(b, n) = [buf |-> b.buf, begin |-> b.begin, end |-> e,
                           wrap |-> (b.begin = e) \/ b.wrap]
      BY <2>2, <2>3 DEF RingBuffers
    <2> HIDE DEF m
    <2>5. /\ WellFormed(produce(b, n))
          /\ count(produce(b, n)) = count(b) + m
      BY <2>1, <2>2, <2>4, <1>1, ExtendedCount
    <2> QED BY <2>4, <2>5 DEF m
  <1> QED BY <1>2, <1>3

\* The memory after write(data): each of the first m elements of data is at the
\* place the contents continue at, and no other place has changed.
LEMMA WriteMemory ==
    ASSUME NEW b, WellFormed(b), NEW data \in Seq(Elem),
           Produced(b, Len(data)) # 0
    PROVE  LET m == Produced(b, Len(data))
               w == write(b, data)
           IN  /\ m \in 1 .. Size /\ m <= getFree(b) /\ m <= Len(data)
               /\ w.begin = b.begin /\ w.end = Advance(b.end, m)
               /\ w.wrap = ((b.begin = Advance(b.end, m)) \/ b.wrap)
               /\ w = [buf |-> w.buf, begin |-> w.begin, end |-> w.end, wrap |-> w.wrap]
               /\ w.buf \in [Index -> Elem]
               /\ \A k \in Index :
                     w.buf[k] = IF b.end <= k /\ k < b.end + m THEN data[1 + k - b.end]
                                ELSE IF k < b.end + m - Size THEN data[1 + k + Size - b.end]
                                ELSE b.buf[k]
  <1> DEFINE m == Produced(b, Len(data))
             w == write(b, data)
             f == Least(m, Size - b.end)
             mem1 == MemCopy(b.buf, b.end, data, 0, f)
             end1 == (b.end + f) % Size
             mem2 == IF f < m THEN MemCopy(mem1, end1, data, f, m - f) ELSE mem1
             mem3 == [k \in Index |->
                        IF b.end <= k /\ k < b.end + m THEN data[1 + k - b.end]
                        ELSE IF k < b.end + m - Size THEN data[1 + k + Size - b.end]
                        ELSE b.buf[k]]
  <1>1. m \in 1 .. Size /\ m <= getFree(b) /\ m <= Len(data) /\ Len(data) \in Nat
    BY CountBounds, SizeAssumption DEF Produced, Least
  <1>2. b.begin \in Index /\ b.end \in Index /\ b.buf \in [Index -> Elem]
    BY DEF WellFormed, RingBuffers
  <1>3. w = [buf |-> mem2, begin |-> b.begin, end |-> Advance(b.end, m),
             wrap |-> (b.begin = Advance(b.end, m)) \/ b.wrap]
    BY DEF write, Advance
  <1>4. f \in 0 .. Size /\ f <= m /\ f <= Size - b.end
        /\ (f = m \/ f = Size - b.end)
    <2> HIDE DEF m
    <2> QED BY ONLY <1>1, <1>2, SizeAssumption DEF Index, Least
  <1>5. mem1 = [k \in Index |-> IF b.end <= k /\ k < b.end + f THEN data[0 + 1 + k - b.end]
                                ELSE b.buf[k]]
    BY DEF MemCopy
  <1> HIDE DEF m, f, w
  <1>6. mem2 = mem3
    <2>1. CASE f < m
      <3>1. f = Size - b.end /\ b.end + f = Size /\ Size \in 0 .. Size
        BY ONLY <2>1, <1>1, <1>2, <1>4, SizeAssumption DEF Index
      <3>2. end1 = 0
        BY <3>1, ModSize
      <3>3. mem2 = [k \in Index |-> IF 0 <= k /\ k < 0 + (m - f)
                                    THEN data[f + 1 + k - 0] ELSE mem1[k]]
        BY <2>1, <3>2 DEF MemCopy
      <3>4. ASSUME NEW k \in Index
            PROVE  (IF 0 <= k /\ k < 0 + (m - f) THEN data[f + 1 + k - 0] ELSE mem1[k])
                   = mem3[k]
        <4>1. mem1[k] = IF b.end <= k /\ k < b.end + f THEN data[0 + 1 + k - b.end]
                        ELSE b.buf[k]
          BY <1>5
        <4> HIDE DEF mem1
        <4>2. m <= Size
          BY ONLY <1>1, SizeAssumption
        <4>3. mem3[k] = IF b.end <= k /\ k < b.end + m THEN data[1 + k - b.end]
                        ELSE IF k < b.end + m - Size THEN data[1 + k + Size - b.end]
                        ELSE b.buf[k]
          OBVIOUS
        <4> HIDE DEF mem3
        <4>4. m \in Int /\ b.end \in Int /\ k \in Int /\ Size \in Int /\ f \in Int
              /\ 0 <= k /\ k < Size
          BY ONLY <1>1, <1>2, <1>4, k \in Index, SizeAssumption DEF Index
        <4>5. CASE k < m - f
          <5>1. f + 1 + k - 0 = 1 + k + Size - b.end /\ k < b.end + m - Size /\ ~(b.end <= k)
            BY ONLY <4>5, <4>4, <4>2, <3>1
          <5> QED BY <5>1, <4>3, <4>4, <4>5
        <4>6. CASE ~(k < m - f) /\ b.end <= k
          <5>1. 0 + 1 + k - b.end = 1 + k - b.end /\ k < b.end + f /\ k < b.end + m
            BY ONLY <4>6, <4>4, <2>1, <3>1
          <5> QED BY <5>1, <4>1, <4>3, <4>4, <4>6
        <4>7. CASE ~(k < m - f) /\ ~(b.end <= k)
          <5>1. ~(k < b.end + m - Size)
            BY ONLY <4>7, <4>4, <3>1
          <5> QED BY <5>1, <4>1, <4>3, <4>4, <4>7
        <4> QED BY <4>5, <4>6, <4>7
      <3> HIDE DEF mem1, mem2
      <3> QED BY <3>3, <3>4
    <2>2. CASE ~(f < m)
      <3>1. f = m /\ b.end + m - Size <= 0
        BY ONLY <2>2, <1>1, <1>2, <1>4, SizeAssumption DEF Index
      <3>2. mem2 = mem1
        BY <2>2
      <3>3. ASSUME NEW k \in Index
            PROVE  mem1[k] = mem3[k]
        <4>1. mem1[k] = IF b.end <= k /\ k < b.end + f THEN data[0 + 1 + k - b.end]
                        ELSE b.buf[k]
          BY <1>5
        <4> HIDE DEF mem1
        <4> QED BY ONLY <3>1, <4>1, <1>1, <1>2, k \in Index, SizeAssumption DEF Index
      <3> QED BY <3>2, <3>3, <1>5
    <2> QED BY <2>1, <2>2
  <1>7. ASSUME NEW k \in Index PROVE mem3[k] \in Elem
    <2>1. CASE b.end <= k /\ k < b.end + m
      <3>1. 1 + k - b.end \in 1 .. Len(data)
        BY ONLY <2>1, <1>1, <1>2, k \in Index, SizeAssumption DEF Index
      <3> QED BY <3>1, <2>1
    <2>2. CASE ~(b.end <= k /\ k < b.end + m) /\ k < b.end + m - Size
      <3>1. 1 + k + Size - b.end \in 1 .. Len(data)
        BY ONLY <2>2, <1>1, <1>2, k \in Index, SizeAssumption DEF Index
      <3> QED BY <3>1, <2>2
    <2>3. CASE ~(b.end <= k /\ k < b.end + m) /\ ~(k < b.end + m - Size)
      BY <2>3, <1>2
    <2> QED BY <2>1, <2>2, <2>3
  <1> HIDE DEF mem2
  <1>8. /\ w.buf = mem3 /\ w.begin = b.begin /\ w.end = Advance(b.end, m)
        /\ w.wrap = ((b.begin = Advance(b.end, m)) \/ b.wrap)
        /\ w = [buf |-> w.buf, begin |-> w.begin, end |-> w.end, wrap |-> w.wrap]
    BY <1>3, <1>6
  <1>9. mem3 \in [Index -> Elem]
    BY <1>7
  <1> QED BY <1>1, <1>8, <1>9 DEF m, w

\* The contents are a sequence of elements, as long as count() says.
LEMMA ContentsType ==
    ASSUME NEW b, WellFormed(b)
    PROVE  Contents(b) \in Seq(Elem) /\ Len(Contents(b)) = count(b)
  <1>1. count(b) \in 0 .. Size
    BY CountBounds
  <1>2. b.begin \in Index /\ b.buf \in [Index -> Elem]
    BY DEF WellFormed, RingBuffers
  <1>3. ASSUME NEW i \in 1 .. count(b) PROVE Contents(b)[i] \in Elem
    <2>1. CASE b.begin + i - 1 < Size
      <3>1. b.begin + i - 1 \in Index
        BY ONLY <2>1, <1>1, <1>2, i \in 1 .. count(b), SizeAssumption DEF Index
      <3> QED BY <3>1, <2>1, <1>2 DEF Contents
    <2>2. CASE ~(b.begin + i - 1 < Size)
      <3>1. b.begin + i - 1 - Size \in Index
        BY ONLY <2>2, <1>1, <1>2, i \in 1 .. count(b), SizeAssumption DEF Index
      <3> QED BY <3>1, <2>2, <1>2 DEF Contents
    <2> QED BY <2>1, <2>2
  <1>4. Contents(b) = [i \in 1 .. count(b) |-> Contents(b)[i]]
    BY DEF Contents
  <1> QED BY <1>1, <1>3, <1>4

\* write(data) appends the longest prefix of data that fits, whether or not the
\* bytes are split at the end of the array.
LEMMA WriteContents ==
    ASSUME NEW b, WellFormed(b), NEW data \in Seq(Elem)
    PROVE  /\ WellFormed(write(b, data))
           /\ count(write(b, data)) = count(b) + Produced(b, Len(data))
           /\ Contents(write(b, data)) =
                 Contents(b) \o SubSeq(data, 1, Produced(b, Len(data)))
  <1> DEFINE m == Produced(b, Len(data))
             w == write(b, data)
             q == count(b)
  <1>1. q \in 0 .. Size /\ m \in 0 .. Size /\ m <= getFree(b) /\ m <= Len(data)
        /\ Len(data) \in Nat
    BY CountBounds, SizeAssumption DEF Produced, Least
  <1>2. Contents(b) \in Seq(Elem) /\ Len(Contents(b)) = q
    BY ContentsType
  <1>3. CASE m = 0
    <2>1. w = b
      BY <1>3 DEF write
    <2>2. SubSeq(data, 1, m) = <<>>
      BY <1>3
    <2> QED BY <2>1, <2>2, <1>1, <1>2, <1>3
  <1>4. CASE m # 0
    <2>1. /\ m \in 1 .. Size /\ m <= getFree(b)
          /\ w.begin = b.begin /\ w.end = Advance(b.end, m)
          /\ w.wrap = ((b.begin = Advance(b.end, m)) \/ b.wrap)
          /\ w = [buf |-> w.buf, begin |-> w.begin, end |-> w.end, wrap |-> w.wrap]
          /\ w.buf \in [Index -> Elem]
      BY <1>4, WriteMemory
    <2>2. \A k \in Index :
             w.buf[k] = IF b.end <= k /\ k < b.end + m THEN data[1 + k - b.end]
                        ELSE IF k < b.end + m - Size THEN data[1 + k + Size - b.end]
                        ELSE b.buf[k]
      BY <1>4, WriteMemory
    <2> HIDE DEF m, w
    <2>3. w = [buf |-> w.buf, begin |-> b.begin, end |-> Advance(b.end, m),
               wrap |-> (b.begin = Advance(b.end, m)) \/ b.wrap]
      BY <2>1
    <2>4. WellFormed(w) /\ count(w) = q + m
      BY <2>1, <2>3, ExtendedCount
    <2>5. Contents(b) \o SubSeq(data, 1, m) =
             [i \in 1 .. q + m |-> IF i <= q THEN Contents(b)[i] ELSE data[i - q]]
      <3>1. SubSeq(data, 1, m) \in Seq(Elem) /\ Len(SubSeq(data, 1, m)) = m
        BY <1>1
      <3>2. \A j \in 1 .. m : SubSeq(data, 1, m)[j] = data[j]
        BY <1>1
      <3> HIDE DEF q
      <3> QED BY <3>1, <3>2, <1>1, <1>2
    <2>6. b.begin \in Index /\ b.end \in Index
      BY DEF WellFormed, RingBuffers
    <2>7. \/ b.begin <= b.end /\ q = b.end - b.begin
          \/ b.end < b.begin /\ q = Size + b.end - b.begin
      <3>1. q < Size
        BY ONLY <1>1, <2>1, SizeAssumption DEF getFree
      <3> QED BY ONLY <1>1, <2>6, <3>1, CountCases, WellFormed(b), SizeAssumption DEF Index
    <2>8. q + m <= Size
      BY <1>1, <2>1, SizeAssumption DEF getFree
    <2>9. ASSUME NEW i \in 1 .. q + m
          PROVE  Contents(w)[i] = IF i <= q THEN Contents(b)[i] ELSE data[i - q]
      <3> DEFINE p == IF b.begin + i - 1 < Size THEN b.begin + i - 1
                                                ELSE b.begin + i - 1 - Size
      <3> HIDE DEF q
      <3>1. p \in Index
        BY ONLY <1>1, <2>1, <2>6, <2>8, i \in 1 .. q + m, SizeAssumption, SMTT(30) DEF Index
      <3>2. Contents(w)[i] = w.buf[p]
        BY <2>1, <2>4 DEF Contents
      <3>3. i <= q => Contents(b)[i] = b.buf[p]
        BY <1>1, <2>1 DEF Contents, q
      <3>4. w.buf[p] = IF b.end <= p /\ p < b.end + m THEN data[1 + p - b.end]
                        ELSE IF p < b.end + m - Size THEN data[1 + p + Size - b.end]
                        ELSE b.buf[p]
        BY <2>2, <3>1
      <3>5. /\ i <= q => ~(b.end <= p /\ p < b.end + m) /\ ~(p < b.end + m - Size)
            /\ ~(i <= q) /\ b.end <= p => p < b.end + m /\ 1 + p - b.end = i - q
            /\ ~(i <= q) /\ ~(b.end <= p) => /\ p < b.end + m - Size
                                             /\ 1 + p + Size - b.end = i - q
        <4>1. \A x, y \in Index : \A a, j \in 0 .. Size : \A k \in 1 .. Size :
                LET r == IF x + j - 1 < Size THEN x + j - 1 ELSE x + j - 1 - Size
                IN  /\ a + k <= Size /\ 1 <= j /\ j <= a + k
                    /\ \/ x <= y /\ a = y - x
                       \/ y < x /\ a = Size + y - x
                    => /\ j <= a => ~(y <= r /\ r < y + k) /\ ~(r < y + k - Size)
                       /\ ~(j <= a) /\ y <= r => r < y + k /\ 1 + r - y = j - a
                       /\ ~(j <= a) /\ ~(y <= r) => /\ r < y + k - Size
                                                    /\ 1 + r + Size - y = j - a
          BY ONLY SizeAssumption DEF Index
        <4>2. m \in 1 .. Size /\ i \in 0 .. Size /\ 1 <= i /\ i <= q + m
          BY ONLY <1>1, <2>1, <2>8, i \in 1 .. q + m, SizeAssumption
        <4> QED BY ONLY <4>1, <4>2, <1>1, <2>6, <2>7, <2>8
      <3> HIDE DEF p
      <3> QED BY <3>2, <3>3, <3>4, <3>5
    <2>10. Contents(w) = [i \in 1 .. q + m |-> Contents(w)[i]]
      BY <2>4 DEF Contents
    <2>11. Contents(w) = Contents(b) \o SubSeq(data, 1, m)
      BY <2>5, <2>9, <2>10
    <2> QED BY <2>4, <2>11 DEF m, w
  <1> QED BY <1>3, <1>4

\* produce(n) appends whatever the memory after the contents holds.
LEMMA ProduceContents ==
    ASSUME NEW b, WellFormed(b), NEW n \in Nat
    PROVE  \E t \in [1 .. Produced(b, n) -> Elem] : Contents(produce(b, n)) = Contents(b) \o t
  <1> DEFINE m == Produced(b, n)
             c == produce(b, n)
             q == count(b)
             t == [j \in 1 .. m |-> Contents(c)[q + j]]
  <1>1. m \in 0 .. Size /\ q \in 0 .. Size
    BY CountBounds, SizeAssumption DEF Produced, Least
  <1>2. WellFormed(c) /\ count(c) = q + m /\ c.buf = b.buf /\ c.begin = b.begin
    BY ProduceCount
  <1>3. Contents(c) \in Seq(Elem) /\ Len(Contents(c)) = q + m
    BY <1>2, ContentsType
  <1>4. Contents(b) \in Seq(Elem) /\ Len(Contents(b)) = q
    BY ContentsType
  <1>5. \A i \in 1 .. q : Contents(c)[i] = Contents(b)[i]
    <2> HIDE DEF c, m
    <2> QED BY <1>1, <1>2 DEF Contents
  <1> HIDE DEF m, c, q
  <1>6. t \in [1 .. m -> Elem]
    BY <1>1, <1>3
  <1>7. t \in Seq(Elem) /\ Len(t) = m
    BY <1>1, <1>6
  <1>8. Contents(c) = Contents(b) \o t
    <2>1. /\ Contents(b) \o t \in Seq(Elem) /\ Len(Contents(b) \o t) = q + m
          /\ \A i \in 1 .. q + m :
                (Contents(b) \o t)[i] = IF i <= q THEN Contents(b)[i] ELSE t[i - q]
      <3> HIDE DEF t
      <3> QED BY <1>4, <1>7, ConcatProperties
    <2>2. \A i \in 1 .. q + m : Contents(c)[i] = IF i <= q THEN Contents(b)[i] ELSE t[i - q]
      BY <1>1, <1>5
    <2> HIDE DEF t
    <2> QED BY <1>3, <2>1, <2>2, SeqEqual
  <1> QED BY <1>6, <1>8 DEF m, c

-----------------------------------------------------------------------------
\* Reading through get_buf() no more than the buffer holds finds the contents,
\* except where the read runs past the end of the array.
LEMMA RawReadContents ==
    ASSUME NEW b, WellFormed(b), NEW foreign \in Elem, NEW n \in 0 .. count(b)
    PROVE  /\ RawRead(b, n, foreign) \in Seq(Elem)
           /\ Len(RawRead(b, n, foreign)) = n
           /\ \A i \in 1 .. n : RawRead(b, n, foreign)[i] \in {Contents(b)[i], foreign}
  <1>1. count(b) \in 0 .. Size /\ n \in Nat
    BY CountBounds, SizeAssumption
  <1>2. b.begin \in Index /\ b.buf \in [Index -> Elem]
    BY DEF WellFormed, RingBuffers
  <1>3. ASSUME NEW i \in 1 .. n
        PROVE  /\ RawRead(b, n, foreign)[i] \in Elem
               /\ RawRead(b, n, foreign)[i] \in {Contents(b)[i], foreign}
    <2>1. i \in 1 .. count(b)
      BY <1>1
    <2>2. CASE b.begin + i - 1 < Size
      <3>1. b.begin + i - 1 \in Index
        BY ONLY <2>1, <2>2, <1>1, <1>2, SizeAssumption DEF Index
      <3> QED BY <3>1, <2>1, <2>2, <1>2 DEF RawRead, Contents
    <2>3. CASE ~(b.begin + i - 1 < Size)
      BY <2>3 DEF RawRead
    <2> QED BY <2>2, <2>3
  <1>4. RawRead(b, n, foreign) = [i \in 1 .. n |-> RawRead(b, n, foreign)[i]]
    BY DEF RawRead
  <1> QED BY <1>1, <1>3, <1>4

-----------------------------------------------------------------------------
\* RingBufferSpec.

\* Whatever methods are called and with whatever arguments, the indices stay
\* in the array and the full flag never outlives the full buffer.
THEOREM RingCorrect == RingSpec => []RingInv
  <1>1. RingInit => RingInv
    BY SizeAssumption DEF RingInit, RingInv, WrapMeansFull, NewRingBuffer, RingBuffers, Index
  <1>2. RingInv /\ [RingNext]_ringVars => RingInv'
    <2> SUFFICES ASSUME RingInv, [RingNext]_ringVars PROVE RingInv'
      OBVIOUS
    <2>0. WellFormed(rb)
      BY DEF RingInv, WellFormed
    <2>1. ASSUME NEW len \in 0 .. MaxLen, NEW data \in [1 .. len -> Elem], Write(data)
          PROVE  RingInv'
      <3>1. data \in Seq(Elem)
        BY MaxLenAssumption
      <3> QED BY <3>1, <2>0, <2>1, WriteContents DEF Write, RingInv, WellFormed
    <2>2. ASSUME NEW n \in 0 .. MaxLen, Produce(n) PROVE RingInv'
      BY <2>0, <2>2, ProduceCount, MaxLenAssumption DEF Produce, RingInv, WellFormed
    <2>3. ASSUME NEW n \in 0 .. MaxLen, Consume(n) PROVE RingInv'
      BY <2>0, <2>3, ConsumeContents, MaxLenAssumption DEF Consume, RingInv, WellFormed
    <2>4. ASSUME NEW n \in 0 .. MaxLen, Read(n) PROVE RingInv'
      BY <2>0, <2>4, ReadContents, ConsumeContents, MaxLenAssumption DEF Read, RingInv, WellFormed
    <2>5. CASE UNCHANGED ringVars
      BY <2>5 DEF ringVars, RingInv
    <2> QED BY <2>1, <2>2, <2>3, <2>4, <2>5 DEF RingNext
  <1> QED BY <1>1, <1>2, PTL DEF RingSpec

\* The ring buffer implements the bounded queue its users take it for.
THEOREM RingImplementsFifo == RingSpec => FifoSpec
  <1>1. RingInit => Fifo!Init
    <2> SUFFICES ASSUME RingInit PROVE Contents(rb) = <<>> /\ call = Called("new", <<>>, 0, 0, <<>>)
      BY DEF Fifo!Init, Fifo!Called, Called
    <2>1. count(rb) = 0
      BY DEF RingInit, NewRingBuffer, count
    <2> QED BY <2>1 DEF RingInit, Contents
  <1>2. RingInv /\ [RingNext]_ringVars => [Fifo!Next]_(Fifo!vars)
    <2> SUFFICES ASSUME RingInv, [RingNext]_ringVars PROVE [Fifo!Next]_(Fifo!vars)
      OBVIOUS
    <2>0. WellFormed(rb) /\ Len(Contents(rb)) = count(rb)
      BY ContentsType DEF RingInv, WellFormed
    <2>1. ASSUME NEW len \in 0 .. MaxLen, NEW data \in [1 .. len -> Elem], Write(data)
          PROVE  Fifo!Next
      <3>1. data \in Seq(Elem)
        BY MaxLenAssumption
      <3>2. Contents(rb') = Contents(rb) \o SubSeq(data, 1, Produced(rb, Len(data)))
        BY <3>1, <2>0, <2>1, WriteContents DEF Write
      <3>3. Produced(rb, Len(data)) = Fifo!Least(Len(data), Size - Len(Contents(rb)))
        BY <2>0 DEF Produced, getFree, Least, Fifo!Least
      <3>4. Fifo!Put(data)
        BY <3>2, <3>3, <2>1 DEF Fifo!Put, Write, Fifo!Called, Called
      <3> QED BY <3>4 DEF Fifo!Next
    <2>2. ASSUME NEW n \in 0 .. MaxLen, Produce(n) PROVE Fifo!Next
      <3>0. n \in Nat
        BY MaxLenAssumption
      <3>1. \E t \in [1 .. Produced(rb, n) -> Elem] : Contents(rb') = Contents(rb) \o t
        BY <2>0, <2>2, ProduceContents, <3>0 DEF Produce
      <3>2. Produced(rb, n) = Fifo!Least(n, Size - Len(Contents(rb)))
        BY <2>0 DEF Produced, getFree, Least, Fifo!Least
      <3>3. Fifo!Expose(n)
        BY <3>1, <3>2, <2>2 DEF Fifo!Expose, Produce, Fifo!Called, Called
      <3> QED BY <3>3 DEF Fifo!Next
    <2>3. ASSUME NEW n \in 0 .. MaxLen, Consume(n) PROVE Fifo!Next
      <3>0. n \in Nat
        BY MaxLenAssumption
      <3>1. Contents(rb') = SubSeq(Contents(rb), Consumed(rb, n) + 1, Len(Contents(rb)))
        BY <2>0, <2>3, ConsumeContents, <3>0 DEF Consume
      <3>2. Consumed(rb, n) = Fifo!Least(n, Len(Contents(rb)))
        BY <2>0 DEF Consumed, Least, Fifo!Least
      <3>3. Fifo!Drop(n)
        BY <3>1, <3>2, <2>3 DEF Fifo!Drop, Consume, Fifo!Called, Called
      <3> QED BY <3>3 DEF Fifo!Next
    <2>4. ASSUME NEW n \in 0 .. MaxLen, Read(n) PROVE Fifo!Next
      <3>0. n \in Nat
        BY MaxLenAssumption
      <3>1. /\ Contents(rb') = SubSeq(Contents(rb), Consumed(rb, n) + 1, Len(Contents(rb)))
            /\ ReadOut(rb, n) = SubSeq(Contents(rb), 1, Consumed(rb, n))
        BY <2>0, <2>4, ReadContents, ConsumeContents, <3>0 DEF Read
      <3>2. Consumed(rb, n) = Fifo!Least(n, Len(Contents(rb)))
        BY <2>0 DEF Consumed, Least, Fifo!Least
      <3>3. Fifo!Take(n)
        BY <3>1, <3>2, <2>4 DEF Fifo!Take, Read, Fifo!Called, Called
      <3> QED BY <3>3 DEF Fifo!Next
    <2>5. CASE UNCHANGED ringVars
      BY <2>5 DEF ringVars, Fifo!vars, Contents, count
    <2> QED BY <2>1, <2>2, <2>3, <2>4, <2>5 DEF RingNext
  <1> QED BY <1>1, <1>2, RingCorrect, PTL DEF RingSpec, FifoSpec
=============================================================================
