--------------------------- MODULE StreamTxProofs ---------------------------
(***************************************************************************)
(* The invariants of StreamTx, for every size of the buffers, every length  *)
(* of the stream and every number of tries of zts_close.                    *)
(***************************************************************************)
EXTENDS StreamTx, RingBufferProofs

\* What TXbuf and the socketpair hold, element by element.
QueueExact ==
    Running /\ ~dropped =>
        /\ Len(wire) + count(tx) + Len(pipe) = written
        /\ \A i \in 1 .. count(tx) : Contents(tx)[i] = Len(wire) + i
        /\ \A j \in 1 .. Len(pipe) : pipe[j] = Len(wire) + count(tx) + j

\* zts_close looks at TXbuf only while it has tries left.
TriesLeft == closer.at = "count" => closer.i < CloseTries

\* The inductive invariant: data is dropped only on a closed socket, so the
\* stack never takes a byte after one was dropped.
TxInv ==
    /\ TypeOK /\ NeverShort /\ NotStranded /\ RightOrForeign /\ QueueExact /\ TriesLeft
    /\ dropped => psock = "closed"

\* TXbuf is well-formed.
LEMMA TxWellFormed == ASSUME TypeOK PROVE WellFormed(tx)
  BY DEF TypeOK, WellFormed, WrapMeansFull

\* One offer to the stack: what happens to the wire and to TXbuf, given a
\* buffer b whose contents continue the wire.
LEMMA OfferStep ==
    ASSUME TypeOK, NEW b, WellFormed(b), ~b.wrap, count(b) < Size, count(b) > 0,
           Offer(b), psock = "open" => \A i \in 1 .. count(b) : Contents(b)[i] = Len(wire) + i,
           RightOrForeign
    PROVE  /\ wire' \in Seq(Elem) /\ tx' \in RingBuffers /\ ~tx'.wrap
           /\ WellFormed(tx') /\ count(tx') < Size
           /\ Len(wire') >= Len(wire)
           /\ Len(wire') + count(tx') = Len(wire) + count(b)
           /\ psock = "open" => Len(wire') > acked
           /\ psock = "open" =>
                 \A i \in 1 .. count(tx') : Contents(tx')[i] = Len(wire') + i
           /\ psock # "open" => tx' = b /\ wire' = wire
           /\ \A i \in 1 .. Len(wire') : wire'[i] \in {i, Foreign}
  <1> DEFINE n == MaxWriteLen(b)
  <1>1. n \in 1 .. count(b) /\ n \in Nat /\ count(b) \in 0 .. Size /\ count(b) \in Nat
    BY CountBounds, TxAssumption, SizeAssumption DEF MaxWriteLen, Least
  <1>2. wire \in Seq(Elem) /\ Len(wire) \in Nat /\ acked \in 0 .. Len(wire) /\ acked \in Nat
    BY DEF TypeOK
  <1>3. Foreign \in Elem
    BY TxAssumption DEF Foreign
  <1> HIDE DEF n
  <1>4. PICK r \in pico_socket_write(n) :
            IF r > 0
            THEN /\ wire' = wire \o SubSeq(RawRead(b, n, Foreign), 1, r)
                 /\ tx' = consume(b, r)
            ELSE wire' = wire /\ tx' = b
    BY DEF Offer, n
  <1>5. CASE r > 0
    <2>1. psock = "open" /\ r \in 1 .. n
      BY <1>4, <1>5, <1>1 DEF pico_socket_write
    <2>2. r \in 0 .. count(b) /\ r \in Nat /\ n \in 0 .. count(b)
      BY <2>1, <1>1
    <2>3. Consumed(b, r) = r
      BY <2>2, <1>1 DEF Consumed, Least
    <2>4. /\ RawRead(b, n, Foreign) \in Seq(Elem) /\ Len(RawRead(b, n, Foreign)) = n
          /\ \A i \in 1 .. n : RawRead(b, n, Foreign)[i] \in {Contents(b)[i], Foreign}
      BY <2>2, <1>3, RawReadContents
    <2> DEFINE s == SubSeq(RawRead(b, n, Foreign), 1, r)
    <2>5. /\ s \in Seq(Elem) /\ Len(s) = r
          /\ \A i \in 1 .. r : s[i] \in {Len(wire) + i, Foreign}
      <3>1. s \in Seq(Elem) /\ Len(s) = r /\ \A i \in 1 .. r : s[i] = RawRead(b, n, Foreign)[i]
        BY <2>1, <2>4, <1>1
      <3>2. \A i \in 1 .. r : i \in 1 .. n /\ i \in 1 .. count(b)
        BY <2>1, <2>2, <1>1
      <3> QED BY <3>1, <3>2, <2>1, <2>4
    <2> HIDE DEF s
    <2>6. wire' = wire \o s /\ tx' = consume(b, r)
      BY <1>4, <1>5 DEF s
    <2>7. /\ wire' \in Seq(Elem) /\ Len(wire') = Len(wire) + r
          /\ \A i \in 1 .. Len(wire) + r :
                wire'[i] = IF i <= Len(wire) THEN wire[i] ELSE s[i - Len(wire)]
      BY <2>5, <2>6, <1>2, ConcatProperties
    <2>8. /\ WellFormed(tx') /\ count(tx') = count(b) - r
          /\ Contents(tx') = SubSeq(Contents(b), r + 1, Len(Contents(b)))
      BY <2>2, <2>3, <2>6, ConsumeContents
    <2>9. ~tx'.wrap
      <3>1. b \in RingBuffers
        BY DEF WellFormed
      <3> QED BY <2>3, <2>6, <2>1, <3>1 DEF consume, RingBuffers
    <2>10. ASSUME NEW i \in 1 .. Len(wire') PROVE wire'[i] \in {i, Foreign}
      <3>1. CASE i <= Len(wire)
        <4>1. i \in 1 .. Len(wire) /\ i \in 1 .. Len(wire) + r
          BY <3>1, <2>7, <1>2
        <4> QED BY <4>1, <3>1, <2>7 DEF RightOrForeign
      <3>2. CASE ~(i <= Len(wire))
        <4>1. i - Len(wire) \in 1 .. r /\ i \in 1 .. Len(wire) + r
              /\ Len(wire) + (i - Len(wire)) = i
          BY <3>2, <2>7, <2>2, <1>2
        <4> QED BY <4>1, <3>2, <2>5, <2>7
      <3> QED BY <3>1, <3>2
    <2>11. ASSUME NEW i \in 1 .. count(tx') PROVE Contents(tx')[i] = Len(wire') + i
      <3>1. Len(Contents(b)) = count(b) /\ Contents(b) \in Seq(Elem)
        BY ContentsType
      <3>2. r + i \in 1 .. count(b) /\ i \in 1 .. (count(b) - (r + 1)) + 1
        BY <2>8, <2>2, <1>1
      <3>3. Contents(tx')[i] = Contents(b)[r + i]
        <4>1. SubSeq(Contents(b), r + 1, count(b))[i] = Contents(b)[(r + 1) + i - 1]
          BY <3>1, <3>2, <2>2, <1>1, SubSeqProperties
        <4>2. (r + 1) + i - 1 = r + i
          BY <2>2, <2>8, <1>1
        <4> QED BY <4>1, <4>2, <3>1, <2>8
      <3>4. Contents(b)[r + i] = Len(wire) + (r + i)
        BY <3>2, <2>1
      <3> QED BY <3>3, <3>4, <2>7, <2>2, <2>8, <1>1, <1>2
    <2>12. tx' \in RingBuffers
      BY <2>8 DEF WellFormed
    <2>13. /\ count(tx') < Size /\ Len(wire') >= Len(wire) /\ Len(wire') > acked
           /\ Len(wire') + count(tx') = Len(wire) + count(b)
      BY <2>7, <2>8, <2>1, <2>2, <1>1, <1>2, SizeAssumption
    <2> QED BY <2>1, <2>7, <2>8, <2>9, <2>10, <2>11, <2>12, <2>13
  <1>6. CASE ~(r > 0)
    <2>1. wire' = wire /\ tx' = b
      BY <1>4, <1>6
    <2>2. psock = "open" => Len(wire) > acked
      <3>1. ASSUME psock = "open" PROVE Queued # 0
        BY <3>1, <1>4, <1>6 DEF pico_socket_write
      <3> QED BY <3>1, <1>2 DEF Queued
    <2>3. b \in RingBuffers
      BY DEF WellFormed
    <2> QED BY <2>1, <2>2, <2>3, <1>1, <1>2 DEF RightOrForeign
  <1> QED BY <1>5, <1>6

-----------------------------------------------------------------------------
\* The indices of TXbuf agree with count().
LEMMA EmptyBuffer == ASSUME NEW mem \in [Index -> Elem]
                     PROVE  /\ WellFormed(NewRingBuffer(mem)) /\ ~NewRingBuffer(mem).wrap
                            /\ count(NewRingBuffer(mem)) = 0
  BY SizeAssumption DEF NewRingBuffer, WellFormed, WrapMeansFull, RingBuffers, Index, count

\* A new connection: all queues are empty.
LEMMA TxInit == Init => TxInv
  <1> SUFFICES ASSUME Init PROVE TxInv
    OBVIOUS
  <1>1. [k \in Index |-> Foreign] \in [Index -> Elem]
    BY TxAssumption DEF Foreign
  <1>2. tx \in RingBuffers /\ ~tx.wrap /\ count(tx) = 0
    BY <1>1, EmptyBuffer DEF Init, WellFormed
  <1>3. /\ written = 0 /\ pipe = <<>> /\ wire = <<>> /\ acked = 0 /\ psock = "open"
        /\ dropped = FALSE /\ exit = "none" /\ evWr \in BOOLEAN /\ stalled = FALSE
    BY DEF Init
  <1>4. TypeOK
    <2>1. closer \in [at : {"open", "wait", "count", "close", "closed"},
                      blocking : BOOLEAN, i : 0 .. CloseTries, end : Index, due : Nat]
      BY TxAssumption, SizeAssumption DEF Init, Index
    <2>2. pipe \in Seq(Elem) /\ wire \in Seq(Elem) /\ Len(wire) = 0
      BY <1>3
    <2>3. written \in 0 .. MaxBytes /\ acked \in 0 .. Len(wire) /\ count(tx) < Size
      BY <1>2, <1>3, <2>2, TxAssumption, SizeAssumption
    <2> QED BY <1>2, <1>3, <2>1, <2>2, <2>3 DEF TypeOK
  <1>5. Len(pipe) = 0 /\ Len(wire) = 0
    BY <1>3
  <1> QED BY <1>2, <1>3, <1>4, <1>5 DEF TxInv, NeverShort, NotStranded, RightOrForeign, QueueExact, TriesLeft, Init

\* Steps that leave the bytes where they are.
LEMMA TxControlStep ==
    ASSUME TxInv, UNCHANGED <<written, pipe, tx, wire, dropped, exit>>,
           acked' \in 0 .. Len(wire), evWr' \in BOOLEAN, stalled' \in BOOLEAN,
           psock' \in {"open", "shut", "closed"},
           psock = "closed" => psock' = "closed",
           psock' = "open" => psock = "open",
           psock' = "open" /\ evWr => evWr' \/ count(tx) = 0,
           acked' # acked => evWr',
           closer' \in [at : {"open", "wait", "count", "close", "closed"},
                        blocking : BOOLEAN, i : 0 .. CloseTries, end : Index, due : Nat],
           TriesLeft'
    PROVE  TxInv'
  <1>1. TypeOK'
    BY DEF TxInv, TypeOK
  <1>2. NeverShort' /\ RightOrForeign' /\ QueueExact' /\ TriesLeft' /\ (dropped' => psock' = "closed")
    BY DEF TxInv, NeverShort, RightOrForeign, QueueExact, Running
  <1>3. NotStranded'
    BY DEF TxInv, TypeOK, NotStranded, Running, Queued
  <1> QED BY <1>1, <1>2, <1>3 DEF TxInv

\* zts_write appends the next bytes of the stream to the socketpair.
LEMMA TxWriteStep == ASSUME TxInv, zts_write PROVE TxInv'
  <1>1. PICK k \in 1 .. Least(PipeCap - Len(pipe), MaxBytes - written) :
            /\ pipe' = pipe \o Bytes(written, written + k)
            /\ written' = written + k
    BY DEF zts_write
  <1>2. UNCHANGED <<tx, wire, acked, evWr, stalled, psock, dropped, exit, closer>>
    BY DEF zts_write
  <1>3. /\ written \in Nat /\ written <= MaxBytes /\ MaxBytes \in Nat /\ PipeCap \in Nat
        /\ pipe \in Seq(Elem) /\ Len(pipe) \in Nat
    BY TxAssumption DEF TxInv, TypeOK
  <1>4. k \in Nat /\ 1 <= k /\ k <= MaxBytes - written
    BY <1>1, <1>3 DEF Least
  <1>5. Bytes(written, written + k) = [i \in 1 .. k |-> written + i]
    BY <1>3, <1>4 DEF Bytes
  <1>6. \A i \in 1 .. k : written + i \in Elem
    BY <1>3, <1>4, TxAssumption
  <1>7. /\ Bytes(written, written + k) \in Seq(Elem)
        /\ Len(Bytes(written, written + k)) = k
        /\ \A i \in 1 .. k : Bytes(written, written + k)[i] = written + i
    BY <1>4, <1>5, <1>6
  <1>8. /\ pipe' \in Seq(Elem) /\ Len(pipe') = Len(pipe) + k
        /\ \A i \in 1 .. Len(pipe) + k :
              pipe'[i] = IF i <= Len(pipe) THEN pipe[i]
                         ELSE Bytes(written, written + k)[i - Len(pipe)]
    <2> DEFINE v == Bytes(written, written + k)
    <2>1. pipe' = pipe \o v /\ v \in Seq(Elem) /\ Len(v) = k /\ pipe \in Seq(Elem)
      BY <1>1, <1>3, <1>7
    <2> HIDE DEF v
    <2>2. /\ pipe' \in Seq(Elem) /\ Len(pipe') = Len(pipe) + k
          /\ \A i \in 1 .. Len(pipe) + k :
                pipe'[i] = IF i <= Len(pipe) THEN pipe[i] ELSE v[i - Len(pipe)]
      BY <2>1, ConcatProperties
    <2> QED BY <2>2 DEF v
  <1>9. written' \in 0 .. MaxBytes
    BY <1>1, <1>3, <1>4
  <1>10. TypeOK'
    BY <1>2, <1>8, <1>9 DEF TxInv, TypeOK
  <1>11. ASSUME Running, ~dropped
         PROVE  /\ Len(wire) + count(tx) + Len(pipe') = written'
                /\ \A j \in 1 .. Len(pipe') : pipe'[j] = Len(wire) + count(tx) + j
    <2>1. /\ Len(wire) + count(tx) + Len(pipe) = written
          /\ \A j \in 1 .. Len(pipe) : pipe[j] = Len(wire) + count(tx) + j
      BY <1>11 DEF TxInv, QueueExact
    <2>2. count(tx) \in 0 .. Size /\ Len(wire) \in Nat /\ Size \in Nat
      BY TxWellFormed, CountBounds, SizeAssumption DEF TxInv, TypeOK
    <2>3. Len(wire) + count(tx) + Len(pipe') = written'
      <3>1. Len(pipe') = Len(pipe) + k /\ written' = written + k
        BY <1>1, <1>8
      <3>2. Len(pipe) \in Nat /\ count(tx) \in Nat /\ k \in Nat
        BY <2>2, <1>3, <1>4
      <3> QED BY ONLY <3>1, <3>2, <2>1, <2>2
    <2>4. ASSUME NEW j \in 1 .. Len(pipe') PROVE pipe'[j] = Len(wire) + count(tx) + j
      <3>1. CASE j <= Len(pipe)
        <4>1. j \in 1 .. Len(pipe) /\ j \in 1 .. Len(pipe) + k
          BY <3>1, <1>3, <1>4, <1>8
        <4> QED BY <4>1, <3>1, <2>1, <1>8
      <3>2. CASE ~(j <= Len(pipe))
        <4>1. j - Len(pipe) \in 1 .. k /\ j \in 1 .. Len(pipe) + k
          BY <3>2, <1>3, <1>4, <1>8
        <4>2. pipe'[j] = written + (j - Len(pipe))
          BY <4>1, <3>2, <1>7, <1>8
        <4>3. count(tx) \in Nat /\ j \in Nat
          BY <2>2, <4>1, <1>3, <1>4
        <4>4. \A a, c, l, w \in Nat : a + c + l = w => w + (j - l) = a + c + j
          BY <4>3
        <4>5. written + (j - Len(pipe)) = Len(wire) + count(tx) + j
          <5>1. Len(wire) + count(tx) + Len(pipe) = written
            BY <2>1
          <5>2. Len(wire) \in Nat /\ count(tx) \in Nat /\ Len(pipe) \in Nat /\ written \in Nat
            BY <2>2, <4>3, <1>3
          <5> QED BY ONLY <4>4, <5>1, <5>2
        <4> QED BY ONLY <4>2, <4>5
      <3> QED BY <3>1, <3>2
    <2> QED BY <2>3, <2>4
  <1>12. QueueExact'
    BY <1>2, <1>11 DEF TxInv, QueueExact, Running
  <1> QED BY <1>2, <1>10, <1>12 DEF TxInv, NeverShort, NotStranded, RightOrForeign, Running, Queued, TriesLeft

\* TXbuf after the write of pico_Write: the data always fits.
LEMMA TxQueueData ==
    ASSUME TxInv, NEW data \in Seq(Elem), Len(data) > 0, count(tx) + Len(data) < Size
    PROVE  /\ Produced(tx, Len(data)) = Len(data)
           /\ WellFormed(write(tx, data)) /\ ~write(tx, data).wrap
           /\ count(write(tx, data)) = count(tx) + Len(data)
           /\ Contents(write(tx, data)) = Contents(tx) \o data
  <1>1. WellFormed(tx) /\ ~tx.wrap
    BY TxWellFormed DEF TxInv, TypeOK
  <1>2. count(tx) \in 0 .. Size /\ Len(data) \in Nat
    BY <1>1, CountBounds
  <1>3. Produced(tx, Len(data)) = Len(data)
    BY <1>2, SizeAssumption DEF Produced, getFree, Least
  <1>4. SubSeq(data, 1, Len(data)) = data
    BY SubSeqFull
  <1>5. /\ WellFormed(write(tx, data))
        /\ count(write(tx, data)) = count(tx) + Len(data)
        /\ Contents(write(tx, data)) = Contents(tx) \o data
    BY <1>1, <1>3, <1>4, WriteContents
  <1>6. ~write(tx, data).wrap
    <2>1. count(write(tx, data)) # Size
      BY <1>2, <1>5, SizeAssumption
    <2> QED BY <2>1, <1>5, CountCases
  <1> QED BY <1>3, <1>5, <1>6

\* What pico_Write does with data from the socketpair keeps the invariant.
LEMMA TxPhyStep == ASSUME TxInv, phyOnUnixData PROVE TxInv'
  <1> DEFINE len == Least(Len(pipe), PhyRead)
             data == SubSeq(pipe, 1, len)
             rest == SubSeq(pipe, len + 1, Len(pipe))
             w == write(tx, data)
  <1>1. /\ pico_Write(data) /\ pipe' = rest /\ Running
        /\ UNCHANGED <<written, acked, stalled, psock, closer>> /\ evWr' \in BOOLEAN
    <2>1. evWr \in BOOLEAN
      BY DEF TxInv, TypeOK
    <2>2. evWr' \in {evWr, FALSE}
      BY DEF phyOnUnixData, pico_tcp_push
    <2> QED BY <2>1, <2>2 DEF phyOnUnixData
  <1>2. /\ pipe \in Seq(Elem) /\ Len(pipe) \in Nat /\ Len(pipe) > 0 /\ wire \in Seq(Elem)
        /\ Len(wire) \in Nat /\ acked \in 0 .. Len(wire) /\ count(tx) \in 0 .. Size
    <2>1. WellFormed(tx)
      BY TxWellFormed DEF TxInv
    <2>2. pipe # <<>>
      BY DEF phyOnUnixData
    <2> QED BY <2>1, <2>2, CountBounds DEF TxInv, TypeOK
  <1>3. len \in 1 .. Len(pipe)
    BY <1>2, TxAssumption DEF Least
  <1> HIDE DEF len
  <1>4. /\ data \in Seq(Elem) /\ Len(data) = len
        /\ \A i \in 1 .. len : data[i] = pipe[i]
    BY <1>2, <1>3
  <1>5. /\ rest \in Seq(Elem) /\ Len(rest) = Len(pipe) - len
        /\ \A i \in 1 .. Len(pipe) - len : rest[i] = pipe[len + i]
    BY <1>2, <1>3
  <1> HIDE DEF data, rest
  <1>6. CASE psock = "closed"
    <2>1. dropped' = TRUE /\ UNCHANGED <<tx, wire, exit>>
      BY <1>1, <1>6 DEF pico_Write
    <2>2. TypeOK'
      BY <2>1, <1>1, <1>5 DEF TxInv, TypeOK
    <2> QED BY <2>1, <2>2, <1>1, <1>6 DEF TxInv, NeverShort, NotStranded, RightOrForeign, QueueExact, Running, TriesLeft
  <1>7. CASE psock # "closed" /\ count(tx) + len >= Size
    <2>1. exit' = "full" /\ UNCHANGED <<tx, wire, dropped>>
      BY <1>1, <1>4, <1>7 DEF pico_Write
    <2>2. TypeOK'
      BY <2>1, <1>1, <1>5 DEF TxInv, TypeOK
    <2> QED BY <2>1, <2>2, <1>1 DEF TxInv, NeverShort, NotStranded, RightOrForeign, QueueExact, Running, TriesLeft
  <1>8. CASE psock # "closed" /\ ~(count(tx) + len >= Size)
    <2>0. count(tx) + Len(data) < Size /\ Len(data) > 0
      BY <1>2, <1>3, <1>4, <1>8, SizeAssumption
    <2>1. /\ Produced(tx, Len(data)) = Len(data)
          /\ WellFormed(w) /\ ~w.wrap /\ count(w) = count(tx) + len
          /\ Contents(w) = Contents(tx) \o data
      BY <2>0, <1>4, TxQueueData
    <2> HIDE DEF w
    <2>2. exit' = "none" /\ Offer(w) /\ dropped' = dropped
      BY <2>1, <1>1, <1>4, <1>8 DEF pico_Write, w
    <2>3. ~dropped
      BY <1>8 DEF TxInv
    <2>4. /\ Len(wire) + count(tx) + Len(pipe) = written
          /\ \A i \in 1 .. count(tx) : Contents(tx)[i] = Len(wire) + i
          /\ \A j \in 1 .. Len(pipe) : pipe[j] = Len(wire) + count(tx) + j
      BY <2>3, <1>1 DEF TxInv, QueueExact
    <2>5. ASSUME NEW i \in 1 .. count(w) PROVE Contents(w)[i] = Len(wire) + i
      <3>1. Contents(tx) \in Seq(Elem) /\ Len(Contents(tx)) = count(tx)
        BY TxWellFormed, ContentsType DEF TxInv
      <3>2. Contents(w)[i] = IF i <= count(tx) THEN Contents(tx)[i] ELSE data[i - count(tx)]
        BY <3>1, <2>1, <1>4, ConcatProperties
      <3>3. count(tx) \in Nat /\ len \in Nat /\ i \in 1 .. count(tx) + len
        BY <1>2, <1>3, <2>1, SizeAssumption
      <3>4. CASE i <= count(tx)
        <4>1. i \in 1 .. count(tx)
          BY <3>3, <3>4
        <4> QED BY <4>1, <3>2, <3>4, <2>4
      <3>5. CASE ~(i <= count(tx))
        <4>1. i - count(tx) \in 1 .. len /\ i - count(tx) \in 1 .. Len(pipe)
          BY <3>3, <3>5, <1>2, <1>3
        <4>2. Contents(w)[i] = Len(wire) + count(tx) + (i - count(tx))
          BY <4>1, <3>2, <3>5, <2>4, <1>4
        <4>3. Len(wire) + count(tx) + (i - count(tx)) = Len(wire) + i
          BY <3>3, <1>2
        <4> QED BY <4>2, <4>3
      <3> QED BY <3>4, <3>5
    <2>6. count(w) < Size /\ count(w) > 0
      BY <2>0, <2>1, <1>2, <1>3, <1>4, SizeAssumption
    <2>7. /\ wire' \in Seq(Elem) /\ tx' \in RingBuffers /\ ~tx'.wrap
          /\ WellFormed(tx') /\ count(tx') < Size
          /\ Len(wire') >= Len(wire)
          /\ Len(wire') + count(tx') = Len(wire) + count(w)
          /\ psock = "open" => Len(wire') > acked
          /\ \A i \in 1 .. Len(wire') : wire'[i] \in {i, Foreign}
          /\ psock = "open" =>
                \A i \in 1 .. count(tx') : Contents(tx')[i] = Len(wire') + i
          /\ psock # "open" => tx' = w /\ wire' = wire
      BY <2>1, <2>2, <2>5, <2>6, OfferStep DEF TxInv
    <2>8. count(tx') \in 0 .. Size /\ Len(wire') \in Nat
      BY <2>7, CountBounds
    <2>9. acked' \in 0 .. Len(wire')
      BY <2>7, <2>8, <1>1, <1>2
    <2>10. TypeOK'
      BY <2>2, <2>7, <2>9, <1>1, <1>5 DEF TxInv, TypeOK
    <2>11. \A i \in 1 .. count(tx') : Contents(tx')[i] = Len(wire') + i
      BY <2>5, <2>7
    <2>12. Len(wire') + count(tx') = Len(wire) + (count(tx) + len)
      BY <2>7, <2>1
    <2>13. Len(wire') + count(tx') + Len(pipe') = written'
      <3>1. \A a, c, l, n, x, y \in Nat :
               x + y = a + (c + n) /\ n <= l => x + y + (l - n) = a + c + l
        OBVIOUS
      <3>2. /\ Len(wire) \in Nat /\ count(tx) \in Nat /\ Len(pipe) \in Nat /\ len \in Nat
            /\ Len(wire') \in Nat /\ count(tx') \in Nat /\ len <= Len(pipe)
        BY <1>2, <1>3, <2>8, SizeAssumption
      <3>3. Len(pipe') = Len(pipe) - len /\ written' = written
        BY <1>1, <1>5
      <3>4. Len(wire') + count(tx') + (Len(pipe) - len) = Len(wire) + count(tx) + Len(pipe)
        BY ONLY <3>1, <3>2, <2>12
      <3> QED BY <3>3, <3>4, <2>4
    <2>14. ASSUME NEW j \in 1 .. Len(pipe') PROVE pipe'[j] = Len(wire') + count(tx') + j
      <3>1. j \in 1 .. Len(pipe) - len /\ len + j \in 1 .. Len(pipe)
        BY <1>1, <1>2, <1>3, <1>5
      <3>2. pipe'[j] = Len(wire) + count(tx) + (len + j)
        BY <3>1, <2>4, <1>1, <1>5
      <3>3. \A a, c, n, x, y, l \in Nat : x + y = a + (c + n) => a + c + (n + l) = x + y + l
        OBVIOUS
      <3>4. /\ Len(wire) \in Nat /\ count(tx) \in Nat /\ len \in Nat /\ j \in Nat
            /\ Len(wire') \in Nat /\ count(tx') \in Nat
        BY <1>2, <1>3, <2>8, <3>1, SizeAssumption
      <3>5. Len(wire) + count(tx) + (len + j) = Len(wire') + count(tx') + j
        BY ONLY <3>3, <3>4, <2>12
      <3> QED BY <3>2, <3>5
    <2>15. QueueExact'
      BY <2>11, <2>13, <2>14 DEF QueueExact
    <2>16. RightOrForeign'
      BY <2>7 DEF RightOrForeign
    <2>17. NotStranded'
      <3>1. psock = "open" => Len(wire') - acked > 0
        BY <2>7, <2>8, <1>2
      <3> QED BY <3>1, <1>1 DEF NotStranded, Queued
    <2> QED BY <2>2, <2>3, <2>10, <2>15, <2>16, <2>17, <1>1 DEF TxInv, NeverShort, TriesLeft
  <1> QED BY <1>6, <1>7, <1>8

\* So does what pico_cb_tcp_write hands to the stack.
LEMMA TxEvWrStep == ASSUME TxInv, EvWr PROVE TxInv'
  <1>1. /\ Running /\ evWr' = FALSE
        /\ UNCHANGED <<written, pipe, acked, stalled, psock, dropped, exit, closer>>
    BY DEF EvWr, pico_cb_tcp_write
  <1>2. WellFormed(tx) /\ ~tx.wrap /\ count(tx) < Size /\ count(tx) \in 0 .. Size
    BY TxWellFormed, CountBounds DEF TxInv, TypeOK
  <1>3. CASE ~(count(tx) > 0)
    <2>1. UNCHANGED <<tx, wire>> /\ count(tx) = 0
      BY <1>2, <1>3, SizeAssumption DEF EvWr, pico_cb_tcp_write
    <2>2. acked \in 0 .. Len(wire)
      BY DEF TxInv, TypeOK
    <2> QED BY <2>1, <2>2, <1>1, TxControlStep DEF TxInv, TypeOK, TriesLeft
  <1>4. CASE count(tx) > 0
    <2>1. Offer(tx)
      BY <1>4 DEF EvWr, pico_cb_tcp_write
    <2>2. psock = "open" => ~dropped
      BY DEF TxInv
    <2>3. ~dropped => /\ Len(wire) + count(tx) + Len(pipe) = written
                      /\ \A i \in 1 .. count(tx) : Contents(tx)[i] = Len(wire) + i
                      /\ \A j \in 1 .. Len(pipe) : pipe[j] = Len(wire) + count(tx) + j
      BY <1>1 DEF TxInv, QueueExact
    <2>4. /\ wire' \in Seq(Elem) /\ tx' \in RingBuffers /\ ~tx'.wrap
          /\ WellFormed(tx') /\ count(tx') < Size
          /\ Len(wire') >= Len(wire)
          /\ Len(wire') + count(tx') = Len(wire) + count(tx)
          /\ psock = "open" => Len(wire') > acked
          /\ \A i \in 1 .. Len(wire') : wire'[i] \in {i, Foreign}
          /\ psock = "open" =>
                \A i \in 1 .. count(tx') : Contents(tx')[i] = Len(wire') + i
          /\ psock # "open" => tx' = tx /\ wire' = wire
      BY <2>1, <2>2, <2>3, <1>2, <1>4, OfferStep DEF TxInv
    <2>5. /\ wire \in Seq(Elem) /\ Len(wire) \in Nat /\ acked \in 0 .. Len(wire)
          /\ Len(wire') \in Nat
      BY <2>4 DEF TxInv, TypeOK
    <2>6. acked' \in 0 .. Len(wire')
      BY <2>4, <2>5, <1>1
    <2>7. TypeOK'
      BY <2>4, <2>6, <1>1 DEF TxInv, TypeOK
    <2>8. RightOrForeign'
      BY <2>4 DEF RightOrForeign
    <2>9. NotStranded'
      <3>1. psock = "open" => Len(wire') - acked > 0
        BY <2>4, <2>5
      <3> QED BY <3>1, <1>1 DEF NotStranded, Queued
    <2>10. QueueExact'
      <3> SUFFICES ASSUME ~dropped
                   PROVE  /\ Len(wire') + count(tx') + Len(pipe) = written
                          /\ \A i \in 1 .. count(tx') : Contents(tx')[i] = Len(wire') + i
                          /\ \A j \in 1 .. Len(pipe) : pipe[j] = Len(wire') + count(tx') + j
        BY <1>1 DEF QueueExact
      <3> QED BY <2>3, <2>4
    <2> QED BY <2>7, <2>8, <2>9, <2>10, <1>1 DEF TxInv, NeverShort, TriesLeft
  <1> QED BY <1>3, <1>4

\* Every step keeps the invariant: the byte-moving steps are the lemmas above,
\* the others only move control.
LEMMA TxStep == TxInv /\ [Next]_vars => TxInv'
  <1> SUFFICES ASSUME TxInv, [Next]_vars PROVE TxInv'
    OBVIOUS
  <1> DEFINE Closers == [at : {"open", "wait", "count", "close", "closed"},
                         blocking : BOOLEAN, i : 0 .. CloseTries, end : Index, due : Nat]
  <1>0. /\ closer \in Closers /\ acked \in 0 .. Len(wire) /\ evWr \in BOOLEAN
        /\ psock \in {"open", "shut", "closed"} /\ tx.end \in Index /\ stalled \in BOOLEAN
        /\ CloseTries \in Nat /\ wire \in Seq(Elem) /\ Len(wire) \in Nat
    BY TxAssumption DEF TxInv, TypeOK, RingBuffers
  <1>1. CASE zts_write
    BY <1>1, TxWriteStep
  <1>2. CASE zts_close
    <2>1. closer' \in Closers
      BY <1>0, <1>2 DEF zts_close
    <2> QED BY <2>1, <1>0, <1>2, TxControlStep DEF zts_close, TxInv, TriesLeft
  <1>3. CASE CloseReadsEnd
    <2>0. Len(wire) + count(tx) \in Nat
      BY <1>0, TxWellFormed, CountBounds DEF TxInv
    <2>1. closer' \in Closers
      BY <1>0, <1>3, <2>0 DEF CloseReadsEnd
    <2> QED BY <2>1, <1>0, <1>3, TxControlStep DEF CloseReadsEnd, TxInv, TriesLeft
  <1>4. CASE CloseReadsBegin
    <2>0. closer.i \in 0 .. CloseTries /\ closer.i < CloseTries
      BY <1>0, <1>4 DEF CloseReadsBegin, TxInv, TriesLeft
    <2>1. closer' \in Closers
      <3>1. closer.i + 1 \in 0 .. CloseTries
        BY <2>0, <1>0
      <3>2. \/ closer' = [closer EXCEPT !.at = "close"]
            \/ closer' = [closer EXCEPT !.at = "wait", !.i = closer.i + 1]
        BY <1>4 DEF CloseReadsBegin
      <3>3. CASE closer' = [closer EXCEPT !.at = "close"]
        BY <3>3, <1>0
      <3>4. CASE closer' = [closer EXCEPT !.at = "wait", !.i = closer.i + 1]
        BY <3>1, <3>4, <1>0
      <3> QED BY <3>2, <3>3, <3>4
    <2> QED BY <2>1, <1>0, <1>4, TxControlStep DEF CloseReadsBegin, TxInv, TriesLeft
  <1>5. CASE TapClose
    <2>1. closer' \in Closers
      BY <1>0, <1>5 DEF TapClose
    <2> QED BY <2>1, <1>0, <1>5, TxControlStep DEF TapClose, TxInv, TriesLeft
  <1>6. CASE phyOnUnixData
    BY <1>6, TxPhyStep
  <1>7. CASE EvWr
    BY <1>7, TxEvWrStep
  <1>8. CASE Acked
    <2>1. acked' \in 0 .. Len(wire)
      BY <1>0, <1>8 DEF Acked, Queued
    <2> QED BY <2>1, <1>0, <1>8, TxControlStep DEF Acked, TxInv, TriesLeft
  <1>9. CASE EvClose
    BY <1>0, <1>9, TxControlStep DEF EvClose, TxInv, TriesLeft
  <1>10. CASE Closed
    BY <1>0, <1>10, TxControlStep DEF Closed, TxInv, TriesLeft
  <1>11. CASE Stalls
    BY <1>0, <1>11, TxControlStep DEF Stalls, TxInv, TriesLeft
  <1>12. CASE UNCHANGED vars
    BY <1>0, <1>12, TxControlStep DEF vars, TxInv, TriesLeft
  <1> QED BY <1>1, <1>2, <1>3, <1>4, <1>5, <1>6, <1>7, <1>8, <1>9, <1>10, <1>11, <1>12 DEF Next

\* The invariant holds in every interleaving.
LEMMA TxInvariant == Spec => []TxInv
  BY TxInit, TxStep, PTL DEF Spec

-----------------------------------------------------------------------------
\* TXbuf stays well-formed and is never filled completely.
THEOREM TxTypeCorrect == Spec => []TypeOK
  BY TxInvariant, PTL DEF TxInv

\* The check against ZT_TCP_TX_BUF_SZ in pico_Write is sufficient.
THEOREM TxNeverShort == Spec => []NeverShort
  BY TxInvariant, PTL DEF TxInv

\* A byte handed to the stack is the right one or one from past the array.
THEOREM TxRightOrForeign == Spec => []RightOrForeign
  BY TxInvariant, PTL DEF TxInv

\* Data on TXbuf is always owed a PICO_SOCK_EV_WR.
THEOREM TxNotStranded == Spec => []NotStranded
  BY TxInvariant, PTL DEF TxInv

\* TXbuf and the socketpair hold, in order, exactly the bytes not yet sent.
THEOREM TxNothingLost == Spec => []NothingLost
  <1>1. TxInv => NothingLost
    <2> SUFFICES ASSUME TxInv, Running, ~dropped
                 PROVE  Contents(tx) \o pipe = Bytes(Len(wire), written)
      BY DEF NothingLost
    <2>1. /\ Len(wire) + count(tx) + Len(pipe) = written
          /\ \A i \in 1 .. count(tx) : Contents(tx)[i] = Len(wire) + i
          /\ \A j \in 1 .. Len(pipe) : pipe[j] = Len(wire) + count(tx) + j
      BY DEF TxInv, QueueExact
    <2>2. /\ Contents(tx) \in Seq(Elem) /\ Len(Contents(tx)) = count(tx) /\ count(tx) \in Nat
          /\ pipe \in Seq(Elem) /\ Len(pipe) \in Nat /\ Len(wire) \in Nat
          /\ written \in Nat /\ written <= MaxBytes /\ MaxBytes \in Nat
      <3>1. count(tx) \in 0 .. Size /\ Size \in Nat
        BY TxWellFormed, CountBounds, SizeAssumption DEF TxInv
      <3> QED BY <3>1, TxWellFormed, ContentsType, TxAssumption DEF TxInv, TypeOK
    <2> DEFINE s == Contents(tx) \o pipe
               t == Bytes(Len(wire), written)
               q == count(tx)
               l == Len(pipe)
               a == Len(wire)
    <2>3. /\ s \in Seq(Elem) /\ Len(s) = q + l
          /\ \A i \in 1 .. q + l : s[i] = IF i <= q THEN Contents(tx)[i] ELSE pipe[i - q]
      BY <2>2, ConcatProperties
    <2>4. written - a = q + l
      <3>1. \A x, y, z, v \in Nat : x + y + z = v => v - x = y + z
        OBVIOUS
      <3>2. a + q + l = written /\ a \in Nat /\ q \in Nat /\ l \in Nat /\ written \in Nat
        BY <2>1, <2>2
      <3> HIDE DEF a, q, l
      <3> QED BY ONLY <3>1, <3>2
    <2>5. \A i \in 1 .. q + l : t[i] = a + i
      BY <2>4 DEF Bytes
    <2>6. t \in Seq(Elem) /\ Len(t) = q + l
      <3>1. \A i \in 1 .. q + l : a + i \in Elem
        <4>1. ASSUME NEW i \in 1 .. q + l PROVE a + i \in 0 .. MaxBytes
          <5>1. \A x, y, v, m \in Nat : \A k \in 1 .. y : v - x = y /\ v <= m => x + k \in 0 .. m
            OBVIOUS
          <5>2. q + l \in Nat
            BY <2>2
          <5> QED BY <5>1, <5>2, <2>2, <2>4
        <4> QED BY <4>1, TxAssumption
      <3>2. t = [i \in 1 .. q + l |-> a + i] /\ q + l \in Nat
        BY <2>2, <2>4 DEF Bytes
      <3> HIDE DEF t, q, l, a
      <3> QED BY <3>1, <3>2
    <2>7. ASSUME NEW i \in 1 .. q + l PROVE s[i] = t[i]
      <3>1. CASE i <= q
        <4>1. i \in 1 .. q
          BY <3>1, <2>2
        <4> QED BY <4>1, <3>1, <2>1, <2>3, <2>5
      <3>2. CASE ~(i <= q)
        <4>1. i - q \in 1 .. l
          BY <3>2, <2>2
        <4>2. s[i] = a + q + (i - q)
          BY <4>1, <3>2, <2>1, <2>3
        <4>3. a + q + (i - q) = a + i
          <5> HIDE DEF a, q, l
          <5>1. a \in Nat /\ q \in Nat /\ l \in Nat
            BY <2>2 DEF a, q, l
          <5> QED BY <5>1
        <4> QED BY <4>2, <4>3, <2>5
      <3> QED BY <3>1, <3>2
    <2> HIDE DEF s, t
    <2>8. s = t
      BY <2>3, <2>6, <2>7, SeqEqual
    <2> QED BY <2>8 DEF s, t
  <1> QED BY <1>1, TxInvariant, PTL

-----------------------------------------------------------------------------
\* The index k places behind index i, once round the array.
Place(i, k) == IF i + k < Size THEN i + k ELSE i + k - Size

\* Between its two reads zts_close holds an index that stays at the end of the
\* bytes it waits for, until the last of them is sent.
CloseSeen ==
    closer.at = "count" /\ closer.due > Len(wire) =>
        /\ closer.due - Len(wire) <= count(tx)
        /\ closer.end = Place(tx.begin, closer.due - Len(wire))

DrainInv == CloseSeen /\ CloseDrained

\* An offer takes r bytes from the head of the buffer to the wire.
LEMMA OfferMoves ==
    ASSUME TypeOK, NEW b, WellFormed(b), count(b) < Size, Offer(b)
    PROVE  \E r \in 0 .. count(b) :
              /\ Len(wire') = Len(wire) + r /\ count(tx') = count(b) - r
              /\ tx'.begin = Place(b.begin, r)
  <1> DEFINE n == MaxWriteLen(b)
  <1>1. n \in 0 .. count(b) /\ n \in Nat /\ count(b) \in 0 .. Size /\ Size \in Nat
    BY CountBounds, TxAssumption, SizeAssumption DEF MaxWriteLen, Least
  <1>2. wire \in Seq(Elem) /\ Len(wire) \in Nat /\ b \in RingBuffers /\ b.begin \in Index
    BY DEF TypeOK, WellFormed, RingBuffers
  <1>3. Foreign \in Elem
    BY TxAssumption DEF Foreign
  <1> HIDE DEF n
  <1>4. PICK r \in pico_socket_write(n) :
            IF r > 0
            THEN /\ wire' = wire \o SubSeq(RawRead(b, n, Foreign), 1, r)
                 /\ tx' = consume(b, r)
            ELSE wire' = wire /\ tx' = b
    BY DEF Offer, n
  <1>5. CASE r > 0
    <2>1. r \in 1 .. n /\ r \in 0 .. count(b) /\ r \in Nat /\ r \in 0 .. Size
      BY <1>4, <1>5, <1>1 DEF pico_socket_write
    <2>2. Consumed(b, r) = r
      BY <2>1, <1>1 DEF Consumed, Least
    <2>3. RawRead(b, n, Foreign) \in Seq(Elem) /\ Len(RawRead(b, n, Foreign)) = n
      BY <1>1, <1>3, RawReadContents
    <2>4. /\ SubSeq(RawRead(b, n, Foreign), 1, r) \in Seq(Elem)
          /\ Len(SubSeq(RawRead(b, n, Foreign), 1, r)) = r
      BY <2>1, <2>3, <1>1
    <2>5. Len(wire') = Len(wire) + r
      BY <2>4, <1>2, <1>4, <1>5
    <2>6. tx' = consume(b, r) /\ count(consume(b, r)) = count(b) - r
      BY <2>1, <2>2, <1>4, <1>5, ConsumeContents
    <2>7. consume(b, r).begin = Advance(b.begin, r)
      BY <2>1, <2>2, <1>2 DEF consume, RingBuffers
    <2>8. Advance(b.begin, r) = Place(b.begin, r)
      BY <2>1, <1>2, AdvanceValue DEF Place
    <2> QED BY <2>1, <2>5, <2>6, <2>7, <2>8
  <1>6. CASE ~(r > 0)
    <2>1. Len(wire') = Len(wire) + 0 /\ count(tx') = count(b) - 0
      BY <1>1, <1>2, <1>4, <1>6
    <2>2. tx'.begin = Place(b.begin, 0)
      BY <1>1, <1>2, <1>4, <1>6 DEF Place, Index
    <2> QED BY <2>1, <2>2, <1>1
  <1> QED BY <1>5, <1>6

\* Going r places and then k - r more is going k places.
LEMMA PlacePlace ==
    ASSUME NEW i \in 0 .. Size - 1, NEW r \in Nat, NEW k \in Nat, r <= k, k < Size
    PROVE  Place(Place(i, r), k - r) = Place(i, k)
  BY SizeAssumption DEF Place

\* Moving r bytes from TXbuf to the wire, and adding some, keeps the invariant.
LEMMA DrainKept ==
    ASSUME TxInv, DrainInv, closer' = closer,
           NEW r \in Nat, r < Size, Len(wire') = Len(wire) + r,
           count(tx') \in Nat, Len(wire') + count(tx') >= Len(wire) + count(tx),
           tx'.begin = Place(tx.begin, r)
    PROVE  DrainInv'
  <1>1. /\ Len(wire) \in Nat /\ closer.due \in Nat /\ tx.begin \in 0 .. Size - 1
        /\ count(tx) \in 0 .. Size /\ count(tx) < Size /\ Size \in Nat
    BY TxWellFormed, CountBounds, SizeAssumption DEF TxInv, TypeOK, RingBuffers, Index
  <1>2. CloseDrained'
    BY <1>1 DEF DrainInv, CloseDrained
  <1>3. CloseSeen'
    <2> SUFFICES ASSUME closer.at = "count", closer.due > Len(wire')
                 PROVE  /\ closer.due - Len(wire') <= count(tx')
                        /\ closer.end = Place(tx'.begin, closer.due - Len(wire'))
      BY DEF CloseSeen
    <2>1. /\ closer.due > Len(wire) /\ closer.due - Len(wire) <= count(tx)
          /\ closer.end = Place(tx.begin, closer.due - Len(wire))
      BY <1>1 DEF DrainInv, CloseSeen
    <2>2. closer.due - Len(wire') <= count(tx')
      BY <2>1, <1>1
    <2>3. Place(tx'.begin, closer.due - Len(wire')) = Place(tx.begin, closer.due - Len(wire))
      <3> DEFINE k == closer.due - Len(wire)
      <3>1. k \in Nat /\ r <= k /\ k < Size /\ closer.due - Len(wire') = k - r
        BY <2>1, <1>1, SMTT(30)
      <3> HIDE DEF k
      <3>2. Place(Place(tx.begin, r), k - r) = Place(tx.begin, k)
        BY <3>1, <1>1, PlacePlace
      <3> QED BY <3>1, <3>2 DEF k
    <2> QED BY <2>1, <2>2, <2>3
  <1> QED BY <1>2, <1>3 DEF DrainInv

\* Every step keeps what a waiting close has seen of the indices.
LEMMA DrainStep == TxInv /\ TxInv' /\ DrainInv /\ [Next]_vars => DrainInv'
  <1> SUFFICES ASSUME TxInv, TxInv', DrainInv, [Next]_vars PROVE DrainInv'
    OBVIOUS
  <1>0. /\ Len(wire) \in Nat /\ closer.due \in Nat /\ closer.i \in Nat
        /\ tx.begin \in 0 .. Size - 1 /\ tx.end \in 0 .. Size - 1
        /\ WellFormed(tx) /\ count(tx) \in 0 .. Size /\ count(tx) < Size /\ Size \in Nat
        /\ count(tx') \in 0 .. Size /\ CloseTries \in Nat /\ ~tx.wrap
        /\ closer \in [at : {"open", "wait", "count", "close", "closed"},
                       blocking : BOOLEAN, i : 0 .. CloseTries, end : Index, due : Nat]
    <2>1. WellFormed(tx) /\ WellFormed(tx)'
      BY TxWellFormed DEF TxInv, TypeOK, WellFormed, WrapMeansFull
    <2>2. count(tx) \in 0 .. Size /\ count(tx') \in 0 .. Size
      BY <2>1, CountBounds DEF WellFormed, WrapMeansFull, RingBuffers, count, Index, getFree
    <2> QED BY <2>1, <2>2, SizeAssumption, TxAssumption DEF TxInv, TypeOK, RingBuffers, Index
  <1>1. CASE UNCHANGED <<tx, wire, closer>>
    BY <1>1 DEF DrainInv, CloseSeen, CloseDrained
  <1>2. CASE zts_write \/ Acked \/ Stalls \/ EvClose \/ Closed \/ UNCHANGED vars
    BY <1>1, <1>2 DEF zts_write, Acked, Stalls, EvClose, Closed, vars
  <1>3. CASE zts_close
    <2>1. UNCHANGED <<tx, wire>> /\ closer.at = "open"
          /\ closer' = [closer EXCEPT !.at = IF closer.blocking THEN "wait" ELSE "close"]
      BY <1>3 DEF zts_close
    <2> QED BY <2>1, <1>0 DEF DrainInv, CloseSeen, CloseDrained
  <1>4. CASE CloseReadsEnd
    <2>1. UNCHANGED <<tx, wire>> /\ closer.at = "wait"
      BY <1>4 DEF CloseReadsEnd
    <2>2. CASE closer.i = CloseTries
      <3>1. closer' = [closer EXCEPT !.at = "close"]
        BY <1>4, <2>2 DEF CloseReadsEnd
      <3> QED BY <3>1, <2>1, <2>2, <1>0 DEF DrainInv, CloseSeen, CloseDrained
    <2>3. CASE closer.i # CloseTries
      <3>1. closer' = [closer EXCEPT !.at = "count", !.end = tx.end,
                                     !.due = Len(wire) + count(tx)]
        BY <1>4, <2>3 DEF CloseReadsEnd
      <3>2. closer'.at = "count" /\ closer'.end = tx.end /\ closer'.due = Len(wire) + count(tx)
        BY <3>1, <1>0
      <3>3. tx.end = Place(tx.begin, count(tx))
        BY <1>0, CountCases, SMTT(30) DEF Place
      <3>4. closer'.due - Len(wire) = count(tx)
        BY <3>2, <1>0
      <3> QED BY <3>2, <3>3, <3>4, <2>1, <1>0 DEF DrainInv, CloseSeen, CloseDrained
    <2> QED BY <2>2, <2>3
  <1>5. CASE CloseReadsBegin
    <2>1. UNCHANGED <<tx, wire>> /\ closer.at = "count"
      BY <1>5 DEF CloseReadsBegin
    <2>2. CASE closer.end = tx.begin
      <3>1. closer' = [closer EXCEPT !.at = "close"]
        BY <1>5, <2>2, <1>0 DEF CloseReadsBegin
      <3>2. ~(closer.due > Len(wire))
        BY <2>1, <2>2, <1>0 DEF DrainInv, CloseSeen, Place
      <3> QED BY <3>1, <3>2, <2>1, <1>0 DEF DrainInv, CloseSeen, CloseDrained
    <2>3. CASE closer.end # tx.begin
      <3>1. closer' = [closer EXCEPT !.at = "wait", !.i = closer.i + 1]
        BY <1>5, <2>3 DEF CloseReadsBegin
      <3>2. closer'.at = "wait"
        BY <3>1, <1>0
      <3> QED BY <3>2 DEF DrainInv, CloseSeen, CloseDrained
    <2> QED BY <2>2, <2>3
  <1>6. CASE TapClose
    <2>1. UNCHANGED <<tx, wire>> /\ closer.at = "close"
          /\ closer' = [closer EXCEPT !.at = "closed"]
      BY <1>6 DEF TapClose
    <2> QED BY <2>1, <1>0 DEF DrainInv, CloseSeen, CloseDrained
  <1>7. CASE phyOnUnixData
    <2> DEFINE len == Least(Len(pipe), PhyRead)
               data == SubSeq(pipe, 1, len)
               w == write(tx, data)
    <2>1. pico_Write(data) /\ closer' = closer
      BY <1>7 DEF phyOnUnixData
    <2>2. data \in Seq(Elem) /\ Len(data) \in Nat
      <3>1. pipe \in Seq(Elem) /\ Len(pipe) \in Nat /\ PhyRead \in Nat
        BY TxAssumption DEF TxInv, TypeOK
      <3>2. len \in 0 .. Len(pipe)
        BY <3>1 DEF Least
      <3> HIDE DEF len
      <3> QED BY <3>1, <3>2
    <2> HIDE DEF data
    <2>3. CASE psock = "closed" \/ exit' # "none"
      <3>1. UNCHANGED <<tx, wire>>
        BY <2>1, <2>3 DEF pico_Write, TxInv, NeverShort
      <3> QED BY <3>1, <2>1, <1>1
    <2>4. CASE psock # "closed" /\ exit' = "none"
      <3>1. Offer(w) /\ ~(count(tx) + Len(data) >= Size)
        BY <2>1, <2>4 DEF pico_Write
      <3>2. WellFormed(w) /\ count(w) = count(tx) + Produced(tx, Len(data))
        BY <2>2, <1>0, WriteContents
      <3>3. Produced(tx, Len(data)) \in 0 .. Len(data)
        BY <2>2, <1>0, CountBounds DEF Produced, Least
      <3>4. count(w) < Size /\ count(w) >= count(tx) /\ count(w) \in Nat
        BY <3>1, <3>2, <3>3, <2>2, <1>0, SMTT(30)
      <3>5. w.begin = tx.begin
        BY DEF write
      <3> HIDE DEF w
      <3>6. PICK r \in 0 .. count(w) :
               /\ Len(wire') = Len(wire) + r /\ count(tx') = count(w) - r
               /\ tx'.begin = Place(w.begin, r)
        BY <3>1, <3>2, <3>4, OfferMoves DEF TxInv
      <3>7. /\ r \in Nat /\ r < Size /\ count(tx') \in Nat
            /\ Len(wire') + count(tx') >= Len(wire) + count(tx)
        BY <3>4, <3>6, <1>0
      <3> QED BY <3>5, <3>6, <3>7, <2>1, DrainKept
    <2> QED BY <2>3, <2>4
  <1>8. CASE EvWr
    <2>1. closer' = closer
      BY <1>8 DEF EvWr, pico_cb_tcp_write
    <2>2. CASE UNCHANGED <<tx, wire>>
      BY <2>1, <2>2, <1>1
    <2>3. CASE Offer(tx)
      <3>1. PICK r \in 0 .. count(tx) :
               /\ Len(wire') = Len(wire) + r /\ count(tx') = count(tx) - r
               /\ tx'.begin = Place(tx.begin, r)
        BY <2>3, <1>0, OfferMoves DEF TxInv
      <3>2. /\ r \in Nat /\ r < Size /\ count(tx') \in Nat
            /\ Len(wire') + count(tx') >= Len(wire) + count(tx)
        BY <3>1, <1>0
      <3> QED BY <3>1, <3>2, <2>1, DrainKept
    <2> QED BY <2>2, <2>3, <1>8 DEF EvWr, pico_cb_tcp_write
  <1> QED BY <1>2, <1>3, <1>4, <1>5, <1>6, <1>7, <1>8 DEF Next

\* The unlocked look of zts_close at TXbuf never ends the wait too early.
THEOREM TxCloseDrained == Spec => []CloseDrained
  <1>1. Init => DrainInv
    BY DEF Init, DrainInv, CloseSeen, CloseDrained
  <1> QED BY <1>1, TxInvariant, DrainStep, PTL DEF Spec, DrainInv
=============================================================================
