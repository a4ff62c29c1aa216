----------------------------- MODULE RingBuffer -----------------------------
(***************************************************************************)
(* The class template RingBuffer<T> of src/RingBuffer.hpp: a fixed array,   *)
(* two indices and a flag that tells a full buffer from an empty one (both  *)
(* have begin = end).  A buffer is a record; every method is an operator   *)
(* from the buffer before the call to the buffer after it.  TXbuf and RXbuf *)
(* of every Connection are such buffers.                                    *)
(***************************************************************************)
EXTENDS Integers, Sequences

CONSTANTS
    Size,   \* the constructor's argument: how many elements buf holds
    Elem    \* the element type T

ASSUME SizeAssumption == Size \in Nat \ {0}

Least(a, b) == IF a <= b THEN a ELSE b

Index == 0 .. Size - 1

RingBuffers == [buf : [Index -> Elem], begin : Index, end : Index, wrap : BOOLEAN]

\* new T[size] leaves the elements unset, so mem is any array.
NewRingBuffer(mem) == [buf |-> mem, begin |-> 0, end |-> 0, wrap |-> FALSE]

count(rb) ==
    IF rb.end = rb.begin THEN (IF rb.wrap THEN Size ELSE 0)
    ELSE IF rb.end > rb.begin THEN rb.end - rb.begin
    ELSE Size + rb.end - rb.begin

getFree(rb) == Size - count(rb)

\* The index reached from i by the first and then the second chunk of n
\* elements; both chunks are taken modulo the size.
Advance(i, n) ==
    LET first_chunk == Least(n, Size - i)
        i1 == (i + first_chunk) % Size
    IN  IF first_chunk < n THEN (i1 + (n - first_chunk)) % Size ELSE i1

Produced(rb, n) == Least(n, getFree(rb))

Consumed(rb, n) == Least(n, count(rb))

produce(rb, n) ==
    LET m == Produced(rb, n)
        e == Advance(rb.end, m)
    IN  IF m = 0 THEN rb
        ELSE [rb EXCEPT !.end = e, !.wrap = (rb.begin = e) \/ @]

\* A mutated consume, without the reset of `wrap'.
ConsumeKeepsWrap(rb, n) ==
    LET m == Consumed(rb, n)
    IN  IF m = 0 THEN rb ELSE [rb EXCEPT !.begin = Advance(rb.begin, m)]

consume(rb, n) ==
    LET m == Consumed(rb, n)
    IN  IF m = 0 THEN rb
        ELSE [rb EXCEPT !.begin = Advance(rb.begin, m), !.wrap = FALSE]

\* memcpy(buf + at, data + from, len): len elements of data, after the first
\* `from', stored at the array positions at, at + 1, ...
MemCopy(mem, at, data, from, len) ==
    [k \in Index |-> IF at <= k /\ k < at + len THEN data[from + 1 + k - at]
                                                ELSE mem[k]]

\* A mutated write, whose second memcpy starts at the beginning of data again.
WriteRepeatsFirstChunk(rb, data) ==
    LET m == Produced(rb, Len(data))
        first_chunk == Least(m, Size - rb.end)
        mem1 == MemCopy(rb.buf, rb.end, data, 0, first_chunk)
        e == Advance(rb.end, m)
    IN  IF m = 0 THEN rb
        ELSE [buf |-> IF first_chunk < m
                      THEN MemCopy(mem1, 0, data, 0, m - first_chunk) ELSE mem1,
              begin |-> rb.begin, end |-> e, wrap |-> (rb.begin = e) \/ rb.wrap]

write(rb, data) ==
    LET m == Produced(rb, Len(data))
        first_chunk == Least(m, Size - rb.end)
        mem1 == MemCopy(rb.buf, rb.end, data, 0, first_chunk)
        end1 == (rb.end + first_chunk) % Size
        mem2 == IF first_chunk < m
                THEN MemCopy(mem1, end1, data, first_chunk, m - first_chunk)
                ELSE mem1
        end2 == IF first_chunk < m THEN (end1 + (m - first_chunk)) % Size
                                   ELSE end1
    IN  IF m = 0 THEN rb
        ELSE [buf |-> mem2, begin |-> rb.begin, end |-> end2,
              wrap |-> (rb.begin = end2) \/ rb.wrap]

\* read(dest, n): what the two memcpys leave in dest, and the buffer after.
ReadOut(rb, n) ==
    LET m == Consumed(rb, n)
        first_chunk == Least(m, Size - rb.begin)
        begin1 == (rb.begin + first_chunk) % Size
    IN  [i \in 1 .. m |-> IF i <= first_chunk THEN rb.buf[rb.begin + i - 1]
                          ELSE rb.buf[begin1 + i - first_chunk - 1]]

read(rb, n) ==
    LET m == Consumed(rb, n)
        first_chunk == Least(m, Size - rb.begin)
        begin1 == (rb.begin + first_chunk) % Size
        begin2 == IF first_chunk < m THEN (begin1 + (m - first_chunk)) % Size
                                     ELSE begin1
    IN  IF m = 0 THEN rb ELSE [rb EXCEPT !.begin = begin2, !.wrap = FALSE]

\* get_buf() returns the raw pointer buf + begin.  A caller that reads n
\* elements through it reads consecutive memory: past the end of the array that
\* is not memory of the buffer, and what it finds there is `foreign'.
RawRead(rb, n, foreign) ==
    [i \in 1 .. n |-> IF rb.begin + i - 1 < Size THEN rb.buf[rb.begin + i - 1]
                                                 ELSE foreign]

\* A caller that stores data through get_buf(): what falls past the end of the
\* array is stored in memory the buffer does not own.
RawStore(rb, data) ==
    [rb EXCEPT !.buf = MemCopy(@, rb.begin, data, 0,
                               Least(Len(data), Size - rb.begin))]

\* What the buffer holds, oldest element first.
Contents(rb) ==
    [i \in 1 .. count(rb) |->
        IF rb.begin + i - 1 < Size THEN rb.buf[rb.begin + i - 1]
                                   ELSE rb.buf[rb.begin + i - 1 - Size]]

\* The full flag is only ever set when the indices meet.
WrapMeansFull(rb) == rb.wrap => rb.begin = rb.end
=============================================================================
