--------------------------- MODULE RingBufferSpec ---------------------------
(***************************************************************************)
(* One RingBuffer under every sequence of calls of its methods.  Shown to   *)
(* implement BoundedFifo, the queue its users take it for.                  *)
(***************************************************************************)
EXTENDS RingBuffer

CONSTANT MaxLen     \* bound: the longest argument of one call

ASSUME MaxLenAssumption == MaxLen \in Nat

VARIABLES
    rb,     \* the buffer
    call    \* history: the latest call, its arguments, what it returned and
            \* what it left in dest

ringVars == <<rb, call>>

Called(op, data, n, ret, dest) ==
    [op |-> op, data |-> data, n |-> n, ret |-> ret, dest |-> dest]

RingInit ==
    /\ \E mem \in [Index -> Elem] : rb = NewRingBuffer(mem)
    /\ call = Called("new", <<>>, 0, 0, <<>>)

Write(data) ==
    /\ rb' = write(rb, data)
    /\ call' = Called("write", data, Len(data), Produced(rb, Len(data)), <<>>)

Produce(n) ==
    /\ rb' = produce(rb, n)
    /\ call' = Called("produce", <<>>, n, Produced(rb, n), <<>>)

Consume(n) ==
    /\ rb' = consume(rb, n)
    /\ call' = Called("consume", <<>>, n, Consumed(rb, n), <<>>)

Read(n) ==
    /\ rb' = read(rb, n)
    /\ call' = Called("read", <<>>, n, Consumed(rb, n), ReadOut(rb, n))

RingNext ==
    \/ \E len \in 0 .. MaxLen : \E data \in [1 .. len -> Elem] : Write(data)
    \/ \E n \in 0 .. MaxLen : Produce(n) \/ Consume(n) \/ Read(n)

RingSpec == RingInit /\ [][RingNext]_ringVars

-----------------------------------------------------------------------------
\* The indices stay inside the array and `wrap', which makes equal indices
\* mean "full", is never left set once begin and end have moved apart
\* (produce/write set it, consume/read must clear it: RingBuffer.hpp 89, 102).
RingInv == rb \in RingBuffers /\ WrapMeansFull(rb)

Fifo == INSTANCE BoundedFifo WITH Capacity <- Size, fifo <- Contents(rb)

\* Every method does to the buffer's contents what the queue operation does:
\* chunks split at the end of the array are stored and returned in order, and
\* a full buffer is never taken for an empty one.
FifoSpec == Fifo!Init /\ [][Fifo!Next]_(Fifo!vars)
=============================================================================
