---------------------------- MODULE BoundedFifo ----------------------------
(***************************************************************************)
(* What a RingBuffer promises its users: a queue of at most Capacity       *)
(* elements.  Putting stores the longest prefix that fits, taking returns  *)
(* the oldest elements in the order they were put.                         *)
(***************************************************************************)
EXTENDS Integers, Sequences

CONSTANTS
    Capacity,   \* how many elements fit
    Elem,
    MaxLen      \* bound: the longest argument of one operation

VARIABLES
    fifo,   \* the queued elements, oldest first
    call    \* the latest operation: its arguments and its results

vars == <<fifo, call>>

Least(a, b) == IF a <= b THEN a ELSE b

Called(op, data, n, ret, dest) ==
    [op |-> op, data |-> data, n |-> n, ret |-> ret, dest |-> dest]

Init == fifo = <<>> /\ call = Called("new", <<>>, 0, 0, <<>>)

\* Append as much of data as fits.
Put(data) ==
    LET m == Least(Len(data), Capacity - Len(fifo))
    IN  /\ fifo' = fifo \o SubSeq(data, 1, m)
        /\ call' = Called("write", data, Len(data), m, <<>>)

\* Append n elements that someone else placed in the memory.
Expose(n) ==
    LET m == Least(n, Capacity - Len(fifo))
    IN  /\ \E s \in [1 .. m -> Elem] : fifo' = fifo \o s
        /\ call' = Called("produce", <<>>, n, m, <<>>)

Drop(n) ==
    LET m == Least(n, Len(fifo))
    IN  /\ fifo' = SubSeq(fifo, m + 1, Len(fifo))
        /\ call' = Called("consume", <<>>, n, m, <<>>)

Take(n) ==
    LET m == Least(n, Len(fifo))
    IN  /\ fifo' = SubSeq(fifo, m + 1, Len(fifo))
        /\ call' = Called("read", <<>>, n, m, SubSeq(fifo, 1, m))

Next ==
    \/ \E len \in 0 .. MaxLen : \E data \in [1 .. len -> Elem] : Put(data)
    \/ \E n \in 0 .. MaxLen : Expose(n) \/ Drop(n) \/ Take(n)

Spec == Init /\ [][Next]_vars
=============================================================================
