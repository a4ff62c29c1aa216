---------------------------- MODULE FrameBuffer ----------------------------
(***************************************************************************)
(* The guarded frame buffer between the ZeroTier service's thread, which    *)
(* stores each frame of the virtual wire (SocketTap::put -> pico_rx), and   *)
(* the tap's thread, which feeds the frames to the stack (pico_eth_poll).   *)
(* Both run under _pico_frame_rxbuf_m from beginning to end, so each is one *)
(* step.  The buffer is an array of cells; a frame of size n (newlen) takes *)
(* n consecutive cells, the first of which holds n.  A frame stored behind   *)
(* the end of the array overwrites what lies there; the model ends with it.  *)
(***************************************************************************)
EXTENDS Integers, Sequences

CONSTANTS
    MaxSize,    \* MAX_PICO_FRAME_RX_BUF_SZ
    FrameSizes, \* the sizes newlen a frame can have
    LoopScores, \* the loop_score values the stack polls with
    MaxPut      \* bound: frames the service delivers

ASSUME FrameAssumption ==
    /\ MaxSize \in Nat /\ MaxPut \in Nat /\ LoopScores \subseteq Nat
    /\ FrameSizes \subseteq 2 .. MaxSize

VARIABLES
    buf,        \* pico_frame_rxbuf
    tot,        \* pico_frame_rxbuf_tot
    put,        \* history: the sizes of the frames the service delivered
    kept,       \* history: the numbers of those that were not thrown away
    given,      \* history: what pico_stack_recv was given, cell by cell
    overran     \* a frame was stored past the end of the buffer

frameVars == <<buf, tot, put, kept, given, overran>>

Cells == 0 .. MaxSize - 1

\* A cell is cleared, the size of a frame, or the k-th cell of frame number id.
Clear == <<0, 0>>
SizeCell(n) == <<0, n>>
Frame(id, n) == [k \in 1 .. n |-> IF k = 1 THEN SizeCell(n) ELSE <<id, k>>]

FrameInit ==
    /\ buf = [k \in Cells |-> Clear] /\ tot = 0
    /\ put = <<>> /\ kept = <<>> /\ given = <<>> /\ overran = FALSE

\* The three memcpys of pico_rx: size, Ethernet header and data.
Store(b, at, frame) ==
    [k \in Cells |-> IF k >= at /\ k < at + Len(frame) THEN frame[k - at + 1] ELSE b[k]]

\* The loop that makes room: only for IPv6 (proto 56710 is 0x86dd in network
\* order), by throwing away everything that is buffered.
Flushes(n, ipv6) == ipv6 /\ n > MaxSize - tot

\* The frames before this one that stay: all, or those polled already.
Stay(n, ipv6) == IF Flushes(n, ipv6) THEN SubSeq(kept, 1, Len(given)) ELSE kept

\* A mutated pico_rx, which adds up the data without the size field.
PicoRxForgetsSizeField(n, ipv6) ==
    /\ ~overran /\ Len(put) < MaxPut
    /\ put' = Append(put, n)
    /\ kept' = Append(Stay(n, ipv6), Len(put'))
    /\ LET b == IF Flushes(n, ipv6) THEN [k \in Cells |-> Clear] ELSE buf
           t == IF Flushes(n, ipv6) THEN 0 ELSE tot
       IN  /\ buf' = Store(b, t, Frame(Len(put'), n))
           /\ tot' = t + n - 1
           /\ overran' = (t + n > MaxSize)
    /\ UNCHANGED given

pico_rx(n, ipv6) ==
    /\ ~overran /\ Len(put) < MaxPut
    /\ put' = Append(put, n)
    /\ kept' = Append(Stay(n, ipv6), Len(put'))
    /\ LET b == IF Flushes(n, ipv6) THEN [k \in Cells |-> Clear] ELSE buf
           t == IF Flushes(n, ipv6) THEN 0 ELSE tot
       IN  /\ buf' = Store(b, t, Frame(Len(put'), n))
           /\ tot' = t + n
           /\ overran' = (t + n > MaxSize)
    /\ UNCHANGED given

\* memmove of everything behind the first n cells to the front; the last n cells
\* keep what they had.
Shift(b, n) == [k \in Cells |-> IF k + n < MaxSize THEN b[k + n] ELSE b[k]]

\* A mutated turn, which shifts by the data's length, without the size field.
PollOneShortShift(s) ==
    LET len == s.buf[0][2]
    IN  [buf |-> Shift(s.buf, len - 1), tot |-> s.tot - len,
         given |-> Append(s.given, [k \in 1 .. len - 1 |-> s.buf[k]])]

\* One turn of pico_eth_poll's loop: read the size, hand over the frame, shift.
PollOne(s) ==
    LET len == s.buf[0][2]
    IN  [buf |-> Shift(s.buf, len), tot |-> s.tot - len,
         given |-> Append(s.given, [k \in 1 .. len - 1 |-> s.buf[k]])]

\* A mutated loop, which waits for another frame behind the one it reads.
PollLoopLeavesLast(s0, score) ==
    LET after[i \in 0 .. score] ==
            IF i = 0 THEN s0
            ELSE IF after[i - 1].tot > after[i - 1].buf[0][2] THEN PollOne(after[i - 1])
            ELSE after[i - 1]
    IN  after[score]

\* At most `score' turns, while there is something to read.
PollLoop(s0, score) ==
    LET after[i \in 0 .. score] ==
            IF i = 0 THEN s0
            ELSE IF after[i - 1].tot > 0 THEN PollOne(after[i - 1]) ELSE after[i - 1]
    IN  after[score]

pico_eth_poll(score) ==
    LET s == PollLoop([buf |-> buf, tot |-> tot, given |-> given], score)
    IN  /\ ~overran /\ tot > 0
        /\ buf' = s.buf /\ tot' = s.tot /\ given' = s.given
        /\ UNCHANGED <<put, kept, overran>>

Rx == \E n \in FrameSizes, ipv6 \in BOOLEAN : pico_rx(n, ipv6)
Poll == \E score \in LoopScores : pico_eth_poll(score)

FrameNext == Rx \/ Poll

\* pico_loop ticks the stack, and the stack polls its devices, for as long as the
\* tap runs.
FrameFairness == WF_frameVars(Poll)

FrameSpec == FrameInit /\ [][FrameNext]_frameVars
FrameLiveSpec == FrameSpec /\ FrameFairness

-----------------------------------------------------------------------------
Payload(id) == [k \in 1 .. put[id] - 1 |-> <<id, k + 1>>]

\* The stack receives the frames that were not thrown away whole, unmixed, in
\* order and once each, however stores, polls of several frames and flushes
\* follow each other, until a frame is stored behind the end of the array
\* (picoTCP.cpp 456-470): of what is polled after that nothing is said.
FramesIntact ==
    /\ Len(given) <= Len(kept)
    /\ \A j \in 1 .. Len(given) : given[j] = Payload(kept[j])
    /\ \A i, j \in 1 .. Len(kept) : i < j => kept[i] < kept[j]

\* pico_frame_rxbuf_tot is the size of what is buffered, so that nothing stale is
\* read behind it and nothing new is stored in the middle of a frame.
TotExact ==
    ~overran =>
        \E ends \in [Len(given) .. Len(kept) -> 0 .. MaxSize] :
            /\ ends[Len(given)] = 0 /\ ends[Len(kept)] = tot
            /\ \A j \in Len(given) + 1 .. Len(kept) :
                  /\ ends[j] = ends[j - 1] + put[kept[j]]
                  /\ buf[ends[j - 1]] = SizeCell(put[kept[j]])

\* The frames that are buffered: neither thrown away nor polled.
Buffered == {kept[j] : j \in Len(given) + 1 .. Len(kept)}

\* Every frame reaches the stack, unless it is thrown away or the buffer overruns.
EveryFrameHandled ==
    \A i \in 1 .. MaxPut :
        (Len(put) >= i) ~> (overran \/ i \notin Buffered)
=============================================================================
