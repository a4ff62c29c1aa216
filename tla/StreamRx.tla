------------------------------ MODULE StreamRx ------------------------------
(***************************************************************************)
(* The way of a byte from the network stack to the application, for one     *)
(* connected stream socket of the picoTCP build:                            *)
(*                                                                         *)
(*   pico_socket_recvfrom -> RXbuf -> Phy::streamSend ==socketpair==> app_fd *)
(*                                                                         *)
(* The tap's thread runs pico_cb_tcp_read when PICO_SOCK_EV_RD is raised;   *)
(* one turn of its loop is one step, because the application meets it only  *)
(* in the socketpair.  RXbuf is the RingBuffer the module extends, with     *)
(* Size = ZT_TCP_RX_BUF_SZ.  Byte number i of the stream is the number i.   *)
(***************************************************************************)
EXTENDS RingBuffer

CONSTANTS
    MaxBytes,   \* bound: how many bytes the peer sends
    PipeCap,    \* how many bytes the socketpair holds
    ReadMax     \* ZT_STACK_SOCKET_RD_MAX

ASSUME RxAssumption ==
    /\ {MaxBytes, PipeCap, ReadMax} \subseteq Nat \ {0}
    /\ Elem = 0 .. MaxBytes

Foreign == 0    \* stands for a byte that is not one of the stream

VARIABLES
    arrived,    \* how many bytes of the stream the stack has received
    taken,      \* how many of them pico_socket_recvfrom has returned
    rx,         \* conn->RXbuf
    pipe,       \* bytes in the socketpair
    got,        \* history: what the application has read
    notify,     \* Phy watches sdk_fd for writability
    at,         \* pico_cb_tcp_read: "idle", in its "first" turn or a
                \* later one ("loop"), or turning without end ("spin")
    short       \* history: what went wrong so far: "send" a streamSend took
                \* less than offered, "array" RXbuf's array ended before r
                \* bytes, "room" RXbuf had less than r bytes free

vars == <<arrived, taken, rx, pipe, got, notify, at, short>>

Bytes(a, b) == [i \in 1 .. b - a |-> a + i]

Init ==
    /\ arrived = 0 /\ taken = 0 /\ pipe = <<>> /\ got = <<>>
    /\ rx = NewRingBuffer([k \in Index |-> Foreign])
    /\ notify = FALSE /\ at = "idle" /\ short = {}

-----------------------------------------------------------------------------
\* The stack (external): data arrives in order.
Arrive ==
    /\ at = "idle"
    /\ \E k \in 1 .. MaxBytes - arrived : arrived' = arrived + k
    /\ UNCHANGED <<taken, rx, pipe, got, notify, at, short>>

\* PICO_SOCK_EV_RD: the stack's tick calls pico_cb_tcp_read.
EvRd ==
    /\ at = "idle" /\ taken < arrived
    /\ at' = "first"
    /\ UNCHANGED <<arrived, taken, rx, pipe, got, notify, short>>

\* Phy::streamSend (external) hands the kernel n bytes: it takes what fits.
StreamSent(n) == Least(n, PipeCap - Len(pipe))

\* A mutated turn, which consumes what it offered, not what was sent.
ReadTurnConsumesAll ==
    LET r == Least(arrived - taken, ReadMax)
        b2 == produce(RawStore(rx, Bytes(taken, taken + r)), r)
        n == StreamSent(r)
        b3 == consume(b2, r)
    IN  /\ at \in {"first", "loop"} /\ getFree(rx) > 0
        /\ taken' = taken + r
        /\ rx' = b3
        /\ pipe' = pipe \o SubSeq(RawRead(b2, r, Foreign), 1, n)
        /\ at' = IF r > 0 THEN "loop" ELSE "idle"
        /\ notify' = (count(b3) # 0)
        /\ short' = short \union (IF n < r THEN {"send"} ELSE {})
        /\ UNCHANGED <<arrived, got>>

\* A mutated turn, which sends before it accounts for what it received.
ReadTurnSendsFirst ==
    LET r == Least(arrived - taken, ReadMax)
        n == StreamSent(r)
        b3 == consume(produce(RawStore(rx, Bytes(taken, taken + r)), r), n)
    IN  /\ at \in {"first", "loop"} /\ getFree(rx) > 0
        /\ taken' = taken + r
        /\ rx' = b3
        /\ pipe' = pipe \o SubSeq(RawRead(rx, r, Foreign), 1, n)
        /\ at' = IF r > 0 THEN "loop" ELSE "idle"
        /\ notify' = (count(b3) # 0)
        /\ UNCHANGED <<arrived, got, short>>

\* One turn of the loop with room on RXbuf: receive through get_buf(), produce,
\* send through get_buf(), consume, and watch for writability if data is left.
\* What was stored past the end of the array may or may not still be there when
\* it is sent.
ReadTurn ==
    LET r == Least(arrived - taken, ReadMax)
        b2 == produce(RawStore(rx, Bytes(taken, taken + r)), r)
        n == StreamSent(r)
        b3 == consume(b2, n)
    IN  /\ at \in {"first", "loop"} /\ getFree(rx) > 0
        /\ taken' = taken + r
        /\ rx' = b3
        /\ \E data \in {RawRead(b2, r, Foreign), Bytes(taken, taken + r)} :
              pipe' = pipe \o SubSeq(data, 1, n)
        /\ at' = IF r > 0 THEN "loop" ELSE "idle"
        /\ notify' = (count(b3) # 0)
        /\ short' = short \union (IF n < r THEN {"send"} ELSE {})
                          \union (IF r > Size - rx.begin THEN {"array"} ELSE {})
                          \union (IF r > getFree(rx) THEN {"room"} ELSE {})
        /\ UNCHANGED <<arrived, got>>

\* A turn without room changes nothing, r included.  After a turn that received
\* something r > 0 and the loop spins; on the first turn r is not initialized.
ReadTurnFull ==
    /\ getFree(rx) = 0
    /\ \/ at = "first" /\ at' \in {"idle", "spin"}
       \/ at = "loop" /\ at' = "spin"
    /\ UNCHANGED <<arrived, taken, rx, pipe, got, notify, short>>

\* phyOnUnixWritable -> SocketTap::Read -> pico_Read, whose body is empty.
phyOnUnixWritable ==
    /\ at = "idle" /\ notify /\ Len(pipe) < PipeCap
    /\ UNCHANGED vars

\* The application reads from app_fd.
zts_read ==
    /\ \E k \in 1 .. Len(pipe) :
        /\ got' = got \o SubSeq(pipe, 1, k)
        /\ pipe' = SubSeq(pipe, k + 1, Len(pipe))
    /\ UNCHANGED <<arrived, taken, rx, notify, at, short>>

Next ==
    \/ Arrive \/ EvRd \/ ReadTurn \/ ReadTurnFull \/ phyOnUnixWritable
    \/ zts_read

Spec == Init /\ [][Next]_vars

-----------------------------------------------------------------------------
\* The shape of the state, with a well-formed RXbuf.
TypeOK ==
    /\ arrived \in 0 .. MaxBytes /\ taken \in 0 .. arrived
    /\ pipe \in Seq(Elem) /\ Len(pipe) <= PipeCap /\ got \in Seq(Elem)
    /\ rx \in RingBuffers /\ WrapMeansFull(rx)
    /\ notify \in BOOLEAN /\ at \in {"idle", "first", "loop", "spin"}
    /\ short \subseteq {"send", "array", "room"}

\* As long as every streamSend takes all it is offered and the array does not
\* end inside a read, nothing stays on RXbuf and the application gets the stream.
ExactUntilShort ==
    short = {} => count(rx) = 0 /\ got \o pipe = Bytes(0, taken)

\* Bytes are never lost or repeated in number: what the application has or can
\* read and what is on RXbuf add up to what the stack handed over, even after
\* short sends, as long as RXbuf had room.
NumberKept ==
    "room" \notin short => Len(got) + Len(pipe) + count(rx) = taken
=============================================================================
