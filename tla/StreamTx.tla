------------------------------ MODULE StreamTx ------------------------------
(***************************************************************************)
(* The way of a byte from the application to the network stack, for one     *)
(* connected stream socket of the picoTCP build:                            *)
(*                                                                         *)
(*   zts_write -> app_fd ==socketpair==> sdk_fd -> Phy -> phyOnUnixData     *)
(*     -> SocketTap::Write -> pico_Write -> TXbuf -> pico_socket_write      *)
(*                                                                         *)
(* Three actors: the application's thread (zts_write, zts_close), the tap's *)
(* thread (Phy::poll and pico_stack_tick, which calls back on PICO_SOCK_    *)
(* EV_WR), and the stack with the network behind it.  TXbuf is the          *)
(* RingBuffer the module extends, with Size = ZT_TCP_TX_BUF_SZ.             *)
(* Byte number i of the stream is the number i, so that a lost, repeated or *)
(* misplaced byte shows.                                                    *)
(***************************************************************************)
EXTENDS RingBuffer

CONSTANTS
    MaxBytes,   \* bound: how many bytes the application writes
    PipeCap,    \* how many bytes the socketpair holds
    PhyRead,    \* the most bytes Phy reads from a descriptor at a time
    WriteMax,   \* min(ZT_SDK_MTU, ZT_STACK_SOCKET_WR_MAX)
    StackCap,   \* ZT_STACK_TCP_SOCKET_TX_SZ: the stack's own send queue
    CloseTries  \* ZT_SDK_CLTIME

ASSUME TxAssumption ==
    /\ {MaxBytes, PipeCap, PhyRead, WriteMax, StackCap} \subseteq Nat \ {0}
    /\ CloseTries \in Nat
    /\ Elem = 0 .. MaxBytes

Foreign == 0    \* stands for a byte that is not one of the stream

VARIABLES
    written,    \* how many bytes zts_write has accepted
    pipe,       \* bytes in the socketpair
    tx,         \* conn->TXbuf
    wire,       \* history: the bytes pico_socket_write has accepted
    acked,      \* how many of them the peer has acknowledged
    evWr,       \* PICO_SOCK_EV_WR is pending on the pico_socket
    stalled,    \* the stack has come to rest with unsent data and no timer
    psock,      \* the pico_socket: "open", "shut" for sending, "closed"
    dropped,    \* history: pico_Write has returned without queueing its data
    exit,       \* why pico_Write has ended the process
    closer      \* zts_close: where it is, its count of tries, the end it read,
                \* and, history: how many bytes were on TXbuf or sent by then

vars == <<written, pipe, tx, wire, acked, evWr, stalled, psock, dropped, exit, closer>>

\* The bytes a + 1 .. b of the stream.
Bytes(a, b) == [i \in 1 .. b - a |-> a + i]

Queued == Len(wire) - acked

Running == exit = "none"

\* pico_socket_write: it fails once the socket is shut for sending,
\* else queues as much as it finds room for, at least one byte when its queue
\* is empty.
pico_socket_write(n) ==
    IF psock # "open" THEN {-1}
    ELSE {r \in 0 .. n : r <= StackCap - Queued /\ (Queued = 0 => r > 0)}

\* pico_tcp_push withdraws a pending PICO_SOCK_EV_WR when a segment of an offer
\* of n bytes finds no room.
pico_tcp_push(n) ==
    IF psock = "open" /\ n > StackCap - Queued THEN {evWr, FALSE} ELSE {evWr}

\* The lines pico_Write and pico_cb_tcp_write share: offer the stack the head
\* of buffer b through get_buf(), and consume what it has taken.
MaxWriteLen(b) == Least(count(b), WriteMax)

Offer(b) ==
    \E r \in pico_socket_write(MaxWriteLen(b)) :
        IF r > 0
        THEN /\ wire' = wire \o SubSeq(RawRead(b, MaxWriteLen(b), Foreign), 1, r)
             /\ tx' = consume(b, r)
        ELSE wire' = wire /\ tx' = b

Init ==
    /\ written = 0 /\ pipe = <<>> /\ wire = <<>> /\ acked = 0
    /\ tx = NewRingBuffer([k \in Index |-> Foreign])
    /\ evWr \in BOOLEAN /\ stalled = FALSE /\ psock = "open" /\ dropped = FALSE /\ exit = "none"
    /\ closer \in [at : {"open"}, blocking : BOOLEAN, i : {0}, end : {0},
                   due : {0}]

-----------------------------------------------------------------------------
\* The application.

\* write() on app_fd: the kernel takes what the socketpair has room for, also
\* while another thread waits in zts_close.
zts_write ==
    /\ Running /\ closer.at # "closed"
    /\ \E k \in 1 .. Least(PipeCap - Len(pipe), MaxBytes - written) :
        /\ pipe' = pipe \o Bytes(written, written + k)
        /\ written' = written + k
    /\ UNCHANGED <<tx, wire, acked, evWr, stalled, psock, dropped, exit, closer>>

\* zts_close found the connection: a blocking socket waits, any other closes.
zts_close ==
    /\ Running /\ closer.at = "open"
    /\ closer' = [closer EXCEPT !.at = IF closer.blocking THEN "wait" ELSE "close"]
    /\ UNCHANGED <<written, pipe, tx, wire, acked, evWr, stalled, psock, dropped, exit>>

\* One turn of the wait loop reads TXbuf's indices without _tx_m: first end...
CloseReadsEnd ==
    /\ Running /\ closer.at = "wait"
    /\ closer' = IF closer.i = CloseTries THEN [closer EXCEPT !.at = "close"]
                 ELSE [closer EXCEPT !.at = "count", !.end = tx.end,
                                     !.due = Len(wire) + count(tx)]
    /\ UNCHANGED <<written, pipe, tx, wire, acked, evWr, stalled, psock, dropped, exit>>

\* A mutated turn, which does not count its tries.
CloseReadsBeginForever ==
    /\ Running /\ closer.at = "count"
    /\ closer' = IF closer.end = tx.begin /\ ~tx.wrap
                 THEN [closer EXCEPT !.at = "close"]
                 ELSE [closer EXCEPT !.at = "wait"]
    /\ UNCHANGED <<written, pipe, tx, wire, acked, evWr, stalled, psock, dropped, exit>>

\* A mutated turn, which ends the wait when nothing was added.
CloseReadsBeginIdle ==
    /\ Running /\ closer.at = "count"
    /\ closer' = IF closer.end = tx.end /\ ~tx.wrap
                 THEN [closer EXCEPT !.at = "close"]
                 ELSE [closer EXCEPT !.at = "wait", !.i = @ + 1]
    /\ UNCHANGED <<written, pipe, tx, wire, acked, evWr, stalled, psock, dropped, exit>>

\* ... then begin and wrap; it sleeps and tries again unless that looks empty.
CloseReadsBegin ==
    /\ Running /\ closer.at = "count"
    /\ closer' = IF closer.end = tx.begin /\ ~tx.wrap
                 THEN [closer EXCEPT !.at = "close"]
                 ELSE [closer EXCEPT !.at = "wait", !.i = @ + 1]
    /\ UNCHANGED <<written, pipe, tx, wire, acked, evWr, stalled, psock, dropped, exit>>

\* SocketTap::Close: pico_Close closes the pico_socket, unless it was closed
\* before, and _phy.close ends the reading of the socketpair.
TapClose ==
    /\ Running /\ closer.at = "close"
    /\ closer' = [closer EXCEPT !.at = "closed"]
    /\ psock' = IF psock = "open" THEN "shut" ELSE psock
    /\ UNCHANGED <<written, pipe, tx, wire, acked, evWr, stalled, dropped, exit>>

-----------------------------------------------------------------------------
\* The tap's thread.

\* A mutated pico_Write, which does not check TXbuf for room.
PicoWriteUnchecked(data) ==
    IF psock = "closed"
    THEN dropped' = TRUE /\ UNCHANGED <<tx, wire, exit>>
    ELSE /\ exit' = IF Produced(tx, Len(data)) # Len(data) THEN "short" ELSE "none"
         /\ IF exit' = "none" THEN Offer(write(tx, data))
            ELSE tx' = write(tx, data) /\ UNCHANGED wire
         /\ UNCHANGED dropped

\* A mutated pico_Write, which lets TXbuf run full.
PicoWriteFills(data) ==
    IF psock = "closed"
    THEN dropped' = TRUE /\ UNCHANGED <<tx, wire, exit>>
    ELSE /\ exit' = IF count(tx) + Len(data) > Size THEN "full" ELSE "none"
         /\ IF exit' = "none" THEN Offer(write(tx, data)) ELSE UNCHANGED <<tx, wire>>
         /\ UNCHANGED dropped

\* pico_Write: queue the data on TXbuf, then offer the stack the head of TXbuf.
\* Both failures of the buffer end the process with exit(0).
pico_Write(data) ==
    IF psock = "closed"
    THEN dropped' = TRUE /\ UNCHANGED <<tx, wire, exit>>
    ELSE /\ exit' = IF count(tx) + Len(data) >= Size THEN "full"
                    ELSE IF Produced(tx, Len(data)) # Len(data) THEN "short"
                    ELSE "none"
         /\ IF exit' = "none" THEN Offer(write(tx, data))
            ELSE /\ tx' = IF exit' = "short" THEN write(tx, data) ELSE tx
                 /\ UNCHANGED wire
         /\ UNCHANGED dropped

\* Phy::poll finds sdk_fd readable and hands over what it read.
phyOnUnixData ==
    /\ Running /\ closer.at # "closed" /\ pipe # <<>>
    /\ LET len == Least(Len(pipe), PhyRead)
           data == SubSeq(pipe, 1, len)
       IN  /\ pico_Write(data)
           /\ evWr' \in IF exit' = "none" THEN pico_tcp_push(MaxWriteLen(write(tx, data)))
                        ELSE {evWr}
           /\ pipe' = SubSeq(pipe, len + 1, Len(pipe))
    /\ UNCHANGED <<written, acked, stalled, psock, closer>>

\* A mutated pico_cb_tcp_write, which returns on an empty stack queue.
CbTcpWriteOnlyWhenQueued ==
    /\ IF count(tx) > 0 /\ Queued > 0 THEN Offer(tx) ELSE UNCHANGED <<tx, wire>>
    /\ UNCHANGED <<written, pipe, acked, stalled, psock, dropped, exit, closer>>

\* A mutated pico_cb_tcp_write, which consumes what it offered, not what the
\* stack took.
CbTcpWriteConsumesAll ==
    /\ \E r \in pico_socket_write(MaxWriteLen(tx)) :
          IF count(tx) > 0 /\ r > 0
          THEN /\ wire' = wire \o SubSeq(RawRead(tx, MaxWriteLen(tx), Foreign), 1, r)
               /\ tx' = consume(tx, MaxWriteLen(tx))
          ELSE UNCHANGED <<tx, wire>>
    /\ UNCHANGED <<written, pipe, acked, stalled, psock, dropped, exit, closer>>

pico_cb_tcp_write ==
    /\ IF count(tx) > 0 THEN Offer(tx) ELSE UNCHANGED <<tx, wire>>
    /\ UNCHANGED <<written, pipe, acked, stalled, psock, dropped, exit, closer>>

\* pico_stack_tick dispatches a pending PICO_SOCK_EV_WR and clears it.
EvWr ==
    /\ Running /\ evWr
    /\ evWr' = FALSE
    /\ pico_cb_tcp_write

-----------------------------------------------------------------------------
\* The stack, and the network behind it.

\* Every acknowledgement of new data makes PICO_SOCK_EV_WR pending.  A segment of the
\* peer may also wake a stack that has stalled, but nothing makes the peer send one.
Acked ==
    /\ Running /\ psock # "closed"
    /\ \E k \in 1 .. Queued : acked' = acked + k
    /\ evWr' = TRUE /\ stalled' = FALSE
    /\ UNCHANGED <<written, pipe, tx, wire, psock, dropped, exit, closer>>

\* pico_tcp_output finds no segment at snd_nxt and no timer is set: what is queued is
\* not sent any more, although the peer lives (NeverStalled of PicoTcp).
Stalls ==
    /\ Running /\ psock # "closed" /\ Queued > 0 /\ ~stalled
    /\ stalled' = TRUE
    /\ UNCHANGED <<written, pipe, tx, wire, acked, evWr, psock, dropped, exit, closer>>

\* PICO_SOCK_EV_CLOSE after a FIN of the peer: the callback closes the socket.
EvClose ==
    /\ Running /\ psock = "open"
    /\ psock' = "shut"
    /\ UNCHANGED <<written, pipe, tx, wire, acked, evWr, stalled, dropped, exit, closer>>

\* The stack finishes closing a socket that was closed, or the peer resets it.
Closed ==
    /\ Running /\ psock # "closed"
    /\ psock' = "closed"
    /\ UNCHANGED <<written, pipe, tx, wire, acked, evWr, stalled, dropped, exit, closer>>

Next ==
    \/ zts_write \/ zts_close \/ CloseReadsEnd \/ CloseReadsBegin \/ TapClose
    \/ phyOnUnixData \/ EvWr
    \/ Acked \/ Stalls \/ EvClose \/ Closed

\* The tap's thread polls and ticks in a loop for as long as the tap runs, a
\* close call that has begun is scheduled again, and a live peer acknowledges
\* unless the stack has stalled.
Fairness ==
    /\ WF_vars(phyOnUnixData) /\ WF_vars(EvWr) /\ WF_vars(~stalled /\ Acked)
    /\ WF_vars(CloseReadsEnd) /\ WF_vars(CloseReadsBegin) /\ WF_vars(TapClose)

Spec == Init /\ [][Next]_vars
LiveSpec == Spec /\ Fairness

-----------------------------------------------------------------------------
\* The shape of the state; TXbuf is well-formed and its last slot is never used
\* (pico_Write refuses data that would fill it), so that begin = end means empty.
TypeOK ==
    /\ written \in 0 .. MaxBytes /\ acked \in 0 .. Len(wire)
    /\ pipe \in Seq(Elem) /\ wire \in Seq(Elem)
    /\ tx \in RingBuffers /\ ~tx.wrap /\ count(tx) < Size
    /\ evWr \in BOOLEAN /\ stalled \in BOOLEAN /\ psock \in {"open", "shut", "closed"}
    /\ dropped \in BOOLEAN /\ exit \in {"none", "full", "short"}
    /\ closer \in [at : {"open", "wait", "count", "close", "closed"},
                   blocking : BOOLEAN, i : 0 .. CloseTries, end : Index, due : Nat]

\* "because we checked ZT_TCP_TX_BUF_SZ above, this should not happen"
\* (picoTCP.cpp 806): TXbuf never takes only a part of the data.
NeverShort == exit # "short"

\* The bytes the application wrote and the stack has not taken are, in order,
\* those on TXbuf followed by those in the socketpair: none is lost, repeated or
\* overtaken by the interplay of phyOnUnixData and the EV_WR callback, however
\* the ring wraps and however much of an offer the stack takes.
NothingLost ==
    Running /\ ~dropped => Contents(tx) \o pipe = Bytes(Len(wire), written)

\* A byte handed to the stack is the right byte of the stream or one read past
\* the end of TXbuf's array; never another byte of the stream, never an old one.
RightOrForeign == \A i \in 1 .. Len(wire) : wire[i] \in {i, Foreign}

\* No wake-up is lost: data waits on TXbuf only while the stack still owes a
\* PICO_SOCK_EV_WR for it, pending already or due with the next acknowledgement, if
\* there is one.  pico_cb_tcp_write and pico_Write write once per call and rely on it.
NotStranded ==
    Running /\ psock = "open" /\ count(tx) > 0 => evWr \/ Queued > 0

\* A blocking zts_close that stops waiting because TXbuf looks empty has given the
\* stack every byte that was on TXbuf when it looked, although it reads end and
\* begin at different moments and without _tx_m, and the ring may go around in
\* between (libzt.cpp 1061).
CloseDrained ==
    closer.at \in {"close", "closed"} /\ closer.blocking /\ closer.i < CloseTries
    => Len(wire) >= closer.due

\* Every byte the application wrote reaches the stack, unless the connection is
\* closed, the process ends or the stack has stalled for good.
EveryByteSent ==
    \A n \in 1 .. MaxBytes :
        written >= n ~> (Len(wire) >= n \/ psock # "open" \/ ~Running \/ []stalled)

\* zts_close returns, whatever the stack does with the data it waits for.
CloseReturns == closer.at = "wait" ~> (closer.at = "closed" \/ ~Running)
=============================================================================
