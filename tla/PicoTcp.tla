------------------------------ MODULE PicoTcp ------------------------------
(***************************************************************************)
(* The data transfer of an established picoTCP connection                   *)
(* (ext/picotcp/modules/pico_tcp.c), one direction: the sending socket's    *)
(* output queue, the receiving socket's input queue, the retransmission     *)
(* timer and the window, over a network that loses, duplicates and reorders *)
(* frames.                                                                  *)
(*                                                                         *)
(* A byte is the position it has in the stream; a segment has a sequence    *)
(* number of limited width and the positions it carries.  The stream is     *)
(* shorter than half the sequence numbers and may cross zero.               *)
(*                                                                         *)
(* SACK options are abstracted to choices: they only steer which segment a  *)
(* further duplicate ack sends again, and lower what is in flight.  Giving  *)
(* up after PICO_TCP_MAX_RETRANS is left out.                               *)
(***************************************************************************)
EXTENDS Integers, Sequences, FiniteSets

CONSTANTS
    SeqMod,     \* 2^32 in the code
    Isn,        \* sequence number of the stream's first byte
    Total,      \* bound: bytes the application writes
    Mss,        \* bytes in the largest segment
    Writes,     \* bound: lengths of the application's writes
    InMax,      \* tcpq_in.max_size
    Ssthresh,   \* ssthresh of a new connection
    CwndMax,    \* bound: congestion window
    Burst,      \* bound: what is left of the score of pico_sockets_loop
    MaxOut,     \* bound: frames waiting in tcp_out when a turn begins
    MaxFrames,  \* bound: data frames the network holds
    MaxAcks     \* bound: acks it holds

ASSUME TcpAssumption ==
    /\ {SeqMod, Isn, Total, Mss, InMax, Ssthresh, CwndMax, Burst, MaxOut,
      MaxFrames, MaxAcks} \subseteq Nat
    /\ 2 * (Total + 1) < SeqMod /\ Isn < SeqMod /\ 0 < Mss /\ Mss < InMax /\ Writes \subseteq 1 .. Mss

VARIABLES
    pushed,     \* bytes pico_tcp_push took; snd_last + 1 follows from it
    tx,         \* the sending socket
    tcp_out,    \* the protocol's queue of frames to send
    rx,         \* the receiving socket
    got,        \* what pico_tcp_read has returned
    frames,     \* data frames in the network
    acks,       \* acks in the network
    shed,       \* history: positions sent in a frame that was not kept
    overrun     \* history: a frame was sent that exceeds the window

vars == <<pushed, tx, tcp_out, rx, got, frames, acks, shed, overrun>>

LOOKAHEAD == 0
RECOVER == 3
BLACKOUT == 4
WINDOW_FULL == 6
PICO_TCP_IW == 2

Plus(s, n) == (s + n) % SeqMod
SeqOf(p) == Plus(Isn, p)
Segment(p, n) == [seq |-> SeqOf(p), at |-> p, len |-> n]
End(x) == Plus(x.seq, x.len)

\* A mutated pico_seq_compare, without the wrap.
PlainCompare(a, b) == a - b

pico_seq_compare(a, b) ==
    LET thresh == (SeqMod \div 2) - 1
    IN  IF a > b THEN (IF a - b > thresh THEN -((b - a) % SeqMod) ELSE a - b)
        ELSE (IF b - a > thresh THEN (a - b) % SeqMod ELSE -(b - a))

peek_segment(q, s) == {x \in q : x.seq = s}
First(q) == {x \in q : \A y \in q : pico_seq_compare(x.seq, y.seq) <= 0}
first_segment(q) == CHOOSE x \in First(q) : TRUE

\* The network takes a frame, or loses it.
Carry(net, m, max) == {k \in {net, net \union {m}} : Cardinality(k) <= max}
\* It delivers one and forgets it, or will deliver it again.
Left(net, m) == {net, net \ {m}}

Init ==
    /\ pushed = 0 /\ tcp_out = <<>> /\ got = <<>> /\ frames = {} /\ acks = {}
    /\ shed = {} /\ overrun = FALSE
    /\ tx = [outq |-> {}, snd_nxt |-> Isn, snd_last_out |-> 0, snd_retry |-> 0,
             snd_old_ack |-> Isn, recv_wnd |-> InMax, x_mode |-> LOOKAHEAD, timer |-> FALSE,
             in_flight |-> 0, cwnd |-> PICO_TCP_IW, cwnd_counter |-> 0, ssthresh |-> Ssthresh]
    /\ rx = [inq |-> {}, size |-> 0, rcv_nxt |-> Isn, rcv_processed |-> Isn,
             zeroWindow |-> FALSE, fatal |-> FALSE]

-----------------------------------------------------------------------------
\* The sender.

\* TCP_NODELAY is set: a write goes to tcpq_out.  The loop of the stack sends it.
pico_tcp_push ==
    /\ \E n \in Writes :
        /\ pushed + n <= Total
        /\ tx' = [tx EXCEPT !.outq = @ \union {Segment(pushed, n)}]
        /\ pushed' = pushed + n
    /\ UNCHANGED <<tcp_out, rx, got, frames, acks, shed, overrun>>

\* A step of the sender: its socket, the frames it sends, what it does not keep, and
\* whether the loop of pico_tcp_output goes on.
Step(t) == [t |-> t, sent |-> <<>>, shed |-> {}, overrun |-> FALSE, on |-> TRUE]

Take(s) ==
    /\ tx' = s.t
    /\ tcp_out' = tcp_out \o s.sent
    /\ shed' = shed \union s.shed /\ overrun' = (overrun \/ s.overrun)

\* Cwnd grows no further than a bound.
Grow(cwnd) == IF cwnd < CwndMax THEN cwnd + 1 ELSE cwnd

\* The frame is cut to the size of the window.  Its head is sent and not kept;
\* a frame no longer than the window stays whole, wherever it begins.
tcp_split_segment(s, f, size) ==
    LET tail == [seq |-> Plus(f.seq, size), at |-> f.at + size, len |-> f.len - size]
    IN  IF size >= f.len THEN [s EXCEPT !.overrun = TRUE, !.sent = Append(@, f)]
        ELSE [s EXCEPT !.t.outq = (@ \ {f}) \union {tail},
                       !.shed = @ \union f.at .. (f.at + size - 1),
                       !.sent = Append(@, [f EXCEPT !.len = size])]

\* One frame goes to tcp_out, all of it or as much as the window takes; in the
\* latter case the congestion window shrinks to what is in flight.
SendOne(s, f, fits) ==
    LET cut == IF fits THEN [s EXCEPT !.sent = Append(@, f)]
               ELSE tcp_split_segment(s, f, s.t.recv_wnd)
        flying == s.t.in_flight
    IN  [cut EXCEPT !.t.snd_nxt = Plus(@, cut.sent[Len(cut.sent)].len),
                    !.t.snd_last_out = f.seq,
                    !.t.in_flight = @ + 1,
                    !.t.cwnd = IF fits THEN @ ELSE IF flying < 1 THEN 1 ELSE flying]

\* One turn of the loop of pico_tcp_output; una is the first number when it began.
OutputTurn(s, una) ==
    LET found == peek_segment(s.t.outq, s.t.snd_nxt)
        f == CHOOSE x \in found : TRUE
        diff == pico_seq_compare(f.seq, una)
    IN  IF ~s.on \/ found = {} \/ s.t.cwnd < s.t.in_flight \/ diff < 0 THEN s
        ELSE IF diff < s.t.recv_wnd THEN SendOne(s, f, diff + f.len <= s.t.recv_wnd)
        ELSE IF s.t.x_mode = WINDOW_FULL THEN s
        ELSE [s EXCEPT !.t.snd_nxt = una, !.t.snd_retry = una, !.t.x_mode = WINDOW_FULL,
                       !.on = FALSE]

\* As many turns as the score allows, and one at least.
OutputLoop(s, una, score) ==
    LET n == IF score < 1 THEN 1 ELSE score
        turn[k \in 0 .. n] == IF k = 0 THEN s ELSE OutputTurn(turn[k - 1], una)
    IN  turn[n]

\* Sending, or finding the window full, starts the timer.
pico_tcp_output(s, score) ==
    IF peek_segment(s.t.outq, s.t.snd_nxt) = {} \/ s.t.cwnd < s.t.in_flight THEN s
    ELSE OutputLoop([s EXCEPT !.t.timer = TRUE], first_segment(s.t.outq).seq, score)

\* pico_sockets_loop_tcp, with what is left of its score.
SocketsLoop ==
    /\ Len(tcp_out) <= MaxOut
    /\ \E score \in 1 .. Burst :
        LET s == pico_tcp_output(Step(tx), score)
        IN  s.t # tx /\ Take(s)
    /\ UNCHANGED <<pushed, rx, got, frames, acks>>

\* A frame leaves tcp_out: snd_nxt catches up with it.
pico_tcp_process_out ==
    /\ tcp_out # <<>>
    /\ LET f == Head(tcp_out)
       IN  /\ tx' = [tx EXCEPT !.snd_nxt =
                        IF f.len > 0 /\ pico_seq_compare(End(f), @) > 0 THEN End(f) ELSE @]
           /\ frames' \in Carry(frames, f, MaxFrames)
    /\ tcp_out' = Tail(tcp_out)
    /\ UNCHANGED <<pushed, rx, got, acks, shed, overrun>>

\* An empty frame with an old sequence number, to be acked.
Probe == [seq |-> Plus(tx.snd_nxt, SeqMod - 1), at |-> 0, len |-> 0]

\* The timer has run out: probe a full window, or send the first segment again.
tcp_retrans_timeout ==
    /\ tx.timer /\ Len(tcp_out) <= MaxOut
    /\ IF tx.outq = {} THEN Take(Step([tx EXCEPT !.timer = FALSE]))
       ELSE IF tx.x_mode = WINDOW_FULL THEN Take([Step(tx) EXCEPT !.sent = <<Probe>>])
       ELSE LET f == first_segment(tx.outq)
                blackout == IF tx.x_mode = BLACKOUT THEN tx
                            ELSE [tx EXCEPT !.x_mode = BLACKOUT, !.cwnd = PICO_TCP_IW,
                                            !.in_flight = 0]
            IN  Take([Step([blackout EXCEPT !.snd_last_out = f.seq]) EXCEPT !.sent = <<f>>])
    /\ UNCHANGED <<pushed, rx, got, frames, acks>>

\* The segments an ack covers.
release_all_until(q, ack) == {x \in q : pico_seq_compare(End(x), ack) <= 0}

\* The third duplicate ack in a row.
EnterRecover(t) ==
    LET cwnd == IF t.in_flight > PICO_TCP_IW THEN t.in_flight ELSE PICO_TCP_IW
        half == IF t.ssthresh > cwnd THEN t.ssthresh \div 4 ELSE cwnd \div 2
    IN  [t EXCEPT !.x_mode = RECOVER, !.cwnd = cwnd,
                  !.snd_retry = first_segment(t.outq).seq,
                  !.ssthresh = IF half < 2 THEN 2 ELSE half]

\* A further one: the segment snd_retry names is sent again if congestion control
\* lets it, and snd_retry moves to nxt.
Recover(t, nxt) ==
    LET again == peek_segment(t.outq, t.snd_retry)
        f == CHOOSE x \in again : TRUE
        s == IF t.in_flight > t.cwnd THEN Step(t)
             ELSE IF again = {} THEN Step([t EXCEPT !.snd_retry = nxt])
             ELSE [Step([t EXCEPT !.snd_retry = nxt, !.in_flight = @ + 1,
                                  !.snd_last_out = f.seq]) EXCEPT !.sent = <<f>>]
    IN  IF t.cwnd_counter = 0 THEN [s EXCEPT !.t.cwnd_counter = 1]
        ELSE [s EXCEPT !.t.cwnd_counter = 0, !.t.cwnd = IF @ - 1 < 2 THEN 2 ELSE @ - 1]

\* The segments snd_retry may move to; which one depends on SACK options.
RetryNext(t) ==
    LET una == first_segment(t.outq).seq
    IN  {una} \union {x.seq : x \in {x \in t.outq :
            /\ pico_seq_compare(x.seq, t.snd_nxt) <= 0
            /\ pico_seq_compare(x.seq, una) <= t.recv_wnd}}

tcp_congestion_control(t) ==
    IF t.x_mode > LOOKAHEAD THEN t
    ELSE IF t.cwnd < t.ssthresh THEN [t EXCEPT !.cwnd = Grow(@)]
    ELSE IF t.cwnd_counter + 1 >= t.cwnd
         THEN [t EXCEPT !.cwnd = Grow(@), !.cwnd_counter = 0]
    ELSE [t EXCEPT !.cwnd_counter = @ + 1]

\* What an ack that covers acked segments does first: leave the blackout or the full
\* window, and count what is in flight.  SACK options may have lowered that by one.
AckBegins(m, acked, sacked) ==
    LET rest == tx.outq \ acked
        awake == tx.x_mode = BLACKOUT \/ (tx.x_mode = WINDOW_FULL /\ m.wnd > Mss)
        back == tx.x_mode = BLACKOUT /\ acked # {} /\ rest # {}
        flying == tx.in_flight - sacked
        n == Cardinality(acked)
    IN  [tx EXCEPT !.outq = rest, !.recv_wnd = m.wnd, !.timer = TRUE,
                   !.snd_nxt = IF back THEN first_segment(rest).seq ELSE @,
                   !.x_mode = IF awake \/ rest = {} \/ acked # {} THEN LOOKAHEAD ELSE @,
                   !.in_flight = IF acked = {} THEN (IF flying > 0 THEN flying - 1 ELSE 0)
                                 ELSE (IF n > flying THEN 0 ELSE flying - n)]

\* What it does last: congestion control, and put a few segments out.
AckEnds(m, s) ==
    LET t == tcp_congestion_control(s.t)
        c == [s EXCEPT !.t = t]
        out == IF /\ t.x_mode = LOOKAHEAD /\ t.cwnd >= t.in_flight
                  /\ t.snd_nxt > t.snd_last_out
               THEN pico_tcp_output(c, t.cwnd - t.in_flight) ELSE c
    IN  [out EXCEPT !.t.snd_old_ack = m.ack]

tcp_ack(m) ==
    LET acked == release_all_until(tx.outq, m.ack)
    IN  /\ m \in acks /\ Len(tcp_out) <= MaxOut
        /\ \E sacked \in 0 .. (IF tx.x_mode > LOOKAHEAD /\ tx.in_flight > 0 THEN 1 ELSE 0) :
            LET t == AckBegins(m, acked, sacked)
                dup == /\ t.outq # {} /\ acked = {}
                       /\ t.snd_old_ack = m.ack /\ m.ack # t.snd_nxt
            IN  \/ ~dup /\ Take(AckEnds(m, Step(t)))
                \/ dup /\ t.x_mode > RECOVER /\ Take(AckEnds(m, Step(t)))
                \/ /\ dup /\ t.x_mode < RECOVER
                   /\ Take(AckEnds(m, Step(IF t.x_mode + 1 = RECOVER THEN EnterRecover(t)
                                           ELSE [t EXCEPT !.x_mode = @ + 1])))
                \/ /\ dup /\ t.x_mode = RECOVER
                   /\ \E nxt \in RetryNext(t) : Take(AckEnds(m, Recover(t, nxt)))
        /\ acks' \in Left(acks, m)
        /\ UNCHANGED <<pushed, rx, got, frames>>

-----------------------------------------------------------------------------
\* The receiver.

\* tcp_set_space: the window is the room in tcpq_in.
Space(size) == InMax - size

tcp_send_ack(nxt, size) ==
    acks' \in Carry(acks, [ack |-> nxt, wnd |-> Space(size)], MaxAcks)

\* A mutated enqueue, which does not look for room.
EnqueueUnbounded(x) == x.len > 0 /\ peek_segment(rx.inq, x.seq) = {}

\* A mutated enqueue, which takes the same segment twice.
EnqueueTwice(x) == x.len > 0 /\ rx.size + x.len <= InMax

\* Whether a segment is put on tcpq_in: there is room, and none with its number.
pico_enqueue_segment(x) ==
    x.len > 0 /\ rx.size + x.len <= InMax /\ peek_segment(rx.inq, x.seq) = {}

\* rcv_nxt moves over a segment that follows.
ScrollTurn(q, s) ==
    LET next == peek_segment(q, s)
    IN  IF next = {} THEN s ELSE End(CHOOSE x \in next : TRUE)

\* It moves over one after the other until none follows.
Scroll(q, s) ==
    LET n == Cardinality(q)
        nxt[k \in 0 .. n] == IF k = 0 THEN s ELSE ScrollTurn(q, nxt[k - 1])
    IN  nxt[n]

\* A segment that is expected, or early, is kept; an old one is not.  All are acked.
tcp_data_in(f) ==
    LET cmp == pico_seq_compare(f.seq, rx.rcv_nxt)
        kept == cmp >= 0 /\ pico_enqueue_segment(f)
        size == IF kept THEN rx.size + f.len ELSE rx.size
        q == IF kept THEN rx.inq \union {f} ELSE rx.inq
        nxt == IF kept /\ cmp = 0 THEN Scroll(q, End(f)) ELSE rx.rcv_nxt
    IN  /\ f \in frames
        /\ frames' \in Left(frames, f)
        /\ rx' = [rx EXCEPT !.inq = q, !.size = size, !.rcv_nxt = nxt,
                            !.zeroWindow = (Space(size) = 0)]
        /\ tcp_send_ack(nxt, size)
        /\ UNCHANGED <<pushed, tx, tcp_out, got, shed, overrun>>

\* A segment that is read is released; the next is the one that follows it.
ReleaseTurn(r, s) ==
    LET h == CHOOSE x \in r.head : TRUE
    IN  IF r.head = {} THEN r
        ELSE IF pico_seq_compare(End(h), s) > 0 THEN [r EXCEPT !.head = {}]
        ELSE [q |-> r.q \ {h}, head |-> peek_segment(r.q, End(h))]

\* Segments from the first on that are read, as far as they follow each other.
release_until(q, s) ==
    LET n == Cardinality(q)
        r[k \in 0 .. n] == IF k = 0 THEN [q |-> q, head |-> First(q)]
                           ELSE ReleaseTurn(r[k - 1], s)
    IN  r[n].q

\* A mutated copy, which begins at the start of the frame.
BytesFromStart(x, off, n) == [i \in 1 .. n |-> x.at + i - 1]

\* What memcpy takes from a frame.
Bytes(x, off, n) == [i \in 1 .. n |-> x.at + off + i - 1]

\* One turn of the loop of pico_tcp_read.  A frame is discarded when one turn reads
\* all or nothing of it; one read in parts is released by a later turn.  release_until
\* may leave a segment behind that ends before rcv_processed (FATAL TCP ERR): its
\* length wraps, memcpy leaves the payload and what follows is undefined.
ReadTurn(r, len) ==
    LET q == release_until(r.q, r.done)
        f == first_segment(q)
        off == pico_seq_compare(r.done, f.seq)
        left == len - Len(r.out)
        n == IF f.len - off > left THEN left ELSE f.len - off
    IN  IF r.fatal \/ left = 0 THEN r
        ELSE IF q = {} THEN [r EXCEPT !.q = q]
        ELSE IF off < 0 THEN [r EXCEPT !.q = q]
        ELSE IF off > f.len THEN [r EXCEPT !.q = q, !.fatal = TRUE]
        ELSE [r EXCEPT !.q = IF n \in {0, f.len} THEN q \ {f} ELSE q,
                       !.done = Plus(@, n), !.out = @ \o Bytes(f, off, n)]

\* Every turn but the last reads a byte or discards a frame.
ReadLoop(q, done, len) ==
    LET n == len + Cardinality(q) + 1
        turn[k \in 0 .. n] ==
            IF k = 0 THEN [q |-> q, done |-> done, out |-> <<>>, fatal |-> FALSE]
            ELSE ReadTurn(turn[k - 1], len)
    IN  turn[n]

\* The bytes a queue holds.
SumLen(q) == Cardinality(UNION {{x} \X (1 .. x.len) : x \in q})

\* The application reads some bytes; an ack tells of a window that was closed.
pico_tcp_read ==
    \E len \in 1 .. InMax :
        LET r == ReadLoop(rx.inq, rx.rcv_processed, len)
            size == rx.size - SumLen(rx.inq \ r.q)
        IN  /\ rx' = [rx EXCEPT !.inq = r.q, !.size = size, !.rcv_processed = r.done,
                                !.zeroWindow = (Space(size) = 0), !.fatal = r.fatal]
            /\ rx' # rx
            /\ got' = got \o r.out
            /\ IF rx.zeroWindow /\ Space(size) > 0 THEN tcp_send_ack(rx.rcv_nxt, size)
               ELSE UNCHANGED acks
            /\ UNCHANGED <<pushed, tx, tcp_out, frames, shed, overrun>>

-----------------------------------------------------------------------------
\* What a program does after undefined behaviour is not modelled.
Next ==
    /\ ~rx.fatal
    /\ \/ pico_tcp_push \/ SocketsLoop \/ pico_tcp_process_out \/ tcp_retrans_timeout
       \/ \E m \in acks : tcp_ack(m)
       \/ \E f \in frames : tcp_data_in(f)
       \/ pico_tcp_read

Spec == Init /\ [][Next]_vars

-----------------------------------------------------------------------------
SeqNumbers == 0 .. SeqMod - 1
Segments == [seq : SeqNumbers, at : Nat, len : Nat]
Senders ==
    [outq : SUBSET Segments, snd_nxt : SeqNumbers, snd_last_out : SeqNumbers,
     snd_retry : SeqNumbers, snd_old_ack : SeqNumbers, recv_wnd : 0 .. InMax, x_mode : 0 .. 6,
     timer : BOOLEAN, in_flight : Nat, cwnd : Nat \ {0}, cwnd_counter : Nat, ssthresh : Nat]
Receivers ==
    [inq : SUBSET Segments, size : 0 .. InMax, rcv_nxt : SeqNumbers,
     rcv_processed : SeqNumbers, zeroWindow : BOOLEAN, fatal : BOOLEAN]

\* The counters stay in their ranges; above all tcpq_in never grows past max_size, on
\* which the window that tcp_set_space announces relies.
TypeOK ==
    /\ pushed \in 0 .. Total /\ tx \in Senders /\ rx \in Receivers
    /\ tcp_out \in Seq(Segments) /\ frames \subseteq Segments
    /\ acks \subseteq [ack : SeqNumbers, wnd : 0 .. InMax]
    /\ got \in Seq(Nat) /\ shed \subseteq Nat /\ overrun \in BOOLEAN

\* What pico_tcp_read returns is what pico_tcp_push took, in order, nothing twice and
\* nothing left out, whatever the network does, also where a segment that was split,
\* sent again or read in parts overlaps another one in tcpq_in; up to a read that begins
\* behind the end of the first segment there (rx.fatal).
StreamExact == got = [i \in 1 .. Len(got) |-> i - 1]

\* tcpq_in.size, from which the window is computed, is what is in the queue, after any
\* mix of enqueued, refused, discarded and partly read segments.
SizeExact == rx.size = SumLen(rx.inq)

Received == (rx.rcv_nxt - Isn) % SeqMod

\* Every byte the peer has not received is still in tcpq_out to be sent again, unless
\* tcp_split_segment cut it off a frame that the window was too small for.  Acks come
\* late, twice and in any order, and the sequence numbers cross zero.
Retained ==
    \A p \in Received .. pushed - 1 :
        p \in shed \/ \E x \in tx.outq : p \in x.at .. (x.at + x.len - 1)

\* What the comment before the end of tcp_ack says ("If some space was created, put a
\* few segments out"): the sender does not come to rest with segments in tcpq_out, no
\* timer and none of them at snd_nxt, where nothing sends them any more.
NeverStalled ==
    ~(tx.outq # {} /\ ~tx.timer /\ tcp_out = <<>> /\ peek_segment(tx.outq, tx.snd_nxt) = {})
=============================================================================
