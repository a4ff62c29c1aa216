------------------------------ MODULE PicoConn ------------------------------
(***************************************************************************)
(* The life of TCP sockets in picoTCP, from connect or SYN to the memory    *)
(* being freed (ext/picotcp/modules/pico_tcp.c, stack/pico_socket.c), with  *)
(* the callback libzt registers (src/picoTCP.cpp).                          *)
(*                                                                         *)
(* One stack with a listening socket, the sockets it creates and sockets    *)
(* that connect.  The peers are the network's: any segment may arrive at    *)
(* any time.  What handlers compare of a segment with the socket's sequence *)
(* numbers is a field of the segment.  Data is in PicoTcp; here a socket    *)
(* knows only whether some is unread or unsent.  Timers fire in any order;  *)
(* memory and timers do not run out.                                        *)
(***************************************************************************)
EXTENDS Integers, FiniteSetsExt

CONSTANTS
    Socks,      \* sockets that can be created
    Clients,    \* those of them that may connect
    Talkers,    \* those of them whose connections carry data
    Backlogs,   \* backlogs the application listens with
    PendMod,    \* 2^16 in the code: number_of_pending_conn is a uint16_t
    Retries,    \* PICO_TCP_MAX_CONNECT_RETRIES
    MaxRetrans  \* PICO_TCP_MAX_RETRANS

ASSUME ConnAssumption ==
    /\ IsFiniteSet(Socks) /\ Clients \subseteq Socks /\ Talkers \subseteq Socks
    /\ IsFiniteSet(Backlogs) /\ Backlogs \subseteq Nat /\ {Retries, MaxRetrans, PendMod} \subseteq Nat
    /\ \A b \in Backlogs : b + 1 < PendMod

VARIABLES
    sock,       \* the sockets
    lis,        \* the listening socket
    silent,     \* the peers have fallen silent for good
    missed,     \* history: connections reported while libzt was not listening
    bad         \* the first use of freed memory, or "no"

vars == <<sock, lis, silent, missed, bad>>

\* priv is set when the socket has a Connection; closure_ts says that libzt was told
\* of the end; open that the application has not closed it; data that the connection
\* carries data.  initconn, rtx and fin are the timers that are set, gc the garbage
\* collections under way.  fins and late are history: FINs sent, and tcp_deltcb called
\* after pico_socket_del.
NoSock == [kind |-> "none", tcp |-> "UNDEF", tree |-> FALSE, parent |-> FALSE, priv |-> FALSE,
           shut_local |-> FALSE, data |-> FALSE, unread |-> FALSE, unsent |-> FALSE,
           remote_closed |-> FALSE, backoff |-> 0, initconn |-> FALSE, rtx |-> FALSE, fin |-> FALSE, gc |-> 0,
           freed |-> FALSE, closure_ts |-> FALSE, open |-> FALSE, fins |-> 0, late |-> FALSE]

NewSock(s, kind, tcp) ==
    [NoSock EXCEPT !.kind = kind, !.tcp = tcp, !.tree = TRUE, !.data = s \in Talkers]

Init ==
    /\ sock = [s \in Socks |-> NoSock]
    /\ lis \in [state : {"listen"}, listening : {FALSE}, number_of_pending_conn : {0},
                max_backlog : Backlogs]
    /\ silent = FALSE /\ missed = 0 /\ bad = "no"

-----------------------------------------------------------------------------
\* Closing, on a socket record r.

tcp_linger(r) == [r EXCEPT !.fin = TRUE]

\* A mutated tcp_send_fin, which relies on the acknowledgement.
SendFinNoLinger(r) == [r EXCEPT !.fins = Min({@ + 1, 2})]

tcp_send_fin(r) == tcp_linger([r EXCEPT !.fins = Min({@ + 1, 2})])

\* A mutated closing check, which forgets to leave CLOSE_WAIT.
CheckClosingStays(r) ==
    IF r.unsent THEN r
    ELSE IF r.tcp = "ESTABLISHED" THEN [tcp_send_fin(r) EXCEPT !.tcp = "FIN_WAIT1"]
    ELSE IF r.tcp = "CLOSE_WAIT" THEN tcp_send_fin(r)
    ELSE r

\* checkLocalClosing and checkRemoteClosing, with nothing left to send.
CheckClosing(r) ==
    IF r.unsent THEN r
    ELSE IF r.tcp = "ESTABLISHED" THEN [tcp_send_fin(r) EXCEPT !.tcp = "FIN_WAIT1"]
    ELSE IF r.tcp = "CLOSE_WAIT" THEN [tcp_send_fin(r) EXCEPT !.tcp = "LAST_ACK"]
    ELSE r

\* pico_socket_close, and pico_socket_shutdown of both directions: nothing is done for
\* a socket that was deleted.
pico_socket_close(r) ==
    IF r.tree THEN CheckClosing([r EXCEPT !.shut_local = TRUE]) ELSE r

\* libzt's callback closes the socket when it hears of the peer's FIN.
EvClose(r) == IF r.priv THEN [pico_socket_close(r) EXCEPT !.closure_ts = TRUE] ELSE r

EvFin(r) == [r EXCEPT !.closure_ts = @ \/ r.priv]

-----------------------------------------------------------------------------
\* The handlers of tcp_fsm: the outcomes for a socket r and a segment f.  f.eq says
\* that its sequence number is rcv_nxt, f.ack how its acknowledgement lies to snd_nxt,
\* f.wnd that a reset lies in the window, f.len that it has data.

Outcome(R, action) == {[r |-> r, then |-> action] : r \in R}

Nothing(r) == Outcome({r}, "keep")

\* Some or all of the data may be acknowledged; pico_tcp_output at the end sends the
\* FIN of a socket that was shut.  The last line of tcp_ack sets the timer whatever is
\* at snd_nxt, so that an acknowledgement also wakes a sender that had stalled; on an
\* empty queue that timer does nothing and is left out.
AckResults(r) ==
    LET acked == {[r EXCEPT !.unsent = FALSE, !.rtx = FALSE, !.backoff = 0]}
                 \union {[r EXCEPT !.rtx = TRUE, !.backoff = b] : b \in {x \in {0, r.backoff} : r.unsent}}
    IN  acked \union {CheckClosing(a) : a \in {x \in acked : x.shut_local}}

tcp_ack(r) == Outcome(AckResults(r), "keep")

DataResults(r) == {r} \union IF r.data THEN {[r EXCEPT !.unread = TRUE]} ELSE {}

tcp_data_in(r) == Outcome(DataResults(r), "keep")

tcp_synack(r, f) ==
    IF f.ack = "syn"
    THEN Outcome({[r EXCEPT !.initconn = FALSE, !.backoff = 0, !.tcp = "ESTABLISHED"]}, "keep")
    ELSE Nothing(r)

\* A mutated tcp_first_ack, which does not tell the parent.
FirstAckUntold(r, f) ==
    IF f.ack = "nxt"
    THEN Outcome({[a EXCEPT !.tcp = "ESTABLISHED"] : a \in AckResults(r)}, "keep")
    ELSE Nothing(r)

\* The parent is told (EvConn).
tcp_first_ack(r, f) ==
    IF f.ack = "nxt"
    THEN Outcome({[a EXCEPT !.tcp = "ESTABLISHED"] : a \in AckResults(r)}, "conn")
    ELSE Nothing(r)

\* A SYN that is not the first one again: tcp_send_rst reports the end and deletes.
tcp_synrecv_syn(r, f) == IF f.eq THEN Nothing(r) ELSE Outcome({EvFin(r)}, "del")

attempt_closewait(r, f) ==
    IF ~f.eq THEN r
    ELSE IF r.unread THEN [r EXCEPT !.remote_closed = TRUE]
    ELSE EvClose(IF r.tcp = "ESTABLISHED" THEN [r EXCEPT !.tcp = "CLOSE_WAIT"] ELSE r)

tcp_closewait(r, f) ==
    LET data == IF f.len THEN DataResults(r) ELSE {r}
        acked == IF f.flags = "FIN" THEN data ELSE UNION {AckResults(d) : d \in data}
    IN  Outcome({attempt_closewait(a, f) : a \in acked}, "keep")

tcp_closeconn(r, f) ==
    IF f.eq
    THEN Outcome({pico_socket_close([r EXCEPT !.tcp = "CLOSE_WAIT", !.shut_local = TRUE])}, "keep")
    ELSE Nothing(r)

tcp_finwaitack(r, f) ==
    Outcome({IF f.ack = "pre" THEN [a EXCEPT !.tcp = "FIN_WAIT2"] ELSE a : a \in AckResults(r)},
            "keep")

tcp_rcvfin(r) == Outcome({[r EXCEPT !.tcp = "CLOSING"]}, "keep")

tcp_finack(r) == Outcome({tcp_linger([EvFin(r) EXCEPT !.tcp = "TIME_WAIT"])}, "keep")

tcp_finwaitfin(r, f) ==
    LET told == EvClose([r EXCEPT !.tcp = "TIME_WAIT"])
    IN  Outcome({tcp_linger(d) : d \in IF f.len THEN DataResults(told) ELSE {told}}, "keep")

tcp_closing_ack(r, f) ==
    Outcome({IF f.ack = "nxt" THEN tcp_linger([a EXCEPT !.tcp = "TIME_WAIT"]) ELSE a
               : a \in AckResults(r)}, "keep")

tcp_lastackwait(r, f) ==
    IF f.ack = "nxt" THEN Outcome({EvFin(r)}, "del") ELSE Nothing(r)

tcp_rst(r, f) ==
    IF (r.tcp = "SYN_SENT" /\ f.ack = "syn") \/ (r.tcp # "SYN_SENT" /\ f.wnd)
    THEN Outcome({EvFin(r)}, "del") ELSE Nothing(r)

\* In the states whose table has tcp_send_rst, tcp_halfopencon or NULL nothing changes.
Call(action, r, f) ==
    CASE action = "tcp_ack" -> tcp_ack(r)
      [] action = "tcp_data_in" -> tcp_data_in(r)
      [] action = "tcp_synack" -> tcp_synack(r, f)
      [] action = "tcp_first_ack" -> tcp_first_ack(r, f)
      [] action = "tcp_synrecv_syn" -> tcp_synrecv_syn(r, f)
      [] action = "tcp_closewait" -> tcp_closewait(r, f)
      [] action = "tcp_closeconn" -> tcp_closeconn(r, f)
      [] action = "tcp_finwaitack" -> tcp_finwaitack(r, f)
      [] action = "tcp_rcvfin" -> tcp_rcvfin(r)
      [] action = "tcp_finack" -> tcp_finack(r)
      [] action = "tcp_finwaitfin" -> tcp_finwaitfin(r, f)
      [] action = "tcp_closing_ack" -> tcp_closing_ack(r, f)
      [] action = "tcp_lastackwait" -> tcp_lastackwait(r, f)
      [] action = "tcp_rst" -> tcp_rst(r, f)
      [] OTHER -> Nothing(r)

Row(syn, synack, ack, data, fin, finack, rst) ==
    [syn |-> syn, synack |-> synack, ack |-> ack, data |-> data, fin |-> fin,
     finack |-> finack, rst |-> rst]

tcp_fsm ==
    [SYN_SENT |-> Row("", "tcp_synack", "", "", "", "", "tcp_rst"),
     SYN_RECV |-> Row("tcp_synrecv_syn", "", "tcp_first_ack", "tcp_data_in", "", "tcp_closeconn", "tcp_rst"),
     ESTABLISHED |-> Row("", "tcp_ack", "tcp_ack", "tcp_data_in", "tcp_closewait", "tcp_closewait", "tcp_rst"),
     CLOSE_WAIT |-> Row("", "tcp_ack", "tcp_ack", "", "tcp_closewait", "tcp_closewait", "tcp_rst"),
     LAST_ACK |-> Row("", "tcp_ack", "tcp_lastackwait", "", "", "", "tcp_rst"),
     FIN_WAIT1 |-> Row("", "tcp_ack", "tcp_finwaitack", "tcp_data_in", "tcp_rcvfin", "tcp_finack", "tcp_rst"),
     FIN_WAIT2 |-> Row("", "tcp_ack", "tcp_ack", "tcp_data_in", "tcp_finwaitfin", "tcp_finack", "tcp_rst"),
     CLOSING |-> Row("", "tcp_ack", "tcp_closing_ack", "", "", "", "tcp_rst"),
     TIME_WAIT |-> Row("", "", "", "", "", "", "")]

\* The table of invalid_flags.
ValidFlags(tcp) ==
    CASE tcp = "SYN_SENT" -> {"SYNACK", "RST", "RSTACK"}
      [] tcp = "SYN_RECV" -> {"SYN", "ACK", "PSH", "PSHACK", "FINACK", "RST"}
      [] tcp = "ESTABLISHED" -> {"SYN", "SYNACK", "ACK", "PSH", "PSHACK", "FIN", "FINACK", "RST", "RSTACK"}
      [] OTHER -> {"SYNACK", "ACK", "PSH", "PSHACK", "FIN", "FINACK", "RST"}

\* FINPSHACK is FINACK with data.  A field no handler looks at has one value.
Segments ==
    LET Segs(flags, eqs, acks, wnds, lens) ==
            [flags : flags, eq : eqs, ack : acks, wnd : wnds, len : lens]
    IN  Segs({"SYN"}, BOOLEAN, {"nxt"}, {FALSE}, {FALSE})
        \union Segs({"SYNACK"}, {TRUE}, {"nxt", "syn"}, {FALSE}, {FALSE})
        \union Segs({"ACK"}, {TRUE}, {"nxt", "pre", "syn"}, {FALSE}, {FALSE})
        \union Segs({"PSHACK"}, {TRUE}, {"nxt", "pre", "syn"}, {FALSE}, {TRUE})
        \union Segs({"PSH"}, {TRUE}, {"nxt"}, {FALSE}, {TRUE})
        \union Segs({"FIN", "FINACK"}, BOOLEAN, {"nxt"}, {FALSE}, BOOLEAN)
        \union Segs({"RST", "RSTACK"}, {TRUE}, {"nxt", "syn"}, BOOLEAN, {FALSE})

\* The data of a segment is handled after its acknowledgement and before its FIN or
\* RST, by the row of the state it was received in.
ByFlags(row, r, f) ==
    LET Then(O, on, action) ==
            UNION {IF on /\ o.then # "del"
                   THEN {[x EXCEPT !.then = IF @ = "keep" THEN o.then ELSE @] : x \in Call(action, o.r, f)}
                   ELSE {o} : o \in O}
        acked == Then(Nothing(r), f.flags \in {"ACK", "PSHACK"}, row.ack)
        taken == Then(acked, f.len \/ f.flags \in {"PSH", "PSHACK"}, row.data)
        ended == Then(taken, f.flags \in {"FIN", "FINACK"}, IF f.flags = "FIN" THEN row.fin ELSE row.finack)
    IN  Then(ended, f.flags \in {"RST", "RSTACK"}, row.rst)

\* Invalid flags are answered with a RST and change nothing.
pico_tcp_input(r, f) ==
    LET row == tcp_fsm[r.tcp]
    IN  IF f.flags \notin ValidFlags(r.tcp) THEN Nothing(r)
        ELSE CASE f.flags = "SYN" -> Call(row.syn, r, f)
               [] f.flags = "SYNACK" -> Call(row.synack, r, f)
               [] OTHER -> ByFlags(row, r, f)

-----------------------------------------------------------------------------
\* Steps.

Set(s, r) == sock' = [sock EXCEPT ![s] = r] /\ UNCHANGED <<lis, missed, bad>>

\* The sockets of a port: a connecting socket has one to itself.
HasSockport(s) ==
    IF sock[s].kind = "client" THEN sock[s].tree
    ELSE lis.state = "listen" \/ \E c \in Socks : sock[c].kind = "child" /\ sock[c].tree

OneLess(l) == [l EXCEPT !.number_of_pending_conn = (@ - 1) % PendMod]

Deleted(r) == [r EXCEPT !.tree = FALSE, !.tcp = "UNDEF", !.shut_local = FALSE, !.gc = @ + 1]

\* A mutated pico_socket_del, which leaves the count to accept.
DelKeepsCount(s, r) ==
    IF ~HasSockport(s) THEN Set(s, r)
    ELSE /\ sock' = [sock EXCEPT ![s] = Deleted(r)]
         /\ UNCHANGED <<lis, missed, bad>>

\* A mutated one, which does not look whether the port has sockets.
DelAnyway(s, r) ==
    /\ sock' = [sock EXCEPT ![s] = Deleted(r)]
    /\ lis' = IF r.parent THEN OneLess(lis) ELSE lis
    /\ bad' = IF r.parent /\ lis.state = "freed" THEN "parent" ELSE bad
    /\ UNCHANGED missed

\* pico_socket_del of socket s, which the caller has changed to r.
pico_socket_del(s, r) ==
    IF ~HasSockport(s) THEN Set(s, r)
    ELSE /\ sock' = [sock EXCEPT ![s] = Deleted(r)]
         /\ lis' = IF r.parent THEN OneLess(lis) ELSE lis
         /\ bad' = IF r.parent /\ lis.state = "freed" THEN "parent" ELSE bad
         /\ UNCHANGED missed

\* pico_socket_accept in libzt's callback takes any established socket of the
\* listening one, socket s included, which the caller has changed to r.
Accept(s, r) ==
    LET now == [sock EXCEPT ![s] = r]
    IN  \E c \in {x \in Socks : now[x].tree /\ now[x].parent /\ now[x].tcp = "ESTABLISHED"} :
          /\ sock' = [now EXCEPT ![c].parent = FALSE, ![c].priv = TRUE, ![c].open = TRUE]
          /\ lis' = OneLess(lis)
          /\ UNCHANGED <<missed, bad>>

\* The listening socket is told of a connection.
EvConn(s, r) ==
    \/ lis.state = "listen" /\ lis.listening /\ Accept(s, r)
    \/ /\ lis.state = "deleted" \/ (lis.state = "listen" /\ ~lis.listening)
       /\ sock' = [sock EXCEPT ![s] = r] /\ missed' = missed + 1 /\ UNCHANGED <<lis, bad>>
    \/ lis.state = "freed" /\ bad' = "parent" /\ UNCHANGED <<sock, lis, missed>>

Deliver(s) ==
    /\ sock[s].tree /\ ~silent
    /\ \E f \in Segments : \E o \in pico_tcp_input(sock[s], f) :
          CASE o.then = "keep" -> Set(s, o.r) [] o.then = "del" -> pico_socket_del(s, o.r)
            [] o.then = "conn" -> EvConn(s, o.r)
    /\ UNCHANGED silent

\* A SYN for the listening socket.
tcp_syn(s) ==
    /\ lis.state = "listen" /\ ~silent /\ sock[s].kind = "none"
    /\ lis.number_of_pending_conn < lis.max_backlog
    /\ sock' = [sock EXCEPT ![s] = [NewSock(s, "child", "SYN_RECV") EXCEPT !.parent = TRUE]]
    /\ lis' = [lis EXCEPT !.number_of_pending_conn = @ + 1]
    /\ UNCHANGED <<silent, missed, bad>>

\* pico_socket_connect with pico_tcp_initconn.
pico_socket_connect(s) ==
    /\ s \in Clients /\ sock[s].kind = "none"
    /\ Set(s, [NewSock(s, "client", "SYN_SENT") EXCEPT !.priv = TRUE, !.open = TRUE,
                                                        !.initconn = TRUE])
    /\ UNCHANGED silent

\* pico_Listen sets the Connection's state after the stack listens.
pico_Listen == lis.state = "listen" /\ ~lis.listening /\ lis' = [lis EXCEPT !.listening = TRUE]
               /\ UNCHANGED <<sock, silent, missed, bad>>

\* Data is left to be sent: pico_socket_write.  The timer is set by pico_tcp_output, if
\* a segment begins at snd_nxt; after a stall (NeverStalled of PicoTcp) none does, and
\* the data waits without a timer.
Write(s) ==
    /\ sock[s].data /\ sock[s].tree /\ sock[s].open /\ ~sock[s].shut_local /\ ~sock[s].unsent
    /\ sock[s].tcp \in {"ESTABLISHED", "CLOSE_WAIT"}
    /\ \E armed \in BOOLEAN : Set(s, [sock[s] EXCEPT !.unsent = TRUE, !.rtx = armed])
    /\ UNCHANGED silent

\* pico_tcp_read with tcp_read_finish, called from libzt's callback.
pico_tcp_read(s) ==
    /\ sock[s].tree /\ sock[s].priv /\ sock[s].unread
    /\ \E left \in BOOLEAN :
        Set(s, IF sock[s].remote_closed
               THEN EvClose([sock[s] EXCEPT !.unread = left, !.tcp = "CLOSE_WAIT"])
               ELSE [sock[s] EXCEPT !.unread = left])
    /\ UNCHANGED silent

\* The application closes: pico_Close leaves alone what libzt was told the end of.
pico_Close(s) ==
    /\ sock[s].open
    /\ LET r == [sock[s] EXCEPT !.open = FALSE]
       IN  /\ sock' = [sock EXCEPT ![s] = IF r.closure_ts THEN r ELSE pico_socket_close(r)]
           /\ bad' = IF ~r.closure_ts /\ r.freed THEN "close" ELSE bad
    /\ UNCHANGED <<lis, silent, missed>>

\* The listening socket is closed: pico_tcp_check_listen_close deletes it.
CloseListener ==
    /\ lis.state = "listen"
    /\ lis' = [lis EXCEPT !.state = "deleted"]
    /\ UNCHANGED <<sock, silent, missed, bad>>

\* pico_sockets_loop_tcp: pico_tcp_output sends the FIN of a socket with nothing left.
SocketsLoop(s) ==
    /\ sock[s].tree /\ sock[s].shut_local /\ CheckClosing(sock[s]) # sock[s]
    /\ Set(s, CheckClosing(sock[s]))
    /\ UNCHANGED silent

\* ... and check_socket_sanity ends a handshake that takes too long.
SanityFails(s) ==
    /\ sock[s].tree /\ sock[s].tcp = "SYN_RECV"
    /\ pico_socket_del(s, sock[s])
    /\ UNCHANGED silent

\* initconn_retry.  Nothing but the SYN is sent when the socket was deleted meanwhile.
initconn_retry(s) ==
    /\ sock[s].initconn
    /\ LET r == [sock[s] EXCEPT !.initconn = FALSE]
       IN  IF r.tcp = "ESTABLISHED" THEN Set(s, r)
           ELSE IF r.backoff > Retries THEN pico_socket_del(s, r)
           ELSE Set(s, [r EXCEPT !.backoff = @ + 1, !.initconn = TRUE])
    /\ UNCHANGED silent

\* tcp_retrans_timeout with data in the queue: it is sent again, or the connection is
\* given up, or neither.
tcp_retrans_timeout(s) ==
    /\ sock[s].rtx
    /\ LET r == [sock[s] EXCEPT !.rtx = FALSE]
       IN  \/ /\ r.tcp \in {"ESTABLISHED", "CLOSE_WAIT"} /\ r.backoff < MaxRetrans
              /\ Set(s, [r EXCEPT !.backoff = @ + 1, !.rtx = TRUE])
           \/ /\ r.tcp = "ESTABLISHED" /\ r.backoff >= MaxRetrans
              /\ pico_socket_del(s, [EvFin(r) EXCEPT !.unsent = FALSE])
           \/ /\ r.tcp # "ESTABLISHED" /\ (r.tcp = "CLOSE_WAIT" => r.backoff >= MaxRetrans)
              /\ Set(s, r)
    /\ UNCHANGED silent

tcp_deltcb(s) ==
    /\ sock[s].fin
    /\ pico_socket_del(s, [EvFin(sock[s]) EXCEPT !.fin = FALSE, !.late = @ \/ ~sock[s].tree])
    /\ UNCHANGED silent

\* The timers are cancelled and the memory is freed.
socket_garbage_collect(s) ==
    /\ sock[s].gc > 0
    /\ IF sock[s].freed
       THEN bad' = "free" /\ UNCHANGED <<sock, lis, missed>>
       ELSE Set(s, [sock[s] EXCEPT !.gc = @ - 1, !.freed = TRUE, !.initconn = FALSE, !.rtx = FALSE,
                                   !.fin = FALSE])
    /\ UNCHANGED silent

CollectListener ==
    /\ lis.state = "deleted"
    /\ lis' = [lis EXCEPT !.state = "freed"]
    /\ UNCHANGED <<sock, silent, missed, bad>>

FallSilent == ~silent /\ silent' = TRUE /\ UNCHANGED <<sock, lis, missed, bad>>

Stack(s) ==
    \/ SocketsLoop(s) \/ SanityFails(s) \/ initconn_retry(s) \/ tcp_retrans_timeout(s)
    \/ tcp_deltcb(s) \/ socket_garbage_collect(s)

\* What freed memory does is left open: the model ends at its first use.
Next ==
    /\ bad = "no"
    /\ \/ \E s \in Socks :
            \/ Deliver(s) \/ tcp_syn(s) \/ pico_socket_connect(s) \/ Write(s) \/ pico_tcp_read(s)
            \/ pico_Close(s) \/ Stack(s)
       \/ pico_Listen \/ CloseListener \/ CollectListener \/ FallSilent

\* The tap's thread goes through sockets and timers for ever.
Fairness ==
    \A s \in Socks :
        /\ WF_vars(bad = "no" /\ SocketsLoop(s)) /\ WF_vars(bad = "no" /\ SanityFails(s))
        /\ WF_vars(bad = "no" /\ initconn_retry(s)) /\ WF_vars(bad = "no" /\ tcp_retrans_timeout(s))
        /\ WF_vars(bad = "no" /\ tcp_deltcb(s)) /\ WF_vars(bad = "no" /\ socket_garbage_collect(s))

Spec == Init /\ [][Next]_vars /\ Fairness

-----------------------------------------------------------------------------
Pending(s) == sock[s].tree /\ sock[s].parent

\* The listening socket counts the connections nobody has accepted, however their
\* handshakes end, and they are never more than the backlog.  Only a linger timer that
\* fires on a socket already deleted counts it twice.
PendingExact ==
    (\A s \in Socks : ~(sock[s].late /\ sock[s].parent)) =>
        /\ lis.number_of_pending_conn = Cardinality({s \in Socks : Pending(s)})
        /\ lis.number_of_pending_conn <= lis.max_backlog

\* Every established connection has been accepted, except as many as were reported
\* while libzt was not listening: pico_socket_accept takes another one, but one.
ConnsAccepted ==
    Cardinality({s \in Socks : Pending(s) /\ sock[s].tcp = "ESTABLISHED"}) <= missed

\* A socket is freed twice only if tcp_deltcb was called between its deletion and its
\* collection, and the application closes a freed one only after its connect had timed
\* out: every other end of a connection is reported to libzt before the memory goes.
MemoryKept ==
    /\ bad = "free" => \E s \in Socks : sock[s].kind = "child" /\ sock[s].late
    /\ bad = "close" => \E s \in Socks : /\ sock[s].kind = "client" /\ sock[s].fins = 0
                                         /\ sock[s].backoff > Retries

\* One FIN is sent, whatever the order of close, FIN and read, unless the peer's FIN
\* came while data was unread: then every read closes the socket again.
FinOnce == \A s \in Socks : sock[s].fins > 1 => sock[s].remote_closed

\* When the peers are silent every socket that was closed, reset or never established
\* is freed, except one that was shut with data to send and has no timer any more: the
\* data was given up in CLOSE_WAIT, or its sender had stalled.  Neither is anything sent
\* nor the FIN (pico_tcp.c 2984), and check_socket_sanity looks at handshakes only.
Freed ==
    \A s \in Socks :
        (silent /\ sock[s].kind # "none"
         /\ (sock[s].tcp \notin {"ESTABLISHED", "CLOSE_WAIT"} \/ sock[s].shut_local))
        ~> (\/ sock[s].freed \/ bad # "no"
            \/ /\ sock[s].tcp \in {"ESTABLISHED", "CLOSE_WAIT"} /\ sock[s].shut_local
               /\ sock[s].unsent /\ ~sock[s].rtx)
=============================================================================
