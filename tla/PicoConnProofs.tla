--------------------------- MODULE PicoConnProofs ---------------------------
(***************************************************************************)
(* The safety invariants of PicoConn, for every set of sockets, every       *)
(* backlog, and every number of retries and retransmissions.                *)
(***************************************************************************)
EXTENDS PicoConn, FiniteSetTheorems, TLAPS

TcpStates == {"SYN_SENT", "SYN_RECV", "ESTABLISHED", "CLOSE_WAIT", "LAST_ACK",
              "FIN_WAIT1", "FIN_WAIT2", "CLOSING", "TIME_WAIT"}

SockType ==
    [kind : {"none", "child", "client"}, tcp : TcpStates \union {"UNDEF"}, tree : BOOLEAN,
     parent : BOOLEAN, priv : BOOLEAN, shut_local : BOOLEAN, data : BOOLEAN, unread : BOOLEAN,
     unsent : BOOLEAN, remote_closed : BOOLEAN, backoff : Nat, initconn : BOOLEAN,
     rtx : BOOLEAN, fin : BOOLEAN, gc : Nat, freed : BOOLEAN, closure_ts : BOOLEAN,
     open : BOOLEAN, fins : 0 .. 2, late : BOOLEAN]

\* The states a FIN has not been sent in.
Unfinished == {"SYN_SENT", "SYN_RECV", "ESTABLISHED", "CLOSE_WAIT"}

\* A socket is in the tree exactly while it has a state.
InTree(r) ==
    /\ r.tree <=> r.tcp # "UNDEF"
    /\ r.tree => r.kind # "none" /\ ~r.late /\ ~r.freed /\ r.gc = 0

\* Who the socket belongs to.
Owned(r) ==
    /\ r.parent => r.kind = "child"
    /\ r.open => r.priv
    /\ r.tcp = "SYN_SENT" => r.kind = "client" /\ ~r.remote_closed
    /\ r.tcp = "SYN_RECV" => r.kind = "child" /\ ~r.open
    /\ r.initconn => r.kind = "client" /\ r.tcp \in {"SYN_SENT", "UNDEF"} /\ r.fins = 0
    /\ r.kind = "none" => ~r.open /\ ~r.fin /\ r.gc = 0

\* One garbage collection, unless tcp_deltcb came after pico_socket_del.
CollectedOnce(r) ==
    ~(r.late /\ r.kind = "child") => r.gc <= 1 /\ (r.freed => r.gc = 0)

\* A FIN is sent on leaving ESTABLISHED or CLOSE_WAIT.
FinsCounted(r) ==
    /\ r.tcp \in Unfinished /\ ~r.remote_closed => r.fins = 0
    /\ r.fins > 1 => r.remote_closed

\* The application holds a deleted socket it was not told of only after a connect
\* that timed out.
ToldOfEnd(r) ==
    r.open /\ ~r.tree /\ ~r.closure_ts =>
        r.kind = "client" /\ r.fins = 0 /\ r.backoff > Retries

Good(r) ==
    r \in SockType /\ InTree(r) /\ Owned(r) /\ CollectedOnce(r) /\ FinsCounted(r) /\ ToldOfEnd(r)

LisType == [state : {"listen", "deleted", "freed"}, listening : BOOLEAN,
            number_of_pending_conn : Int, max_backlog : Backlogs]

\* The inductive invariant.
ConnInv ==
    /\ sock \in [Socks -> SockType] /\ \A s \in Socks : Good(sock[s])
    /\ lis \in LisType /\ missed \in Nat
    /\ PendingExact /\ ConnsAccepted /\ MemoryKept

-----------------------------------------------------------------------------
\* What no handler of a segment changes.
Kept(r, q) ==
    /\ q.kind = r.kind /\ q.gc = r.gc
    /\ (q.tree <=> r.tree) /\ (q.parent <=> r.parent) /\ (q.open <=> r.open)
    /\ (q.priv <=> r.priv) /\ (q.freed <=> r.freed) /\ (q.late <=> r.late)

\* A change of a socket in the tree; the handshake does not begin again.
Change(r, q) ==
    /\ Good(q) /\ Kept(r, q) /\ q.tree
    /\ q.tcp \in {"SYN_SENT", "SYN_RECV"} => q.tcp = r.tcp

\* A socket of the listening one does not become established.
NotNew(r, q) == q.parent /\ q.tcp = "ESTABLISHED" => r.tcp = "ESTABLISHED"

Quiet(r, q) == Change(r, q) /\ NotNew(r, q)

\* The counter of FINs.
LEMMA MinTwo == ASSUME NEW n \in 0 .. 2
                PROVE  Min({n + 1, 2}) \in 1 .. 2 /\ (n = 0 => Min({n + 1, 2}) = 1)
  <1>1. CASE n = 0
    <2>1. {n + 1, 2} = {1, 2}
      BY <1>1
    <2>2. Min({1, 2}) = 1
      BY DEF Min
    <2> QED BY <2>1, <2>2
  <1>2. CASE n # 0
    <2>1. n + 1 \in Nat /\ n + 1 >= 2
      BY <1>2
    <2>2. Min({n + 1, 2}) = 2
      BY <2>1 DEF Min
    <2> QED BY <2>2, <1>2
  <1> QED BY <1>1, <1>2

\* Changes follow one another.
LEMMA QuietRefl == ASSUME NEW r, Good(r), r.tree PROVE Quiet(r, r)
  BY DEF Quiet, Change, Kept, NotNew

LEMMA ChangeTrans == ASSUME NEW r, NEW q, NEW p, Change(r, q), Change(q, p) PROVE Change(r, p)
  BY DEF Change, Kept

LEMMA QuietTrans == ASSUME NEW r, NEW q, NEW p, Quiet(r, q), Quiet(q, p) PROVE Quiet(r, p)
  <1>1. Change(r, p)
    BY ChangeTrans DEF Quiet
  <1>2. NotNew(r, p)
    BY DEF Quiet, Change, NotNew, Kept
  <1> QED BY <1>1, <1>2 DEF Quiet

\* What a change has to respect.
LEMMA ChangeIs ==
    ASSUME NEW r, Good(r), r.tree, NEW q \in SockType, Kept(r, q),
           q.tcp = r.tcp \/ q.tcp \in TcpStates \ {"SYN_SENT", "SYN_RECV"},
           q.initconn => r.initconn /\ q.tcp = r.tcp /\ q.fins = r.fins,
           q.remote_closed => q.tcp # "SYN_SENT", FinsCounted(q)
    PROVE  Change(r, q)
  <1>1. InTree(q)
    BY DEF Good, InTree, Kept, TcpStates
  <1>2. Owned(q)
    BY DEF Good, InTree, Owned, Kept, TcpStates
  <1>3. CollectedOnce(q)
    BY DEF Good, CollectedOnce, Kept
  <1>4. ToldOfEnd(q) /\ q.tree
    BY DEF ToldOfEnd, Kept
  <1>5. q.tcp \in {"SYN_SENT", "SYN_RECV"} => q.tcp = r.tcp
    OBVIOUS
  <1> QED BY <1>1, <1>2, <1>3, <1>4, <1>5 DEF Change, Good

\* A change that leaves the state and the FINs alone.
LEMMA FieldsChange ==
    ASSUME NEW r, Good(r), r.tree, NEW q \in SockType, Kept(r, q), q.tcp = r.tcp,
           q.fins = r.fins, q.initconn => r.initconn, r.remote_closed => q.remote_closed,
           q.remote_closed => r.remote_closed \/ r.tcp # "SYN_SENT"
    PROVE  Quiet(r, q)
  <1>1. FinsCounted(q)
    BY DEF Good, FinsCounted
  <1>2. Change(r, q)
    <2>1. q.remote_closed => q.tcp # "SYN_SENT"
      BY DEF Good, Owned
    <2> QED BY <2>1, <1>1, ChangeIs
  <1>3. NotNew(r, q)
    BY DEF NotNew
  <1> QED BY <1>2, <1>3 DEF Quiet

\* The linger timer is started.
LEMMA LingerQuiet == ASSUME NEW r, Good(r), r.tree PROVE Quiet(r, tcp_linger(r))
  <1> DEFINE q == tcp_linger(r)
  <1>1. r \in SockType /\ q = [r EXCEPT !.fin = TRUE]
    BY DEF Good, tcp_linger
  <1> HIDE DEF q
  <1>2. q \in SockType
    BY <1>1 DEF SockType
  <1>3. Kept(r, q)
    BY <1>1 DEF SockType, Kept
  <1>4. /\ q.tcp = r.tcp /\ q.fins = r.fins /\ (q.initconn => r.initconn)
        /\ (r.remote_closed => q.remote_closed)
        /\ (q.remote_closed => r.remote_closed)
    BY <1>1 DEF SockType
  <1>5. Quiet(r, q)
    BY <1>2, <1>3, <1>4, FieldsChange
  <1> QED BY <1>5 DEF q

\* The socket is shut.
LEMMA ShutQuiet == ASSUME NEW r, Good(r), r.tree PROVE Quiet(r, [r EXCEPT !.shut_local = TRUE])
  <1> DEFINE q == [r EXCEPT !.shut_local = TRUE]
  <1>1. r \in SockType /\ q = [r EXCEPT !.shut_local = TRUE]
    BY DEF Good
  <1> HIDE DEF q
  <1>2. q \in SockType
    BY <1>1 DEF SockType
  <1>3. Kept(r, q)
    BY <1>1 DEF SockType, Kept
  <1>4. /\ q.tcp = r.tcp /\ q.fins = r.fins /\ (q.initconn => r.initconn)
        /\ (r.remote_closed => q.remote_closed)
        /\ (q.remote_closed => r.remote_closed)
    BY <1>1 DEF SockType
  <1>5. Quiet(r, q)
    BY <1>2, <1>3, <1>4, FieldsChange
  <1> QED BY <1>5 DEF q

\* Data is received or read.
LEMMA UnreadQuiet == ASSUME NEW r, Good(r), r.tree,
                            NEW left \in BOOLEAN
                     PROVE Quiet(r, [r EXCEPT !.unread = left])
  <1> DEFINE q == [r EXCEPT !.unread = left]
  <1>1. r \in SockType /\ q = [r EXCEPT !.unread = left]
    BY DEF Good
  <1> HIDE DEF q
  <1>2. q \in SockType
    BY <1>1 DEF SockType
  <1>3. Kept(r, q)
    BY <1>1 DEF SockType, Kept
  <1>4. /\ q.tcp = r.tcp /\ q.fins = r.fins /\ (q.initconn => r.initconn)
        /\ (r.remote_closed => q.remote_closed)
        /\ (q.remote_closed => r.remote_closed)
    BY <1>1 DEF SockType
  <1>5. Quiet(r, q)
    BY <1>2, <1>3, <1>4, FieldsChange
  <1> QED BY <1>5 DEF q

\* Everything is acknowledged.
LEMMA SentQuiet == ASSUME NEW r, Good(r), r.tree
                   PROVE  Quiet(r, [r EXCEPT !.unsent = FALSE, !.rtx = FALSE, !.backoff = 0])
  <1> DEFINE q == [r EXCEPT !.unsent = FALSE, !.rtx = FALSE, !.backoff = 0]
  <1>1. r \in SockType /\ q = [r EXCEPT !.unsent = FALSE, !.rtx = FALSE, !.backoff = 0]
    BY DEF Good
  <1> HIDE DEF q
  <1>2. q \in SockType
    BY <1>1 DEF SockType
  <1>3. Kept(r, q)
    BY <1>1 DEF SockType, Kept
  <1>4. /\ q.tcp = r.tcp /\ q.fins = r.fins /\ (q.initconn => r.initconn)
        /\ (r.remote_closed => q.remote_closed)
        /\ (q.remote_closed => r.remote_closed)
    BY <1>1 DEF SockType
  <1>5. Quiet(r, q)
    BY <1>2, <1>3, <1>4, FieldsChange
  <1> QED BY <1>5 DEF q

\* Something is still to be sent.
LEMMA ResentQuiet == ASSUME NEW r, Good(r), r.tree, NEW b \in Nat
                     PROVE Quiet(r, [r EXCEPT !.rtx = TRUE, !.backoff = b])
  <1> DEFINE q == [r EXCEPT !.rtx = TRUE, !.backoff = b]
  <1>1. r \in SockType /\ q = [r EXCEPT !.rtx = TRUE, !.backoff = b]
    BY DEF Good
  <1> HIDE DEF q
  <1>2. q \in SockType
    BY <1>1 DEF SockType
  <1>3. Kept(r, q)
    BY <1>1 DEF SockType, Kept
  <1>4. /\ q.tcp = r.tcp /\ q.fins = r.fins /\ (q.initconn => r.initconn)
        /\ (r.remote_closed => q.remote_closed)
        /\ (q.remote_closed => r.remote_closed)
    BY <1>1 DEF SockType
  <1>5. Quiet(r, q)
    BY <1>2, <1>3, <1>4, FieldsChange
  <1> QED BY <1>5 DEF q

\* The application writes.
LEMMA WrittenQuiet == ASSUME NEW r, Good(r), r.tree, NEW b \in BOOLEAN
                      PROVE  Quiet(r, [r EXCEPT !.unsent = TRUE, !.rtx = b])
  <1> DEFINE q == [r EXCEPT !.unsent = TRUE, !.rtx = b]
  <1>1. r \in SockType /\ q = [r EXCEPT !.unsent = TRUE, !.rtx = b]
    BY DEF Good
  <1> HIDE DEF q
  <1>2. q \in SockType
    BY <1>1 DEF SockType
  <1>3. Kept(r, q)
    BY <1>1 DEF SockType, Kept
  <1>4. /\ q.tcp = r.tcp /\ q.fins = r.fins /\ (q.initconn => r.initconn)
        /\ (r.remote_closed => q.remote_closed)
        /\ (q.remote_closed => r.remote_closed)
    BY <1>1 DEF SockType
  <1>5. Quiet(r, q)
    BY <1>2, <1>3, <1>4, FieldsChange
  <1> QED BY <1>5 DEF q

\* The FIN of the peer waits for the application to read.
LEMMA RemoteQuiet == ASSUME NEW r, Good(r), r.tree, r.tcp # "SYN_SENT"
                     PROVE Quiet(r, [r EXCEPT !.remote_closed = TRUE])
  <1> DEFINE q == [r EXCEPT !.remote_closed = TRUE]
  <1>1. r \in SockType /\ q = [r EXCEPT !.remote_closed = TRUE]
    BY DEF Good
  <1> HIDE DEF q
  <1>2. q \in SockType
    BY <1>1 DEF SockType
  <1>3. Kept(r, q)
    BY <1>1 DEF SockType, Kept
  <1>4. /\ q.tcp = r.tcp /\ q.fins = r.fins /\ (q.initconn => r.initconn)
        /\ (r.remote_closed => q.remote_closed)
        /\ (q.remote_closed => r.remote_closed \/ r.tcp # "SYN_SENT")
    BY <1>1 DEF SockType
  <1>5. Quiet(r, q)
    BY <1>2, <1>3, <1>4, FieldsChange
  <1> QED BY <1>5 DEF q

\* libzt is told of the end.
LEMMA ToldQuiet == ASSUME NEW r, Good(r), r.tree PROVE Quiet(r, [r EXCEPT !.closure_ts = TRUE])
  <1> DEFINE q == [r EXCEPT !.closure_ts = TRUE]
  <1>1. r \in SockType /\ q = [r EXCEPT !.closure_ts = TRUE]
    BY DEF Good
  <1> HIDE DEF q
  <1>2. q \in SockType
    BY <1>1 DEF SockType
  <1>3. Kept(r, q)
    BY <1>1 DEF SockType, Kept
  <1>4. /\ q.tcp = r.tcp /\ q.fins = r.fins /\ (q.initconn => r.initconn)
        /\ (r.remote_closed => q.remote_closed)
        /\ (q.remote_closed => r.remote_closed)
    BY <1>1 DEF SockType
  <1>5. Quiet(r, q)
    BY <1>2, <1>3, <1>4, FieldsChange
  <1> QED BY <1>5 DEF q

\* libzt is told of the end, if the socket has a Connection.
LEMMA FinToldQuiet == ASSUME NEW r, Good(r), r.tree PROVE Quiet(r, EvFin(r))
  <1> DEFINE q == EvFin(r)
  <1>1. r \in SockType /\ q = [r EXCEPT !.closure_ts = @ \/ r.priv]
    BY DEF Good, EvFin
  <1> HIDE DEF q
  <1>2. q \in SockType
    BY <1>1 DEF SockType
  <1>3. Kept(r, q)
    BY <1>1 DEF SockType, Kept
  <1>4. /\ q.tcp = r.tcp /\ q.fins = r.fins /\ (q.initconn => r.initconn)
        /\ (r.remote_closed => q.remote_closed)
        /\ (q.remote_closed => r.remote_closed)
    BY <1>1 DEF SockType
  <1>5. Quiet(r, q)
    BY <1>2, <1>3, <1>4, FieldsChange
  <1> QED BY <1>5 DEF q

-----------------------------------------------------------------------------
\* A change of state that is no handshake and sends no FIN.
LEMMA MoveQuiet ==
    ASSUME NEW r, Good(r), r.tree, r.tcp # "SYN_SENT",
           NEW t \in {"CLOSE_WAIT", "FIN_WAIT2", "CLOSING", "TIME_WAIT"},
           t = "CLOSE_WAIT" => r.tcp \in Unfinished \/ r.remote_closed
    PROVE  Quiet(r, [r EXCEPT !.tcp = t])
  <1> DEFINE q == [r EXCEPT !.tcp = t]
  <1>1. r \in SockType /\ q = [r EXCEPT !.tcp = t] /\ t \in TcpStates
    BY DEF Good, TcpStates
  <1> HIDE DEF q
  <1>2. q \in SockType /\ q.tcp = t
    BY <1>1 DEF SockType
  <1>3. Kept(r, q)
    BY <1>1 DEF SockType, Kept
  <1>4. /\ q.fins = r.fins /\ (q.initconn => r.initconn)
        /\ (q.remote_closed => r.remote_closed) /\ (r.remote_closed => q.remote_closed)
    BY <1>1 DEF SockType
  <1>5. ~r.initconn
    BY DEF Good, InTree, Owned
  <1>6. FinsCounted(q)
    BY <1>2, <1>4 DEF Good, FinsCounted, Unfinished
  <1>7. Change(r, q)
    <2>1. q.tcp \in TcpStates \ {"SYN_SENT", "SYN_RECV"} /\ q.tcp # "SYN_SENT"
      BY <1>1, <1>2
    <2> QED BY <2>1, <1>2, <1>3, <1>4, <1>5, <1>6, ChangeIs
  <1>8. NotNew(r, q)
    BY <1>2 DEF NotNew
  <1>9. Quiet(r, q)
    BY <1>7, <1>8 DEF Quiet
  <1> QED BY <1>9 DEF q

\* The FIN is sent: from ESTABLISHED or CLOSE_WAIT, where none was sent before unless
\* the peer's FIN had to wait.
LEMMA SendFinQuiet ==
    ASSUME NEW r, Good(r), r.tree, r.tcp \in {"ESTABLISHED", "CLOSE_WAIT"},
           NEW t \in {"FIN_WAIT1", "LAST_ACK"}
    PROVE  Quiet(r, [tcp_send_fin(r) EXCEPT !.tcp = t])
  <1> DEFINE p == tcp_send_fin(r)
             q == [tcp_send_fin(r) EXCEPT !.tcp = t]
             n == Min({r.fins + 1, 2})
  <1>1. r \in SockType /\ p = [[r EXCEPT !.fins = n] EXCEPT !.fin = TRUE] /\ t \in TcpStates
        /\ q = [p EXCEPT !.tcp = t]
    BY DEF Good, TcpStates, tcp_send_fin, tcp_linger
  <1>2. r.fins \in 0 .. 2
    BY <1>1 DEF SockType
  <1>3. n \in 1 .. 2 /\ (r.fins = 0 => n = 1)
    BY <1>2, MinTwo
  <1> HIDE DEF n, p, q
  <1>4. p \in SockType
    <2>1. n \in 0 .. 2
      BY <1>3
    <2>2. [r EXCEPT !.fins = n] \in SockType
      BY <2>1, <1>1 DEF SockType
    <2> QED BY <2>2, <1>1 DEF SockType
  <1>5. Kept(r, p)
    BY <1>1, <1>3 DEF SockType, Kept
  <1>6. /\ p.fins = n /\ (p.initconn => r.initconn)
        /\ (p.remote_closed => r.remote_closed) /\ (r.remote_closed => p.remote_closed)
    BY <1>1, <1>3 DEF SockType
  <1>7. q \in SockType /\ q.tcp = t
    <2>1. t \in TcpStates \union {"UNDEF"} /\ q = [p EXCEPT !.tcp = t]
      BY <1>1
    <2> QED BY <2>1, <1>4 DEF SockType
  <1>8. Kept(p, q)
    BY <1>1, <1>4 DEF SockType, Kept
  <1>9. /\ q.fins = p.fins /\ (q.initconn => p.initconn)
        /\ (q.remote_closed => p.remote_closed) /\ (p.remote_closed => q.remote_closed)
    BY <1>1, <1>4 DEF SockType
  <1>10. Kept(r, q)
    BY <1>5, <1>8 DEF Kept
  <1>11. ~r.initconn
    BY DEF Good, Owned
  <1>12. FinsCounted(q)
    <2>1. ~r.remote_closed => q.fins = 1
      BY <1>3, <1>6, <1>9 DEF Good, FinsCounted, Unfinished
    <2>2. q.tcp \notin Unfinished
      BY <1>7 DEF Unfinished
    <2> QED BY <2>1, <2>2, <1>6, <1>9 DEF FinsCounted
  <1>13. Change(r, q)
    <2>1. q.tcp \in TcpStates \ {"SYN_SENT", "SYN_RECV"} /\ q.tcp # "SYN_SENT"
      BY <1>1, <1>7
    <2>2. ~q.initconn
      BY <1>6, <1>9, <1>11
    <2> QED BY <2>1, <2>2, <1>7, <1>10, <1>12, ChangeIs
  <1>14. NotNew(r, q)
    BY <1>7 DEF NotNew
  <1>15. Quiet(r, q)
    BY <1>13, <1>14 DEF Quiet
  <1> QED BY <1>15 DEF q

\* The closing check sends the FIN or does nothing.
LEMMA CheckClosingQuiet ==
    ASSUME NEW r, Good(r), r.tree
    PROVE  /\ Quiet(r, CheckClosing(r))
           /\ r.tcp \notin {"ESTABLISHED", "CLOSE_WAIT"} => CheckClosing(r) = r
  <1>1. CASE r.unsent
    <2>1. CheckClosing(r) = r
      BY <1>1 DEF CheckClosing
    <2> QED BY <2>1, QuietRefl
  <1>2. CASE ~r.unsent /\ r.tcp = "ESTABLISHED"
    <2>1. CheckClosing(r) = [tcp_send_fin(r) EXCEPT !.tcp = "FIN_WAIT1"]
      BY <1>2 DEF CheckClosing
    <2>2. Quiet(r, [tcp_send_fin(r) EXCEPT !.tcp = "FIN_WAIT1"])
      BY <1>2, SendFinQuiet
    <2> QED BY <2>1, <2>2, <1>2
  <1>3. CASE ~r.unsent /\ r.tcp = "CLOSE_WAIT"
    <2>1. CheckClosing(r) = [tcp_send_fin(r) EXCEPT !.tcp = "LAST_ACK"]
      BY <1>3 DEF CheckClosing
    <2>2. Quiet(r, [tcp_send_fin(r) EXCEPT !.tcp = "LAST_ACK"])
      BY <1>3, SendFinQuiet
    <2> QED BY <2>1, <2>2, <1>3
  <1>4. CASE ~r.unsent /\ r.tcp \notin {"ESTABLISHED", "CLOSE_WAIT"}
    <2>1. CheckClosing(r) = r
      BY <1>4 DEF CheckClosing
    <2> QED BY <2>1, QuietRefl
  <1> QED BY <1>1, <1>2, <1>3, <1>4

\* pico_socket_close of a socket in the tree.
LEMMA CloseQuiet == ASSUME NEW r, Good(r), r.tree PROVE Quiet(r, pico_socket_close(r))
  <1> DEFINE q == [r EXCEPT !.shut_local = TRUE]
  <1>1. Quiet(r, q)
    BY ShutQuiet
  <1>2. pico_socket_close(r) = CheckClosing(q)
    BY DEF pico_socket_close
  <1> HIDE DEF q
  <1>3. Good(q) /\ q.tree
    BY <1>1 DEF Quiet, Change
  <1>4. Quiet(q, CheckClosing(q))
    BY <1>3, CheckClosingQuiet
  <1> QED BY <1>1, <1>2, <1>4, QuietTrans

\* libzt's callback on the peer's FIN.
LEMMA EvCloseQuiet == ASSUME NEW r, Good(r), r.tree PROVE Quiet(r, EvClose(r))
  <1>1. CASE r.priv
    <2> DEFINE q == pico_socket_close(r)
    <2>1. EvClose(r) = [q EXCEPT !.closure_ts = TRUE]
      BY <1>1 DEF EvClose
    <2>2. Quiet(r, q)
      BY CloseQuiet
    <2> HIDE DEF q
    <2>3. Good(q) /\ q.tree
      BY <2>2 DEF Quiet, Change
    <2>4. Quiet(q, [q EXCEPT !.closure_ts = TRUE])
      BY <2>3, ToldQuiet
    <2> QED BY <2>1, <2>2, <2>4, QuietTrans
  <1>2. CASE ~r.priv
    <2>1. EvClose(r) = r
      BY <1>2 DEF EvClose
    <2> QED BY <2>1, QuietRefl
  <1> QED BY <1>1, <1>2

\* An end that is reported to libzt is reported to the application's socket.
LEMMA FinTold == ASSUME NEW r, Good(r), r.open PROVE EvFin(r).closure_ts
  <1>1. r \in SockType /\ r.priv /\ EvFin(r) = [r EXCEPT !.closure_ts = @ \/ r.priv]
    BY DEF Good, Owned, EvFin
  <1> QED BY <1>1 DEF SockType

-----------------------------------------------------------------------------
\* The outcomes of an acknowledgement and of data.
LEMMA AckQuiet ==
    ASSUME NEW r, Good(r), r.tree, NEW a \in AckResults(r)
    PROVE  /\ Quiet(r, a)
           /\ r.tcp \notin {"ESTABLISHED", "CLOSE_WAIT"} => a.tcp = r.tcp
  <1> DEFINE s == [r EXCEPT !.unsent = FALSE, !.rtx = FALSE, !.backoff = 0]
             t(b) == [r EXCEPT !.rtx = TRUE, !.backoff = b]
             acked == {s} \union {t(b) : b \in {x \in {0, r.backoff} : r.unsent}}
  <1>0. r \in SockType /\ r.backoff \in Nat
    BY DEF Good, SockType
  <1>1. ASSUME NEW q \in acked PROVE Quiet(r, q) /\ q.tcp = r.tcp
    <2>1. Quiet(r, s) /\ s.tcp = r.tcp
      BY <1>0, SentQuiet DEF SockType
    <2>2. ASSUME NEW b \in Nat PROVE Quiet(r, t(b)) /\ t(b).tcp = r.tcp
      BY <1>0, ResentQuiet DEF SockType
    <2> HIDE DEF s, t
    <2>3. q = s \/ \E b \in Nat : q = t(b)
      BY <1>0, <1>1
    <2> QED BY <2>1, <2>2, <2>3
  <1>2. AckResults(r) = acked \union {CheckClosing(x) : x \in {y \in acked : y.shut_local}}
    BY DEF AckResults
  <1> HIDE DEF acked
  <1>3. CASE a \in acked
    BY <1>1, <1>3
  <1>4. CASE a \notin acked
    <2>1. PICK q \in acked : a = CheckClosing(q)
      BY <1>2, <1>4
    <2>2. Quiet(r, q) /\ q.tcp = r.tcp
      BY <1>1
    <2>3. Good(q) /\ q.tree
      BY <2>2 DEF Quiet, Change
    <2>4. /\ Quiet(q, CheckClosing(q))
          /\ q.tcp \notin {"ESTABLISHED", "CLOSE_WAIT"} => CheckClosing(q) = q
      BY <2>3, CheckClosingQuiet
    <2>5. Quiet(r, a)
      BY <2>1, <2>2, <2>4, QuietTrans
    <2> QED BY <2>1, <2>2, <2>4, <2>5
  <1> QED BY <1>3, <1>4

\* The data of a segment changes no state.
LEMMA DataQuiet ==
    ASSUME NEW r, Good(r), r.tree, NEW d \in DataResults(r)
    PROVE  Quiet(r, d) /\ d.tcp = r.tcp
  <1>1. CASE d = r
    BY <1>1, QuietRefl
  <1>2. CASE d = [r EXCEPT !.unread = TRUE]
    <2>1. r \in SockType
      BY DEF Good
    <2>2. Quiet(r, [r EXCEPT !.unread = TRUE])
      BY UnreadQuiet
    <2> QED BY <2>1, <2>2, <1>2 DEF SockType
  <1>3. d = r \/ d = [r EXCEPT !.unread = TRUE]
    BY DEF DataResults
  <1> QED BY <1>1, <1>2, <1>3

-----------------------------------------------------------------------------
\* What is promised of an outcome o of a segment for socket r: it is reported when a
\* connection of the listening socket is new, and when an open socket is deleted.
Comes(r, o) ==
    /\ o = [r |-> o.r, then |-> o.then] /\ o.then \in {"keep", "del", "conn"}
    /\ Change(r, o.r)
    /\ o.then = "keep" => NotNew(r, o.r)
    /\ o.then = "del" /\ o.r.open => o.r.closure_ts

Keeps(q) == [r |-> q, then |-> "keep"]

\* A quiet change is kept.
LEMMA KeepComes == ASSUME NEW r, NEW q, Quiet(r, q) PROVE Comes(r, Keeps(q))
  BY DEF Quiet, Comes, Keeps

\* The handlers of tcp_fsm, one by one: every outcome is as promised.
LEMMA NothingComes == ASSUME NEW r, Good(r), r.tree, NEW o \in Nothing(r)
                      PROVE  Comes(r, o) /\ o = Keeps(r)
  <1>1. o = Keeps(r)
    BY DEF Nothing, Outcome, Keeps
  <1>2. Quiet(r, r)
    BY QuietRefl
  <1> QED BY <1>1, <1>2, KeepComes

\* A socket that is told of its end and deleted.
LEMMA EndComes == ASSUME NEW r, Good(r), r.tree, NEW o \in Outcome({EvFin(r)}, "del")
                  PROVE  Comes(r, o)
  <1>1. o = [r |-> EvFin(r), then |-> "del"]
    BY DEF Outcome
  <1>2. o.then = "del" /\ o.r = EvFin(r) /\ o = [r |-> o.r, then |-> o.then]
    BY <1>1
  <1>3. Change(r, o.r)
    BY <1>2, FinToldQuiet DEF Quiet
  <1>4. o.r.open => o.r.closure_ts
    <2>1. ASSUME o.r.open PROVE o.r.closure_ts
      <3>1. r.open
        BY <2>1, <1>3 DEF Change, Kept
      <3> QED BY <3>1, <1>2, FinTold
    <2> QED BY <2>1
  <1> QED BY <1>2, <1>3, <1>4 DEF Comes

LEMMA AckComes == ASSUME NEW r, Good(r), r.tree, NEW o \in tcp_ack(r) PROVE Comes(r, o)
  <1>1. PICK a \in AckResults(r) : o = Keeps(a)
    BY DEF tcp_ack, Outcome, Keeps
  <1>2. Quiet(r, a)
    BY AckQuiet
  <1> QED BY <1>1, <1>2, KeepComes

LEMMA DataComes == ASSUME NEW r, Good(r), r.tree, NEW o \in tcp_data_in(r)
                   PROVE  Comes(r, o) /\ o.r.tcp = r.tcp
  <1>1. PICK d \in DataResults(r) : o = Keeps(d)
    BY DEF tcp_data_in, Outcome, Keeps
  <1>2. Quiet(r, d) /\ d.tcp = r.tcp
    BY DataQuiet
  <1>3. Comes(r, o)
    BY <1>1, <1>2, KeepComes
  <1> QED BY <1>1, <1>2, <1>3 DEF Keeps

\* The handshake of a socket that connects.
LEMMA SynAckComes == ASSUME NEW r, Good(r), r.tree, r.tcp = "SYN_SENT", NEW f,
                            NEW o \in tcp_synack(r, f)
                     PROVE  Comes(r, o)
  <1> DEFINE q == [r EXCEPT !.initconn = FALSE, !.backoff = 0, !.tcp = "ESTABLISHED"]
  <1>1. CASE o = Keeps(q)
    <2>1. r \in SockType /\ q = [r EXCEPT !.initconn = FALSE, !.backoff = 0, !.tcp = "ESTABLISHED"]
          /\ "ESTABLISHED" \in TcpStates
      BY DEF Good, TcpStates
    <2> HIDE DEF q
    <2>2. q \in SockType
      BY <2>1 DEF SockType
    <2>3. Kept(r, q)
      BY <2>1 DEF SockType, Kept
    <2>4. /\ q.tcp = "ESTABLISHED" /\ q.fins = r.fins /\ ~q.initconn
          /\ (q.remote_closed => r.remote_closed) /\ (r.remote_closed => q.remote_closed)
      BY <2>1 DEF SockType
    <2>5. FinsCounted(q)
      BY <2>4 DEF Good, FinsCounted, Unfinished
    <2>6. Change(r, q)
      BY <2>1, <2>2, <2>3, <2>4, <2>5, ChangeIs
    <2>7. NotNew(r, q)
      <3>1. ~q.parent
        BY <2>3 DEF Good, Owned, Kept
      <3> QED BY <3>1 DEF NotNew
    <2>8. Quiet(r, q)
      BY <2>6, <2>7 DEF Quiet
    <2> QED BY <1>1, <2>8, KeepComes
  <1>2. CASE o \in Nothing(r)
    BY <1>2, NothingComes
  <1>3. o = Keeps(q) \/ o \in Nothing(r)
    BY DEF tcp_synack, Outcome, Keeps
  <1> QED BY <1>1, <1>2, <1>3

\* The handshake of a socket of the listening one, which is told.
LEMMA FirstAckComes == ASSUME NEW r, Good(r), r.tree, r.tcp = "SYN_RECV", NEW f,
                              NEW o \in tcp_first_ack(r, f)
                       PROVE  Comes(r, o)
  <1>1. CASE o \in Nothing(r)
    BY <1>1, NothingComes
  <1>2. CASE o \notin Nothing(r)
    <2>1. PICK a \in AckResults(r) : o = [r |-> [a EXCEPT !.tcp = "ESTABLISHED"], then |-> "conn"]
      BY <1>2 DEF tcp_first_ack, Outcome
    <2>2. Quiet(r, a) /\ a.tcp = "SYN_RECV"
      BY AckQuiet
    <2> DEFINE q == [a EXCEPT !.tcp = "ESTABLISHED"]
    <2>3. Good(a) /\ a.tree /\ a \in SockType /\ q = [a EXCEPT !.tcp = "ESTABLISHED"]
          /\ "ESTABLISHED" \in TcpStates
      BY <2>2 DEF Quiet, Change, Good, TcpStates
    <2>4. o.r = q /\ o.then = "conn" /\ o = [r |-> o.r, then |-> o.then]
      BY <2>1
    <2> HIDE DEF q
    <2>5. q \in SockType
      BY <2>3 DEF SockType
    <2>6. Kept(a, q)
      BY <2>3 DEF SockType, Kept
    <2>7. /\ q.tcp = "ESTABLISHED" /\ q.fins = a.fins /\ (q.initconn => a.initconn)
          /\ (q.remote_closed => a.remote_closed) /\ (a.remote_closed => q.remote_closed)
      BY <2>3 DEF SockType
    <2>8. FinsCounted(q)
      BY <2>2, <2>3, <2>7 DEF Good, FinsCounted, Unfinished
    <2>9. ~a.initconn
      BY <2>2, <2>3 DEF Good, Owned
    <2>10. Change(a, q)
      BY <2>3, <2>5, <2>6, <2>7, <2>8, <2>9, ChangeIs
    <2>11. Change(r, q)
      BY <2>2, <2>10, ChangeTrans DEF Quiet
    <2> QED BY <2>4, <2>11 DEF Comes
  <1> QED BY <1>1, <1>2

\* The peer's FIN, now or when the data has been read.
LEMMA AttemptQuiet == ASSUME NEW r, Good(r), r.tree, r.tcp # "SYN_SENT", NEW f
                      PROVE  Quiet(r, attempt_closewait(r, f))
  <1>1. CASE ~f.eq
    <2>1. attempt_closewait(r, f) = r
      BY <1>1 DEF attempt_closewait
    <2> QED BY <2>1, QuietRefl
  <1>2. CASE f.eq /\ r.unread
    <2>1. attempt_closewait(r, f) = [r EXCEPT !.remote_closed = TRUE]
      BY <1>2 DEF attempt_closewait
    <2>2. Quiet(r, [r EXCEPT !.remote_closed = TRUE])
      BY RemoteQuiet
    <2> QED BY <2>1, <2>2
  <1>3. CASE f.eq /\ ~r.unread /\ r.tcp = "ESTABLISHED"
    <2> DEFINE q == [r EXCEPT !.tcp = "CLOSE_WAIT"]
    <2>1. attempt_closewait(r, f) = EvClose(q)
      BY <1>3 DEF attempt_closewait
    <2>2. Quiet(r, q)
      BY <1>3, MoveQuiet DEF Unfinished
    <2> HIDE DEF q
    <2>3. Quiet(q, EvClose(q))
      BY <2>2, EvCloseQuiet DEF Quiet, Change
    <2> QED BY <2>1, <2>2, <2>3, QuietTrans
  <1>4. CASE f.eq /\ ~r.unread /\ r.tcp # "ESTABLISHED"
    <2>1. attempt_closewait(r, f) = EvClose(r)
      BY <1>4 DEF attempt_closewait
    <2> QED BY <2>1, EvCloseQuiet
  <1> QED BY <1>1, <1>2, <1>3, <1>4

LEMMA CloseWaitComes == ASSUME NEW r, Good(r), r.tree, r.tcp # "SYN_SENT", NEW f,
                               NEW o \in tcp_closewait(r, f)
                        PROVE  Comes(r, o)
  <1> DEFINE data == IF f.len THEN DataResults(r) ELSE {r}
             acked == IF f.flags = "FIN" THEN data ELSE UNION {AckResults(d) : d \in data}
  <1>1. ASSUME NEW d \in data PROVE Quiet(r, d)
    <2>1. d = r \/ d \in DataResults(r)
      OBVIOUS
    <2> QED BY <2>1, DataQuiet, QuietRefl
  <1>2. PICK a \in acked : o = Keeps(attempt_closewait(a, f))
    BY DEF tcp_closewait, Outcome, Keeps
  <1> HIDE DEF data
  <1>3. Quiet(r, a)
    <2>1. CASE a \in data
      BY <2>1, <1>1
    <2>2. CASE a \notin data
      <3>1. PICK d \in data : a \in AckResults(d)
        BY <2>2
      <3>2. Quiet(r, d)
        BY <1>1
      <3>3. Good(d) /\ d.tree
        BY <3>2 DEF Quiet, Change
      <3>4. Quiet(d, a)
        BY <3>1, <3>3, AckQuiet
      <3> QED BY <3>2, <3>4, QuietTrans
    <2> QED BY <2>1, <2>2
  <1>4. Good(a) /\ a.tree /\ a.tcp # "SYN_SENT"
    BY <1>3 DEF Quiet, Change
  <1>5. Quiet(a, attempt_closewait(a, f))
    BY <1>4, AttemptQuiet
  <1>6. Quiet(r, attempt_closewait(a, f))
    BY <1>3, <1>5, QuietTrans
  <1> QED BY <1>2, <1>6, KeepComes

\* The peer's FIN ends the handshake of a socket of the listening one.
LEMMA CloseConnComes == ASSUME NEW r, Good(r), r.tree, r.tcp = "SYN_RECV", NEW f,
                               NEW o \in tcp_closeconn(r, f)
                        PROVE  Comes(r, o)
  <1> DEFINE p == [r EXCEPT !.tcp = "CLOSE_WAIT"]
             q == [r EXCEPT !.tcp = "CLOSE_WAIT", !.shut_local = TRUE]
  <1>1. CASE o \in Nothing(r)
    BY <1>1, NothingComes
  <1>2. CASE o = Keeps(pico_socket_close(q))
    <2>1. Quiet(r, p)
      BY MoveQuiet DEF Unfinished
    <2>2. q = [p EXCEPT !.shut_local = TRUE]
      BY DEF Good, SockType
    <2> HIDE DEF p, q
    <2>3. Quiet(p, q)
      <3>1. Good(p) /\ p.tree
        BY <2>1 DEF Quiet, Change
      <3>2. Quiet(p, [p EXCEPT !.shut_local = TRUE])
        BY <3>1, ShutQuiet
      <3> QED BY <3>2, <2>2
    <2>4. Quiet(r, q)
      BY <2>1, <2>3, QuietTrans
    <2>5. Good(q) /\ q.tree
      BY <2>4 DEF Quiet, Change
    <2>6. Quiet(q, pico_socket_close(q))
      BY <2>5, CloseQuiet
    <2>7. Quiet(r, pico_socket_close(q))
      BY <2>4, <2>6, QuietTrans
    <2> QED BY <2>7, <1>2, KeepComes
  <1>3. o \in Nothing(r) \/ o = Keeps(pico_socket_close(q))
    BY DEF tcp_closeconn, Outcome, Keeps
  <1> QED BY <1>1, <1>2, <1>3

LEMMA FinWaitAckComes == ASSUME NEW r, Good(r), r.tree, r.tcp # "SYN_SENT", NEW f,
                                NEW o \in tcp_finwaitack(r, f)
                         PROVE  Comes(r, o)
  <1>1. PICK a \in AckResults(r) :
            o = Keeps(IF f.ack = "pre" THEN [a EXCEPT !.tcp = "FIN_WAIT2"] ELSE a)
    BY DEF tcp_finwaitack, Outcome, Keeps
  <1>2. Quiet(r, a)
    BY AckQuiet
  <1>3. Good(a) /\ a.tree /\ a.tcp # "SYN_SENT"
    BY <1>2 DEF Quiet, Change
  <1>4. CASE f.ack = "pre"
    <2>1. Quiet(a, [a EXCEPT !.tcp = "FIN_WAIT2"])
      BY <1>3, MoveQuiet
    <2>2. Quiet(r, [a EXCEPT !.tcp = "FIN_WAIT2"])
      BY <2>1, <1>2, QuietTrans
    <2> QED BY <2>2, <1>1, <1>4, KeepComes
  <1>5. CASE f.ack # "pre"
    BY <1>1, <1>2, <1>5, KeepComes
  <1> QED BY <1>4, <1>5

LEMMA RcvFinComes == ASSUME NEW r, Good(r), r.tree, r.tcp # "SYN_SENT", NEW o \in tcp_rcvfin(r)
                     PROVE  Comes(r, o)
  <1>1. o = Keeps([r EXCEPT !.tcp = "CLOSING"])
    BY DEF tcp_rcvfin, Outcome, Keeps
  <1>2. Quiet(r, [r EXCEPT !.tcp = "CLOSING"])
    BY MoveQuiet
  <1> QED BY <1>1, <1>2, KeepComes

\* A socket that goes to TIME_WAIT and lingers there.
LEMMA LingersQuiet == ASSUME NEW r, Good(r), r.tree, r.tcp # "SYN_SENT"
                      PROVE  Quiet(r, tcp_linger([r EXCEPT !.tcp = "TIME_WAIT"]))
  <1> DEFINE q == [r EXCEPT !.tcp = "TIME_WAIT"]
  <1>1. Quiet(r, q)
    BY MoveQuiet
  <1> HIDE DEF q
  <1>2. Good(q) /\ q.tree
    BY <1>1 DEF Quiet, Change
  <1>3. Quiet(q, tcp_linger(q))
    BY <1>2, LingerQuiet
  <1>4. Quiet(r, tcp_linger(q))
    BY <1>1, <1>3, QuietTrans
  <1> QED BY <1>4 DEF q

LEMMA FinAckComes == ASSUME NEW r, Good(r), r.tree, r.tcp # "SYN_SENT", NEW o \in tcp_finack(r)
                     PROVE  Comes(r, o)
  <1> DEFINE p == EvFin(r)
  <1>1. o = Keeps(tcp_linger([p EXCEPT !.tcp = "TIME_WAIT"]))
    BY DEF tcp_finack, Outcome, Keeps
  <1>2. Quiet(r, p)
    BY FinToldQuiet
  <1> HIDE DEF p
  <1>3. Good(p) /\ p.tree /\ p.tcp # "SYN_SENT"
    BY <1>2 DEF Quiet, Change
  <1>4. Quiet(p, tcp_linger([p EXCEPT !.tcp = "TIME_WAIT"]))
    BY <1>3, LingersQuiet
  <1>5. Quiet(r, tcp_linger([p EXCEPT !.tcp = "TIME_WAIT"]))
    BY <1>2, <1>4, QuietTrans
  <1> QED BY <1>1, <1>5, KeepComes

LEMMA FinWaitFinComes == ASSUME NEW r, Good(r), r.tree, r.tcp # "SYN_SENT", NEW f,
                                NEW o \in tcp_finwaitfin(r, f)
                         PROVE  Comes(r, o)
  <1> DEFINE p == [r EXCEPT !.tcp = "TIME_WAIT"]
             told == EvClose(p)
  <1>1. PICK d \in IF f.len THEN DataResults(told) ELSE {told} : o = Keeps(tcp_linger(d))
    BY DEF tcp_finwaitfin, Outcome, Keeps
  <1>2. Quiet(r, p)
    BY MoveQuiet
  <1> HIDE DEF p
  <1>3. Quiet(p, told)
    BY <1>2, EvCloseQuiet DEF Quiet, Change
  <1> HIDE DEF told
  <1>4. Quiet(r, told)
    BY <1>2, <1>3, QuietTrans
  <1>5. Good(told) /\ told.tree
    BY <1>4 DEF Quiet, Change
  <1>6. Quiet(told, d)
    <2>1. d = told \/ d \in DataResults(told)
      BY <1>1
    <2> QED BY <2>1, <1>5, DataQuiet, QuietRefl
  <1>7. Quiet(r, d)
    BY <1>4, <1>6, QuietTrans
  <1>8. Good(d) /\ d.tree
    BY <1>7 DEF Quiet, Change
  <1>9. Quiet(d, tcp_linger(d))
    BY <1>8, LingerQuiet
  <1>10. Quiet(r, tcp_linger(d))
    BY <1>7, <1>9, QuietTrans
  <1> QED BY <1>1, <1>10, KeepComes

LEMMA ClosingAckComes == ASSUME NEW r, Good(r), r.tree, r.tcp # "SYN_SENT", NEW f,
                                NEW o \in tcp_closing_ack(r, f)
                         PROVE  Comes(r, o)
  <1>1. PICK a \in AckResults(r) :
            o = Keeps(IF f.ack = "nxt" THEN tcp_linger([a EXCEPT !.tcp = "TIME_WAIT"]) ELSE a)
    BY DEF tcp_closing_ack, Outcome, Keeps
  <1>2. Quiet(r, a)
    BY AckQuiet
  <1>3. Good(a) /\ a.tree /\ a.tcp # "SYN_SENT"
    BY <1>2 DEF Quiet, Change
  <1>4. CASE f.ack = "nxt"
    <2>1. Quiet(a, tcp_linger([a EXCEPT !.tcp = "TIME_WAIT"]))
      BY <1>3, LingersQuiet
    <2>2. Quiet(r, tcp_linger([a EXCEPT !.tcp = "TIME_WAIT"]))
      BY <2>1, <1>2, QuietTrans
    <2> QED BY <2>2, <1>1, <1>4, KeepComes
  <1>5. CASE f.ack # "nxt"
    BY <1>1, <1>2, <1>5, KeepComes
  <1> QED BY <1>4, <1>5

-----------------------------------------------------------------------------
\* The states in which tcp_fsm calls a handler.
Allowed(action, r) ==
    /\ action = "tcp_synack" => r.tcp = "SYN_SENT"
    /\ action \in {"tcp_first_ack", "tcp_closeconn"} => r.tcp = "SYN_RECV"
    /\ action \notin {"", "tcp_synack", "tcp_rst"} => r.tcp # "SYN_SENT"

\* Every entry of the table, in a state it is allowed in.
LEMMA CallComes ==
    ASSUME NEW r, Good(r), r.tree, NEW f, NEW action, Allowed(action, r), NEW o \in Call(action, r, f)
    PROVE  Comes(r, o)
  <1>1. CASE action = "tcp_ack"
    BY <1>1, AckComes DEF Call
  <1>2. CASE action = "tcp_data_in"
    BY <1>2, DataComes DEF Call
  <1>3. CASE action = "tcp_synack"
    BY <1>3, SynAckComes DEF Call, Allowed
  <1>4. CASE action = "tcp_first_ack"
    BY <1>4, FirstAckComes DEF Call, Allowed
  <1>5. CASE action = "tcp_synrecv_syn"
    <2>1. o \in tcp_synrecv_syn(r, f)
      BY <1>5 DEF Call
    <2>2. o \in Nothing(r) \/ o \in Outcome({EvFin(r)}, "del")
      BY <2>1 DEF tcp_synrecv_syn
    <2> QED BY <2>2, NothingComes, EndComes
  <1>6. CASE action = "tcp_closewait"
    BY <1>6, CloseWaitComes DEF Call, Allowed
  <1>7. CASE action = "tcp_closeconn"
    BY <1>7, CloseConnComes DEF Call, Allowed
  <1>8. CASE action = "tcp_finwaitack"
    BY <1>8, FinWaitAckComes DEF Call, Allowed
  <1>9. CASE action = "tcp_rcvfin"
    BY <1>9, RcvFinComes DEF Call, Allowed
  <1>10. CASE action = "tcp_finack"
    BY <1>10, FinAckComes DEF Call, Allowed
  <1>11. CASE action = "tcp_finwaitfin"
    BY <1>11, FinWaitFinComes DEF Call, Allowed
  <1>12. CASE action = "tcp_closing_ack"
    BY <1>12, ClosingAckComes DEF Call, Allowed
  <1>13. CASE action = "tcp_lastackwait"
    <2>1. o \in tcp_lastackwait(r, f)
      BY <1>13 DEF Call
    <2>2. o \in Nothing(r) \/ o \in Outcome({EvFin(r)}, "del")
      BY <2>1 DEF tcp_lastackwait
    <2> QED BY <2>2, NothingComes, EndComes
  <1>14. CASE action = "tcp_rst"
    <2>1. o \in tcp_rst(r, f)
      BY <1>14 DEF Call
    <2>2. o \in Nothing(r) \/ o \in Outcome({EvFin(r)}, "del")
      BY <2>1 DEF tcp_rst
    <2> QED BY <2>2, NothingComes, EndComes
  <1>15. CASE action \notin {"tcp_ack", "tcp_data_in", "tcp_synack", "tcp_first_ack",
                 "tcp_synrecv_syn", "tcp_closewait", "tcp_closeconn", "tcp_finwaitack",
                 "tcp_rcvfin", "tcp_finack", "tcp_finwaitfin", "tcp_closing_ack",
                 "tcp_lastackwait", "tcp_rst"}
    <2>1. o \in Nothing(r)
      BY <1>15 DEF Call
    <2> QED BY <2>1, NothingComes
  <1> QED BY <1>1, <1>2, <1>3, <1>4, <1>5, <1>6, <1>7, <1>8, <1>9, <1>10, <1>11, <1>12,
             <1>13, <1>14, <1>15

\* The rows of tcp_fsm call a handler only in its states.
RowFits(t, row) ==
    /\ row.syn \in {"", "tcp_synrecv_syn"} /\ row.synack \in {"", "tcp_synack", "tcp_ack"}
    /\ row.data \in {"", "tcp_data_in"} /\ row.rst \in {"", "tcp_rst"}
    /\ row.ack \in {"", "tcp_first_ack", "tcp_ack", "tcp_lastackwait", "tcp_finwaitack",
                    "tcp_closing_ack"}
    /\ row.fin \in {"", "tcp_closewait", "tcp_rcvfin", "tcp_finwaitfin"}
    /\ row.finack \in {"", "tcp_closeconn", "tcp_closewait", "tcp_finack"}
    /\ row.ack = "tcp_first_ack" => t = "SYN_RECV"
    /\ row.finack = "tcp_closeconn" => t = "SYN_RECV"
    /\ row.synack = "tcp_synack" => t = "SYN_SENT"
    /\ t = "SYN_SENT" => /\ row.syn = "" /\ row.ack = "" /\ row.data = "" /\ row.fin = ""
                         /\ row.finack = "" /\ row.synack = "tcp_synack"

\* The rows of tcp_fsm name only handlers that are allowed in their states.
LEMMA Rows == ASSUME NEW t \in TcpStates PROVE RowFits(t, tcp_fsm[t])
  <1> DEFINE row == tcp_fsm[t]
  <1>1. CASE t = "SYN_SENT"
    <2>1. row = Row("", "tcp_synack", "", "", "", "", "tcp_rst")
      BY <1>1 DEF tcp_fsm
    <2> HIDE DEF row
    <2>2. /\ row.syn = "" /\ row.synack = "tcp_synack" /\ row.ack = "" /\ row.data = ""
          /\ row.fin = "" /\ row.finack = "" /\ row.rst = "tcp_rst"
      BY <2>1 DEF Row
    <2>3. RowFits(t, row)
      BY <2>2, <1>1 DEF RowFits
    <2> QED BY <2>3 DEF row
  <1>2. CASE t = "SYN_RECV"
    <2>1. row = Row("tcp_synrecv_syn", "", "tcp_first_ack", "tcp_data_in", "", "tcp_closeconn", "tcp_rst")
      BY <1>2 DEF tcp_fsm
    <2> HIDE DEF row
    <2>2. /\ row.syn = "tcp_synrecv_syn" /\ row.synack = "" /\ row.ack = "tcp_first_ack"
          /\ row.data = "tcp_data_in"
          /\ row.fin = "" /\ row.finack = "tcp_closeconn" /\ row.rst = "tcp_rst"
      BY <2>1 DEF Row
    <2>3. RowFits(t, row)
      BY <2>2, <1>2 DEF RowFits
    <2> QED BY <2>3 DEF row
  <1>3. CASE t = "ESTABLISHED"
    <2>1. row = Row("", "tcp_ack", "tcp_ack", "tcp_data_in", "tcp_closewait", "tcp_closewait", "tcp_rst")
      BY <1>3 DEF tcp_fsm
    <2> HIDE DEF row
    <2>2. /\ row.syn = "" /\ row.synack = "tcp_ack" /\ row.ack = "tcp_ack" /\ row.data = "tcp_data_in"
          /\ row.fin = "tcp_closewait" /\ row.finack = "tcp_closewait" /\ row.rst = "tcp_rst"
      BY <2>1 DEF Row
    <2>3. RowFits(t, row)
      BY <2>2, <1>3 DEF RowFits
    <2> QED BY <2>3 DEF row
  <1>4. CASE t = "CLOSE_WAIT"
    <2>1. row = Row("", "tcp_ack", "tcp_ack", "", "tcp_closewait", "tcp_closewait", "tcp_rst")
      BY <1>4 DEF tcp_fsm
    <2> HIDE DEF row
    <2>2. /\ row.syn = "" /\ row.synack = "tcp_ack" /\ row.ack = "tcp_ack" /\ row.data = ""
          /\ row.fin = "tcp_closewait" /\ row.finack = "tcp_closewait" /\ row.rst = "tcp_rst"
      BY <2>1 DEF Row
    <2>3. RowFits(t, row)
      BY <2>2, <1>4 DEF RowFits
    <2> QED BY <2>3 DEF row
  <1>5. CASE t = "LAST_ACK"
    <2>1. row = Row("", "tcp_ack", "tcp_lastackwait", "", "", "", "tcp_rst")
      BY <1>5 DEF tcp_fsm
    <2> HIDE DEF row
    <2>2. /\ row.syn = "" /\ row.synack = "tcp_ack" /\ row.ack = "tcp_lastackwait" /\ row.data = ""
          /\ row.fin = "" /\ row.finack = "" /\ row.rst = "tcp_rst"
      BY <2>1 DEF Row
    <2>3. RowFits(t, row)
      BY <2>2, <1>5 DEF RowFits
    <2> QED BY <2>3 DEF row
  <1>6. CASE t = "FIN_WAIT1"
    <2>1. row = Row("", "tcp_ack", "tcp_finwaitack", "tcp_data_in", "tcp_rcvfin", "tcp_finack", "tcp_rst")
      BY <1>6 DEF tcp_fsm
    <2> HIDE DEF row
    <2>2. /\ row.syn = "" /\ row.synack = "tcp_ack" /\ row.ack = "tcp_finwaitack" /\ row.data = "tcp_data_in"
          /\ row.fin = "tcp_rcvfin" /\ row.finack = "tcp_finack" /\ row.rst = "tcp_rst"
      BY <2>1 DEF Row
    <2>3. RowFits(t, row)
      BY <2>2, <1>6 DEF RowFits
    <2> QED BY <2>3 DEF row
  <1>7. CASE t = "FIN_WAIT2"
    <2>1. row = Row("", "tcp_ack", "tcp_ack", "tcp_data_in", "tcp_finwaitfin", "tcp_finack", "tcp_rst")
      BY <1>7 DEF tcp_fsm
    <2> HIDE DEF row
    <2>2. /\ row.syn = "" /\ row.synack = "tcp_ack" /\ row.ack = "tcp_ack" /\ row.data = "tcp_data_in"
          /\ row.fin = "tcp_finwaitfin" /\ row.finack = "tcp_finack" /\ row.rst = "tcp_rst"
      BY <2>1 DEF Row
    <2>3. RowFits(t, row)
      BY <2>2, <1>7 DEF RowFits
    <2> QED BY <2>3 DEF row
  <1>8. CASE t = "CLOSING"
    <2>1. row = Row("", "tcp_ack", "tcp_closing_ack", "", "", "", "tcp_rst")
      BY <1>8 DEF tcp_fsm
    <2> HIDE DEF row
    <2>2. /\ row.syn = "" /\ row.synack = "tcp_ack" /\ row.ack = "tcp_closing_ack" /\ row.data = ""
          /\ row.fin = "" /\ row.finack = "" /\ row.rst = "tcp_rst"
      BY <2>1 DEF Row
    <2>3. RowFits(t, row)
      BY <2>2, <1>8 DEF RowFits
    <2> QED BY <2>3 DEF row
  <1>9. CASE t = "TIME_WAIT"
    <2>1. row = Row("", "", "", "", "", "", "")
      BY <1>9 DEF tcp_fsm
    <2> HIDE DEF row
    <2>2. /\ row.syn = "" /\ row.synack = "" /\ row.ack = "" /\ row.data = ""
          /\ row.fin = "" /\ row.finack = "" /\ row.rst = ""
      BY <2>1 DEF Row
    <2>3. RowFits(t, row)
      BY <2>2, <1>9 DEF RowFits
    <2> QED BY <2>3 DEF row
  <1> QED BY <1>1, <1>2, <1>3, <1>4, <1>5, <1>6, <1>7, <1>8, <1>9 DEF TcpStates

-----------------------------------------------------------------------------
\* One handler after another, as in ByFlags.
ThenCall(O, on, action, f) ==
    UNION {IF on /\ o.then # "del"
           THEN {[x EXCEPT !.then = IF @ = "keep" THEN o.then ELSE @] : x \in Call(action, o.r, f)}
           ELSE {o} : o \in O}

AllCome(r, O) == \A o \in O : Comes(r, o)
AllAllowed(action, O) == \A o \in O : Allowed(action, o.r)

\* A handler called on what another one left.
LEMMA ThenComes ==
    ASSUME NEW r, NEW O, AllCome(r, O), NEW on, NEW action, AllAllowed(action, O), NEW f
    PROVE  AllCome(r, ThenCall(O, on, action, f))
  <1> SUFFICES ASSUME NEW p \in ThenCall(O, on, action, f) PROVE Comes(r, p)
    BY DEF AllCome
  <1>1. PICK o \in O :
            \/ p = o
            \/ /\ o.then # "del"
               /\ \E x \in Call(action, o.r, f) : p = [x EXCEPT !.then = IF @ = "keep" THEN o.then ELSE @]
    BY DEF ThenCall
  <1>2. Comes(r, o) /\ Allowed(action, o.r)
    BY DEF AllCome, AllAllowed
  <1>3. CASE p = o
    BY <1>2, <1>3
  <1>4. CASE p # o
    <2>1. o.then # "del"
      BY <1>1, <1>4
    <2>2. PICK x \in Call(action, o.r, f) : p = [x EXCEPT !.then = IF @ = "keep" THEN o.then ELSE @]
      BY <1>1, <1>4
    <2>3. Good(o.r) /\ o.r.tree
      BY <1>2 DEF Comes, Change
    <2>4. Comes(o.r, x)
      BY <1>2, <2>3, CallComes
    <2>5. x = [r |-> x.r, then |-> x.then]
      BY <2>4 DEF Comes
    <2>6. /\ p = [r |-> p.r, then |-> p.then] /\ p.r = x.r
          /\ p.then = IF x.then = "keep" THEN o.then ELSE x.then
      BY <2>2, <2>5
    <2>7. Change(r, p.r)
      BY <1>2, <2>4, <2>6, ChangeTrans DEF Comes
    <2>8. p.then = "keep" => NotNew(r, p.r)
      <3>1. ASSUME p.then = "keep" PROVE NotNew(r, p.r)
        <4>1. x.then = "keep" /\ o.then = "keep"
          BY <3>1, <2>6
        <4>2. Quiet(r, o.r) /\ Quiet(o.r, x.r)
          BY <4>1, <1>2, <2>4 DEF Comes, Quiet
        <4> QED BY <4>2, <2>6, QuietTrans DEF Quiet
      <3> QED BY <3>1
    <2>9. p.then = "del" /\ p.r.open => p.r.closure_ts
      BY <2>1, <2>4, <2>6 DEF Comes
    <2>10. p.then \in {"keep", "del", "conn"}
      BY <1>2, <2>4, <2>6 DEF Comes
    <2> QED BY <2>6, <2>7, <2>8, <2>9, <2>10 DEF Comes
  <1> QED BY <1>3, <1>4

\* A handler that is not called changes nothing.
LEMMA ThenNot == ASSUME NEW O, NEW action, NEW f, NEW on, ~on PROVE ThenCall(O, on, action, f) = O
  BY DEF ThenCall

\* A socket in the tree is not in the handshake of a connect unless it was.
LEMMA NotSent == ASSUME NEW r, NEW O, AllCome(r, O), r.tcp # "SYN_SENT", NEW o \in O
                 PROVE  o.r.tcp # "SYN_SENT"
  BY DEF AllCome, Comes, Change

\* Acknowledgement, data, FIN and RST of one segment.
LEMMA ByFlagsComes ==
    ASSUME NEW r, Good(r), r.tree, NEW f
    PROVE  AllCome(r, ByFlags(tcp_fsm[r.tcp], r, f))
  <1> DEFINE row == tcp_fsm[r.tcp]
             acks == f.flags \in {"ACK", "PSHACK"}
             has == f.len \/ f.flags \in {"PSH", "PSHACK"}
             fins == f.flags \in {"FIN", "FINACK"}
             rsts == f.flags \in {"RST", "RSTACK"}
             onFin == IF f.flags = "FIN" THEN row.fin ELSE row.finack
             begin == Nothing(r)
             acked == ThenCall(begin, acks, row.ack, f)
             taken == ThenCall(acked, has, row.data, f)
             ended == ThenCall(taken, fins, onFin, f)
             all == ThenCall(ended, rsts, row.rst, f)
  <1>1. ByFlags(row, r, f) = all
    BY DEF ByFlags, ThenCall
  <1>2. RowFits(r.tcp, row)
    <2>1. r.tcp \in TcpStates
      BY DEF Good, SockType, InTree
    <2> QED BY <2>1, Rows
  <1> HIDE DEF row
  <1>3. AllCome(r, begin) /\ \A o \in begin : o.r = r
    BY NothingComes DEF AllCome, Keeps
  <1> HIDE DEF begin
  <1>4. AllCome(r, acked)
    <2>1. Allowed(row.ack, r)
      BY <1>2 DEF RowFits, Allowed
    <2>2. AllAllowed(row.ack, begin)
      BY <2>1, <1>3 DEF AllAllowed
    <2> QED BY <1>3, <2>2, ThenComes
  <1>5. ~acks => acked = begin
    BY ThenNot
  <1> HIDE DEF acked
  <1>6. AllCome(r, taken)
    <2>1. ASSUME NEW o \in acked PROVE Allowed(row.data, o.r)
      <3>1. r.tcp # "SYN_SENT" => o.r.tcp # "SYN_SENT"
        BY <1>4, NotSent
      <3> QED BY <3>1, <1>2 DEF RowFits, Allowed
    <2>2. AllAllowed(row.data, acked)
      BY <2>1 DEF AllAllowed
    <2> QED BY <1>4, <2>2, ThenComes
  <1>7. ASSUME fins, NEW o \in taken PROVE o.r.tcp = r.tcp
    <2>1. acked = begin
      BY <1>5, <1>7
    <2>2. PICK b \in begin :
             \/ o = b
             \/ \E x \in Call(row.data, b.r, f) : o = [x EXCEPT !.then = IF @ = "keep" THEN b.then ELSE @]
      BY <2>1 DEF ThenCall
    <2>3. b.r = r
      BY <1>3
    <2>4. CASE o = b
      BY <2>3, <2>4
    <2>5. CASE o # b
      <3>1. PICK x \in Call(row.data, r, f) : o = [x EXCEPT !.then = IF @ = "keep" THEN b.then ELSE @]
        BY <2>2, <2>3, <2>5
      <3>2. x \in Nothing(r) \/ x \in tcp_data_in(r)
        BY <3>1, <1>2 DEF RowFits, Call
      <3>3. Comes(r, x) /\ x.r.tcp = r.tcp
        BY <3>2, NothingComes, DataComes DEF Keeps
      <3>4. x = [r |-> x.r, then |-> x.then]
        BY <3>3 DEF Comes
      <3>5. o.r = x.r
        BY <3>1, <3>4
      <3> QED BY <3>3, <3>5
    <2> QED BY <2>4, <2>5
  <1> HIDE DEF taken
  <1>8. AllCome(r, ended)
    <2>1. CASE fins
      <3>1. ASSUME NEW o \in taken PROVE Allowed(onFin, o.r)
        <4>1. o.r.tcp = r.tcp
          BY <1>7, <2>1
        <4> QED BY <4>1, <1>2 DEF RowFits, Allowed
      <3>2. AllAllowed(onFin, taken)
        BY <3>1 DEF AllAllowed
      <3> HIDE DEF onFin
      <3> QED BY <1>6, <3>2, ThenComes
    <2>2. CASE ~fins
      <3> HIDE DEF onFin, fins
      <3>1. ended = taken
        BY <2>2, ThenNot
      <3> QED BY <3>1, <1>6
    <2> QED BY <2>1, <2>2
  <1> HIDE DEF ended
  <1>9. AllCome(r, all)
    <2>1. \A o \in ended : Allowed(row.rst, o.r)
      BY <1>2 DEF RowFits, Allowed
    <2>2. AllAllowed(row.rst, ended)
      BY <2>1 DEF AllAllowed
    <2> QED BY <1>8, <2>2, ThenComes
  <1> HIDE DEF all
  <1> QED BY <1>1, <1>9 DEF row

\* Every outcome of a segment is as promised.
LEMMA InputComes ==
    ASSUME NEW r, Good(r), r.tree, NEW f, NEW o \in pico_tcp_input(r, f)
    PROVE  Comes(r, o)
  <1> DEFINE row == tcp_fsm[r.tcp]
  <1>1. RowFits(r.tcp, row)
    <2>1. r.tcp \in TcpStates
      BY DEF Good, SockType, InTree
    <2> QED BY <2>1, Rows
  <1>2. Allowed(row.syn, r) /\ Allowed(row.synack, r)
    <2> HIDE DEF row
    <2> QED BY <1>1 DEF RowFits, Allowed
  <1>3. \/ o \in Nothing(r) \/ o \in Call(row.syn, r, f) \/ o \in Call(row.synack, r, f)
        \/ o \in ByFlags(row, r, f)
    BY DEF pico_tcp_input
  <1>4. AllCome(r, ByFlags(row, r, f))
    BY ByFlagsComes
  <1> HIDE DEF row
  <1> QED BY <1>2, <1>3, <1>4, NothingComes, CallComes DEF AllCome

-----------------------------------------------------------------------------
\* Counting the connections nobody has accepted.
PendingIn(k) == {s \in Socks : k[s].tree /\ k[s].parent}
NewIn(k) == {s \in Socks : (k[s].tree /\ k[s].parent) /\ k[s].tcp = "ESTABLISHED"}
NoneLate(k) == \A s \in Socks : ~(k[s].late /\ k[s].parent)

Counted(k, l, m) ==
    /\ NoneLate(k) => /\ l.number_of_pending_conn = Cardinality(PendingIn(k))
                      /\ l.number_of_pending_conn <= l.max_backlog
    /\ Cardinality(NewIn(k)) <= m

\* The counts are the two invariants, of this state and of the next.
LEMMA CountedNow == PendingExact /\ ConnsAccepted <=> Counted(sock, lis, missed)
  BY DEF PendingExact, ConnsAccepted, Counted, PendingIn, NewIn, NoneLate, Pending

LEMMA CountedNext == Counted(sock', lis', missed') => PendingExact' /\ ConnsAccepted'
  BY DEF PendingExact, ConnsAccepted, Counted, PendingIn, NewIn, NoneLate, Pending

\* What is counted is finite.
LEMMA CountsFinite == ASSUME NEW k
                      PROVE  /\ IsFiniteSet(PendingIn(k)) /\ Cardinality(PendingIn(k)) \in Nat
                             /\ IsFiniteSet(NewIn(k)) /\ Cardinality(NewIn(k)) \in Nat
                             /\ NewIn(k) \subseteq PendingIn(k)
  <1>1. PendingIn(k) \subseteq Socks /\ NewIn(k) \subseteq Socks /\ IsFiniteSet(Socks)
    BY ConnAssumption DEF PendingIn, NewIn
  <1>2. IsFiniteSet(PendingIn(k)) /\ IsFiniteSet(NewIn(k))
    BY <1>1, FS_Subset
  <1> QED BY <1>2, FS_CardinalityType DEF PendingIn, NewIn

\* The same sockets are pending, and none is newly established.
LEMMA CountSame ==
    ASSUME NEW k, NEW j, NEW l, NEW m \in Nat, Counted(k, l, m),
           PendingIn(j) = PendingIn(k), NewIn(j) \subseteq NewIn(k),
           NoneLate(j) => NoneLate(k)
    PROVE  Counted(j, l, m)
  <1>1. Cardinality(NewIn(j)) <= Cardinality(NewIn(k))
    BY CountsFinite, FS_Subset
  <1>2. Cardinality(NewIn(j)) <= m
    BY <1>1, CountsFinite DEF Counted
  <1> QED BY <1>2 DEF Counted

\* At most one more is established.
LEMMA AddedOne ==
    ASSUME NEW k, NEW s, NEW u, u = NewIn(k) \union {s}
    PROVE  IsFiniteSet(u) /\ Cardinality(u) \in Nat /\ Cardinality(u) <= Cardinality(NewIn(k)) + 1
  <1>1. IsFiniteSet(NewIn(k)) /\ Cardinality(NewIn(k)) \in Nat
    BY CountsFinite
  <1>2. CASE s \in NewIn(k)
    <2>1. u = NewIn(k)
      BY <1>2
    <2>2. Cardinality(u) \in Nat => Cardinality(u) <= Cardinality(u) + 1
      OBVIOUS
    <2>3. IsFiniteSet(u) /\ Cardinality(u) \in Nat
      BY <2>1, <1>1, Zenon
    <2>4. Cardinality(u) <= Cardinality(u) + 1
      BY <2>2, <2>3
    <2> QED BY <2>1, <2>3, <2>4, Zenon
  <1>3. CASE s \notin NewIn(k)
    <2>1. IsFiniteSet(u) /\ Cardinality(u) = Cardinality(NewIn(k)) + 1
      BY <1>1, <1>3, FS_AddElement
    <2> QED BY <2>1, <1>1
  <1> QED BY <1>2, <1>3

\* One more socket is established and the missed connections are counted.
LEMMA CountMissed ==
    ASSUME NEW k, NEW j, NEW l, NEW m \in Nat, Counted(k, l, m), NEW s,
           PendingIn(j) = PendingIn(k), NewIn(j) \subseteq NewIn(k) \union {s},
           NoneLate(j) => NoneLate(k)
    PROVE  Counted(j, l, m + 1)
  <1> DEFINE u == NewIn(k) \union {s}
  <1>1. IsFiniteSet(u) /\ Cardinality(u) \in Nat /\ Cardinality(u) <= Cardinality(NewIn(k)) + 1
    BY AddedOne
  <1>2. Cardinality(NewIn(j)) <= Cardinality(u)
    BY <1>1, FS_Subset
  <1>3. Cardinality(NewIn(j)) <= m + 1
    BY <1>1, <1>2, CountsFinite DEF Counted
  <1> QED BY <1>3 DEF Counted

\* A SYN brings one more.
LEMMA CountMore ==
    ASSUME NEW k, NEW j, NEW l \in LisType, NEW m \in Nat, Counted(k, l, m), NEW s, s \notin PendingIn(k),
           l.number_of_pending_conn < l.max_backlog,
           PendingIn(j) = PendingIn(k) \union {s}, NewIn(j) \subseteq NewIn(k),
           NoneLate(j) => NoneLate(k)
    PROVE  Counted(j, [l EXCEPT !.number_of_pending_conn = @ + 1], m)
  <1> DEFINE n == [l EXCEPT !.number_of_pending_conn = @ + 1]
  <1>1. n.number_of_pending_conn = l.number_of_pending_conn + 1 /\ n.max_backlog = l.max_backlog
        /\ l.number_of_pending_conn \in Int /\ l.max_backlog \in Nat
    BY ConnAssumption DEF LisType
  <1> HIDE DEF n
  <1>2. Cardinality(PendingIn(j)) = Cardinality(PendingIn(k)) + 1
    BY CountsFinite, FS_AddElement
  <1>3. Cardinality(NewIn(j)) <= Cardinality(NewIn(k))
    BY CountsFinite, FS_Subset
  <1>4. Cardinality(NewIn(j)) <= m
    BY <1>3, CountsFinite DEF Counted
  <1>5. Counted(j, n, m)
    BY <1>1, <1>2, <1>4 DEF Counted
  <1> QED BY <1>5 DEF n

\* The counter of pending connections goes down by one.
LEMMA OneLessIs ==
    ASSUME NEW l \in LisType
    PROVE  /\ OneLess(l) \in LisType /\ OneLess(l).max_backlog = l.max_backlog
           /\ OneLess(l).number_of_pending_conn = (l.number_of_pending_conn - 1) % PendMod
           /\ l.number_of_pending_conn > 0 /\ l.number_of_pending_conn <= l.max_backlog =>
                 OneLess(l).number_of_pending_conn = l.number_of_pending_conn - 1
  <1> DEFINE n == l.number_of_pending_conn
  <1>1. n \in Int /\ l.max_backlog \in Nat /\ l.max_backlog + 1 < PendMod /\ PendMod \in Nat
    BY ConnAssumption DEF LisType
  <1>2. OneLess(l) = [l EXCEPT !.number_of_pending_conn = (n - 1) % PendMod]
    BY DEF OneLess
  <1> HIDE DEF n
  <1>3. (n - 1) % PendMod \in Int
    BY <1>1
  <1>4. n > 0 /\ n <= l.max_backlog => (n - 1) % PendMod = n - 1
    BY <1>1
  <1>5. /\ OneLess(l) \in LisType /\ OneLess(l).max_backlog = l.max_backlog
        /\ OneLess(l).number_of_pending_conn = (n - 1) % PendMod
    BY <1>2, <1>3 DEF LisType
  <1> QED BY <1>4, <1>5 DEF n

\* One of them is accepted or deleted.
LEMMA CountLess ==
    ASSUME NEW k, NEW j, NEW l \in LisType, NEW m \in Nat, Counted(k, l, m), NEW s \in PendingIn(k),
           PendingIn(j) = PendingIn(k) \ {s}, Cardinality(NewIn(j)) <= m,
           NoneLate(j) => NoneLate(k)
    PROVE  Counted(j, OneLess(l), m)
  <1>1. IsFiniteSet(PendingIn(k)) /\ Cardinality(PendingIn(k)) \in Nat
    BY CountsFinite
  <1>2. Cardinality(PendingIn(j)) = Cardinality(PendingIn(k)) - 1
    BY <1>1, FS_RemoveElement
  <1>3. Cardinality(PendingIn(k)) > 0
    <2>1. Cardinality(PendingIn(j)) \in Nat
      BY CountsFinite
    <2> QED BY <2>1, <1>1, <1>2
  <1>4. ASSUME NoneLate(j)
        PROVE  /\ OneLess(l).number_of_pending_conn = Cardinality(PendingIn(j))
               /\ OneLess(l).number_of_pending_conn <= OneLess(l).max_backlog
    <2>1. l.number_of_pending_conn = Cardinality(PendingIn(k)) /\ l.number_of_pending_conn <= l.max_backlog
      BY <1>4 DEF Counted
    <2>2. l.max_backlog \in Nat
      BY ConnAssumption DEF LisType
    <2> QED BY <2>1, <2>2, <1>1, <1>2, <1>3, OneLessIs
  <1> QED BY <1>4 DEF Counted

-----------------------------------------------------------------------------
\* What the counts need of a change of one socket.
Like(r, q) ==
    /\ q.tree /\ q.parent <=> r.tree /\ r.parent
    /\ q.tree /\ q.parent /\ q.tcp = "ESTABLISHED" => r.tcp = "ESTABLISHED"
    /\ r.late /\ r.parent => q.late /\ q.parent

\* A quiet change counts nothing.
LEMMA QuietLike == ASSUME NEW r, NEW q, Quiet(r, q) PROVE Like(r, q)
  BY DEF Quiet, Change, Kept, NotNew, Like

\* One socket changes and the counts do not.
LEMMA OneChanges ==
    ASSUME NEW k \in [Socks -> SockType], NEW s \in Socks, NEW q, Like(k[s], q),
           NEW j, j = [k EXCEPT ![s] = q]
    PROVE  /\ PendingIn(j) = PendingIn(k) /\ NewIn(j) \subseteq NewIn(k)
           /\ NoneLate(j) => NoneLate(k)
  <1>1. j[s] = q /\ \A t \in Socks : t # s => j[t] = k[t]
    OBVIOUS
  <1>2. PendingIn(j) = PendingIn(k)
    BY <1>1 DEF PendingIn, Like
  <1>3. NewIn(j) \subseteq NewIn(k)
    BY <1>1 DEF NewIn, Like
  <1>4. NoneLate(j) => NoneLate(k)
    BY <1>1 DEF NoneLate, Like
  <1> QED BY <1>2, <1>3, <1>4

\* What is left to show of a step.
LEMMA InvFrom ==
    ASSUME sock' \in [Socks -> SockType], \A s \in Socks : Good(sock'[s]), lis' \in LisType,
           missed' \in Nat, Counted(sock', lis', missed'), MemoryKept'
    PROVE  ConnInv'
  <1>1. PendingExact' /\ ConnsAccepted'
    BY CountedNext
  <1> QED BY <1>1 DEF ConnInv

\* One socket changes to a good one.
LEMMA OneGood ==
    ASSUME ConnInv, NEW s \in Socks, NEW q, Good(q), NEW j, j = [sock EXCEPT ![s] = q]
    PROVE  /\ j \in [Socks -> SockType] /\ \A t \in Socks : Good(j[t])
           /\ j[s] = q /\ \A t \in Socks : t # s => j[t] = sock[t]
  BY DEF ConnInv, Good

\* A step that changes one socket and nothing that is counted.
LEMMA SetKeeps ==
    ASSUME ConnInv, bad = "no", NEW s \in Socks, NEW q, Good(q), Like(sock[s], q),
           sock' = [sock EXCEPT ![s] = q], UNCHANGED <<lis, missed>>, MemoryKept'
    PROVE  ConnInv'
  <1>1. sock' \in [Socks -> SockType] /\ \A t \in Socks : Good(sock'[t])
    BY OneGood
  <1>2. Counted(sock, lis, missed) /\ missed \in Nat /\ lis \in LisType /\ sock \in [Socks -> SockType]
    BY CountedNow DEF ConnInv
  <1>3. /\ PendingIn(sock') = PendingIn(sock) /\ NewIn(sock') \subseteq NewIn(sock)
        /\ NoneLate(sock') => NoneLate(sock)
    BY <1>2, OneChanges
  <1>4. Counted(sock', lis, missed)
    BY <1>2, <1>3, CountSame
  <1> QED BY <1>1, <1>2, <1>4, InvFrom

\* No freed memory is used, or only that of the listening socket.
LEMMA NotBad == ASSUME bad' \in {"no", "parent"} PROVE MemoryKept'
  BY DEF MemoryKept

\* A step that sets one socket.
LEMMA SetOnly ==
    ASSUME ConnInv, bad = "no", NEW s \in Socks, NEW q, Good(q), Like(sock[s], q), Set(s, q)
    PROVE  ConnInv'
  <1>1. MemoryKept' /\ sock' = [sock EXCEPT ![s] = q] /\ UNCHANGED <<lis, missed>>
    BY NotBad DEF Set
  <1> QED BY <1>1, SetKeeps

\* A step that changes one socket quietly.
LEMMA SetQuiet ==
    ASSUME ConnInv, bad = "no", NEW s \in Socks, NEW q, Quiet(sock[s], q), Set(s, q)
    PROVE  ConnInv'
  <1>1. Like(sock[s], q) /\ Good(q)
    BY QuietLike DEF Quiet, Change
  <1> QED BY <1>1, SetOnly

-----------------------------------------------------------------------------
\* pico_socket_del of a socket that is in the tree, or a second time.
LEMMA DeletedGood ==
    ASSUME NEW r, Good(r), r.tree \/ (r.kind = "child" /\ r.late),
           r.open => r.closure_ts \/ (r.kind = "client" /\ r.fins = 0 /\ r.backoff > Retries)
    PROVE  /\ Good(Deleted(r)) /\ ~Deleted(r).tree /\ (Deleted(r).parent <=> r.parent)
           /\ (Deleted(r).late <=> r.late)
  <1> DEFINE q == Deleted(r)
  <1>1. r \in SockType /\ r.gc \in Nat
        /\ q = [r EXCEPT !.tree = FALSE, !.tcp = "UNDEF", !.shut_local = FALSE, !.gc = r.gc + 1]
    BY DEF Good, Deleted, SockType
  <1> HIDE DEF q
  <1>2. q \in SockType
    <2>1. r.gc + 1 \in Nat /\ "UNDEF" \in TcpStates \union {"UNDEF"} /\ FALSE \in BOOLEAN
      BY <1>1
    <2>2. [r EXCEPT !.tree = FALSE, !.tcp = "UNDEF"] \in SockType
      BY <2>1, <1>1 DEF SockType
    <2>3. q = [[r EXCEPT !.tree = FALSE, !.tcp = "UNDEF"] EXCEPT !.shut_local = FALSE, !.gc = r.gc + 1]
      BY <1>1 DEF SockType
    <2> QED BY <2>1, <2>2, <2>3 DEF SockType
  <1>3. ~q.tree /\ q.tcp = "UNDEF" /\ q.gc = r.gc + 1 /\ q.kind = r.kind /\ q.fins = r.fins
        /\ q.backoff = r.backoff
    BY <1>1 DEF SockType
  <1>4. (q.parent <=> r.parent) /\ (q.late <=> r.late) /\ (q.open <=> r.open) /\ (q.priv <=> r.priv)
    BY <1>1 DEF SockType
  <1>5. /\ (q.freed <=> r.freed) /\ (q.closure_ts <=> r.closure_ts) /\ (q.initconn <=> r.initconn)
        /\ (q.remote_closed <=> r.remote_closed)
    BY <1>1 DEF SockType
  <1>6. InTree(q)
    BY <1>3 DEF InTree
  <1>7. Owned(q)
    BY <1>3, <1>4, <1>5 DEF Good, InTree, Owned
  <1>8. CollectedOnce(q)
    BY <1>1, <1>3, <1>4, <1>5 DEF Good, InTree, CollectedOnce
  <1>9. FinsCounted(q)
    BY <1>3, <1>5 DEF Good, FinsCounted, Unfinished
  <1>10. ToldOfEnd(q)
    BY <1>3, <1>4, <1>5 DEF ToldOfEnd
  <1>11. Good(q)
    BY <1>2, <1>6, <1>7, <1>8, <1>9, <1>10 DEF Good
  <1> QED BY <1>3, <1>4, <1>11 DEF q

\* Same owner, same place.
Same(r, q) ==
    /\ q.kind = r.kind /\ (q.tree <=> r.tree) /\ (q.parent <=> r.parent) /\ (r.late => q.late)

\* pico_socket_del: the count goes down when the socket was pending, and is given
\* up when it was deleted before.
LEMMA DelKeeps ==
    ASSUME ConnInv, bad = "no", NEW s \in Socks, NEW r, Good(r), Same(sock[s], r),
           r.tree \/ (r.kind = "child" /\ r.late) \/ r.kind = "client",
           r.open => r.closure_ts \/ (r.kind = "client" /\ r.fins = 0 /\ r.backoff > Retries),
           pico_socket_del(s, r)
    PROVE  ConnInv'
  <1>1. Counted(sock, lis, missed) /\ missed \in Nat /\ lis \in LisType /\ sock \in [Socks -> SockType]
        /\ Good(sock[s])
    BY CountedNow DEF ConnInv
  <1>2. CASE ~HasSockport(s)
    <2>1. ~r.tree
      <3>1. sock[s].tree => sock[s].kind \in {"child", "client"}
        BY <1>1 DEF Good, InTree, SockType
      <3>2. sock[s].tree => HasSockport(s)
        BY <3>1 DEF HasSockport
      <3> QED BY <3>2, <1>2 DEF Same
    <2>2. Like(sock[s], r)
      BY <2>1 DEF Like, Same
    <2>3. Set(s, r)
      BY <1>2 DEF pico_socket_del
    <2> QED BY <2>2, <2>3, SetOnly
  <1>3. CASE HasSockport(s)
    <2> DEFINE q == Deleted(r)
    <2>1. /\ sock' = [sock EXCEPT ![s] = q] /\ lis' = IF r.parent THEN OneLess(lis) ELSE lis
          /\ bad' \in {"no", "parent"} /\ missed' = missed
      BY <1>3 DEF pico_socket_del
    <2>2. r.tree \/ (r.kind = "child" /\ r.late)
      BY <1>3 DEF HasSockport, Same
    <2>3. Good(q) /\ ~q.tree /\ (q.parent <=> r.parent) /\ (q.late <=> r.late)
      BY <2>2, DeletedGood
    <2> HIDE DEF q
    <2>4. /\ sock' \in [Socks -> SockType] /\ \A t \in Socks : Good(sock'[t])
          /\ sock'[s] = q /\ \A t \in Socks : t # s => sock'[t] = sock[t]
      <3>1. sock' = [sock EXCEPT ![s] = q] /\ Good(q)
        BY <2>1, <2>3
      <3>2. sock' \in [Socks -> SockType] /\ \A t \in Socks : Good(sock'[t])
        BY <3>1, OneGood
      <3>3. sock'[s] = q /\ \A t \in Socks : t # s => sock'[t] = sock[t]
        BY <3>1, <1>1
      <3> QED BY <3>2, <3>3
    <2>5. MemoryKept' /\ missed' \in Nat
      BY <2>1, <1>1, NotBad
    <2>6. lis' \in LisType
      BY <2>1, <1>1, OneLessIs
    <2>7. NewIn(sock') \subseteq NewIn(sock) /\ (NoneLate(sock') => NoneLate(sock))
      BY <2>3, <2>4 DEF NewIn, NoneLate, Same
    <2>8. CASE r.tree /\ r.parent
      <3>1. s \in PendingIn(sock) /\ PendingIn(sock') = PendingIn(sock) \ {s}
        BY <2>3, <2>4, <2>8 DEF PendingIn, Same
      <3>2. Cardinality(NewIn(sock')) <= Cardinality(NewIn(sock))
        BY <2>7, CountsFinite, FS_Subset
      <3>3. Cardinality(NewIn(sock')) <= missed
        BY <3>2, <1>1, CountsFinite DEF Counted
      <3>4. Counted(sock', OneLess(lis), missed)
        BY <1>1, <2>7, <3>1, <3>3, CountLess
      <3> QED BY <3>4, <2>1, <2>4, <2>5, <2>6, <2>8, InvFrom
    <2>9. CASE ~r.parent
      <3>1. PendingIn(sock') = PendingIn(sock)
        BY <2>3, <2>4, <2>9 DEF PendingIn, Same
      <3>2. Counted(sock', lis, missed)
        BY <1>1, <2>7, <3>1, CountSame
      <3> QED BY <3>2, <2>1, <2>4, <2>5, <2>6, <2>9, InvFrom
    <2>10. CASE ~r.tree /\ r.parent
      <3>1. ~NoneLate(sock')
        BY <2>2, <2>3, <2>4, <2>10 DEF NoneLate
      <3>2. Cardinality(NewIn(sock')) <= Cardinality(NewIn(sock))
        BY <2>7, CountsFinite, FS_Subset
      <3>3. Cardinality(NewIn(sock')) <= missed
        BY <3>2, <1>1, CountsFinite DEF Counted
      <3>4. Counted(sock', lis', missed')
        BY <3>1, <3>3, <2>1 DEF Counted
      <3> QED BY <3>4, <2>4, <2>5, <2>6, InvFrom
    <2> QED BY <2>8, <2>9, <2>10
  <1> QED BY <1>2, <1>3

-----------------------------------------------------------------------------
\* pico_socket_accept gives an established socket to libzt.
LEMMA AcceptedGood ==
    ASSUME NEW r, Good(r), r.tree, r.tcp = "ESTABLISHED", NEW q,
           q = [r EXCEPT !.parent = FALSE, !.priv = TRUE, !.open = TRUE]
    PROVE  Good(q) /\ q.tree /\ ~q.parent /\ ~q.late
  <1>1. r \in SockType
    BY DEF Good
  <1>2. q \in SockType
    BY <1>1 DEF SockType
  <1>3. /\ q.tcp = r.tcp /\ q.gc = r.gc /\ q.kind = r.kind /\ q.fins = r.fins
        /\ ~q.parent /\ q.priv /\ q.open
    BY <1>1 DEF SockType
  <1>4. /\ (q.tree <=> r.tree) /\ (q.late <=> r.late) /\ (q.freed <=> r.freed)
        /\ (q.initconn <=> r.initconn) /\ (q.remote_closed <=> r.remote_closed)
    BY <1>1 DEF SockType
  <1>5. InTree(q)
    BY <1>3, <1>4 DEF Good, InTree
  <1>6. Owned(q)
    BY <1>3, <1>4, <1>5 DEF Good, Owned, InTree
  <1>7. CollectedOnce(q)
    BY <1>3, <1>4 DEF Good, CollectedOnce
  <1>8. FinsCounted(q)
    BY <1>3, <1>4 DEF Good, FinsCounted
  <1>9. ToldOfEnd(q)
    BY <1>4 DEF ToldOfEnd
  <1> QED BY <1>2, <1>3, <1>4, <1>5, <1>6, <1>7, <1>8, <1>9 DEF Good, InTree

\* The socket whose handshake ends is established or another one is accepted.
LEMMA AcceptKeeps ==
    ASSUME ConnInv, bad = "no", NEW s \in Socks, NEW r, Change(sock[s], r), Accept(s, r)
    PROVE  ConnInv'
  <1> DEFINE now == [sock EXCEPT ![s] = r]
  <1>1. PICK c \in Socks :
          /\ now[c].tree /\ now[c].parent /\ now[c].tcp = "ESTABLISHED"
          /\ sock' = [now EXCEPT ![c].parent = FALSE, ![c].priv = TRUE, ![c].open = TRUE]
          /\ lis' = OneLess(lis) /\ UNCHANGED <<missed, bad>>
    BY DEF Accept
  <1>2. Counted(sock, lis, missed) /\ missed \in Nat /\ lis \in LisType /\ sock \in [Socks -> SockType]
    BY CountedNow DEF ConnInv
  <1>3. Good(r) /\ Kept(sock[s], r)
    BY DEF Change
  <1>4. /\ now \in [Socks -> SockType] /\ now[s] = r /\ \A t \in Socks : t # s => now[t] = sock[t]
    BY <1>2, <1>3 DEF Good
  <1>5. \A t \in Socks : Good(now[t])
    BY <1>3, <1>4 DEF ConnInv
  <1> HIDE DEF now
  <1> DEFINE a == [now[c] EXCEPT !.parent = FALSE, !.priv = TRUE, !.open = TRUE]
  <1>6. sock' = [now EXCEPT ![c] = a]
    BY <1>1, <1>4
  <1>7. Good(a) /\ a.tree /\ ~a.parent /\ ~a.late
    BY <1>1, <1>5, AcceptedGood
  <1> HIDE DEF a
  <1>8. /\ sock' \in [Socks -> SockType] /\ sock'[c] = a /\ \A t \in Socks : t # c => sock'[t] = now[t]
    BY <1>4, <1>6, <1>7 DEF Good
  <1>9. \A t \in Socks : Good(sock'[t])
    BY <1>5, <1>7, <1>8
  <1>10. c \in PendingIn(sock) /\ PendingIn(sock') = PendingIn(sock) \ {c}
    <2>1. \A t \in Socks : (now[t].tree <=> sock[t].tree) /\ (now[t].parent <=> sock[t].parent)
      BY <1>3, <1>4 DEF Kept
    <2> QED BY <2>1, <1>1, <1>7, <1>8 DEF PendingIn
  <1>11. Cardinality(NewIn(sock')) <= missed
    <2> DEFINE u == NewIn(sock) \union {s}
    <2>1. IsFiniteSet(NewIn(sock)) /\ Cardinality(NewIn(sock)) \in Nat
      BY CountsFinite
    <2>2. IsFiniteSet(u) /\ Cardinality(u) \in Nat /\ Cardinality(u) <= Cardinality(NewIn(sock)) + 1
      BY AddedOne
    <2>3. c \in u /\ NewIn(sock') \subseteq u \ {c}
      <3>1. \A t \in Socks : t # s => sock[t] = now[t]
        BY <1>4
      <3> QED BY <3>1, <1>1, <1>7, <1>8 DEF NewIn
    <2> HIDE DEF u
    <2>4. IsFiniteSet(u \ {c}) /\ Cardinality(u \ {c}) = Cardinality(u) - 1
      BY <2>2, <2>3, FS_RemoveElement
    <2>5. Cardinality(NewIn(sock')) <= Cardinality(u \ {c}) /\ Cardinality(NewIn(sock')) \in Nat
      BY <2>3, <2>4, CountsFinite, FS_Subset
    <2>6. Cardinality(NewIn(sock)) <= missed
      BY <1>2 DEF Counted
    <2> QED BY <2>1, <2>2, <2>4, <2>5, <2>6, <1>2
  <1>12. NoneLate(sock') => NoneLate(sock)
    <2>1. \A t \in Socks : (now[t].late <=> sock[t].late) /\ (now[t].parent <=> sock[t].parent)
      BY <1>3, <1>4 DEF Kept
    <2>2. ~now[c].late
      BY <1>1, <1>5 DEF Good, InTree
    <2> QED BY <2>1, <2>2, <1>8 DEF NoneLate
  <1>13. Counted(sock', OneLess(lis), missed)
    BY <1>2, <1>10, <1>11, <1>12, CountLess
  <1>14. lis' \in LisType /\ missed' \in Nat /\ MemoryKept'
    BY <1>1, <1>2, OneLessIs, NotBad
  <1>15. Counted(sock', lis', missed')
    BY <1>1, <1>13
  <1> QED BY <1>8, <1>9, <1>14, <1>15, InvFrom

\* The listening socket is told of a connection.
LEMMA EvConnKeeps ==
    ASSUME ConnInv, bad = "no", NEW s \in Socks, NEW r, Change(sock[s], r), EvConn(s, r)
    PROVE  ConnInv'
  <1>1. CASE Accept(s, r)
    BY <1>1, AcceptKeeps
  <1>2. CASE sock' = [sock EXCEPT ![s] = r] /\ missed' = missed + 1 /\ UNCHANGED <<lis, bad>>
    <2>1. Counted(sock, lis, missed) /\ missed \in Nat /\ lis \in LisType /\ sock \in [Socks -> SockType]
      BY CountedNow DEF ConnInv
    <2>2. Good(r) /\ Kept(sock[s], r)
      BY DEF Change
    <2>3. sock' \in [Socks -> SockType] /\ \A t \in Socks : Good(sock'[t])
      BY <1>2, <2>2, OneGood
    <2>4. sock'[s] = r /\ \A t \in Socks : t # s => sock'[t] = sock[t]
      BY <1>2, <2>1
    <2>5. PendingIn(sock') = PendingIn(sock)
      BY <2>2, <2>4 DEF PendingIn, Kept
    <2>6. NewIn(sock') \subseteq NewIn(sock) \union {s}
      BY <2>4 DEF NewIn
    <2>7. NoneLate(sock') => NoneLate(sock)
      BY <2>2, <2>4 DEF NoneLate, Kept
    <2>8. Counted(sock', lis, missed + 1)
      BY <2>1, <2>5, <2>6, <2>7, CountMissed
    <2>9. MemoryKept' /\ lis' \in LisType /\ missed' \in Nat /\ Counted(sock', lis', missed')
      BY <1>2, <2>1, <2>8, NotBad
    <2> QED BY <2>3, <2>9, InvFrom
  <1>3. CASE bad' = "parent" /\ UNCHANGED <<sock, lis, missed>>
    <2>1. MemoryKept'
      BY <1>3, NotBad
    <2> QED BY <2>1, <1>3 DEF ConnInv, PendingExact, ConnsAccepted, Pending
  <1> QED BY <1>1, <1>2, <1>3 DEF EvConn

\* A segment arrives.
LEMMA DeliverKeeps == ASSUME ConnInv, bad = "no", NEW s \in Socks, Deliver(s) PROVE ConnInv'
  <1>1. Good(sock[s]) /\ sock[s].tree
    BY DEF ConnInv, Deliver
  <1>a. PICK f \in Segments : \E o \in pico_tcp_input(sock[s], f) :
            CASE o.then = "keep" -> Set(s, o.r) [] o.then = "del" -> pico_socket_del(s, o.r)
              [] o.then = "conn" -> EvConn(s, o.r)
    BY DEF Deliver
  <1>2. PICK o \in pico_tcp_input(sock[s], f) :
            CASE o.then = "keep" -> Set(s, o.r) [] o.then = "del" -> pico_socket_del(s, o.r)
              [] o.then = "conn" -> EvConn(s, o.r)
    BY <1>a
  <1>3. Comes(sock[s], o)
    BY <1>1, InputComes
  <1>4. CASE o.then = "keep"
    <2>1. Set(s, o.r) /\ Quiet(sock[s], o.r)
      BY <1>2, <1>3, <1>4 DEF Comes, Quiet
    <2> QED BY <2>1, SetQuiet
  <1>5. CASE o.then = "del"
    <2>1. pico_socket_del(s, o.r)
      BY <1>2, <1>5
    <2>2. Good(o.r) /\ Same(sock[s], o.r) /\ o.r.tree /\ (o.r.open => o.r.closure_ts)
      BY <1>3, <1>5 DEF Comes, Change, Kept, Same
    <2> QED BY <2>1, <2>2, DelKeeps
  <1>6. CASE o.then = "conn"
    <2>1. EvConn(s, o.r) /\ Change(sock[s], o.r)
      BY <1>2, <1>3, <1>6 DEF Comes
    <2> QED BY <2>1, EvConnKeeps
  <1> QED BY <1>3, <1>4, <1>5, <1>6 DEF Comes

-----------------------------------------------------------------------------
\* What timers and the application change of a socket, in the tree or not.
Touch(r, q) ==
    /\ q.kind = r.kind /\ q.tcp = r.tcp /\ q.gc = r.gc /\ q.fins = r.fins
    /\ (q.tree <=> r.tree) /\ (q.parent <=> r.parent) /\ (q.priv <=> r.priv)
    /\ (q.freed <=> r.freed) /\ (q.remote_closed <=> r.remote_closed)
    /\ (r.late => q.late) /\ (q.late => r.late \/ ~r.tree)
    /\ (q.open => r.open) /\ (q.initconn => r.initconn) /\ (q.fin => r.fin)
    /\ (r.closure_ts => q.closure_ts) /\ q.backoff >= r.backoff

\* Such a change keeps a good socket good.
LEMMA TouchGood ==
    ASSUME NEW r, Good(r), NEW q \in SockType, Touch(r, q)
    PROVE  Good(q) /\ Like(r, q) /\ Same(r, q)
  <1>1. InTree(q)
    BY DEF Touch, Good, InTree
  <1>2. Owned(q)
    BY DEF Touch, Good, Owned
  <1>3. CollectedOnce(q)
    BY DEF Touch, Good, CollectedOnce
  <1>4. FinsCounted(q)
    BY DEF Touch, Good, FinsCounted
  <1>5. ToldOfEnd(q)
    <2>1. r.backoff \in Nat /\ q.backoff \in Nat /\ Retries \in Nat
      BY ConnAssumption DEF Good, SockType
    <2>2. r.backoff > Retries => q.backoff > Retries
      BY <2>1 DEF Touch
    <2> QED BY <2>2 DEF Touch, Good, ToldOfEnd
  <1>6. Like(r, q)
    BY DEF Touch, Like
  <1>7. Same(r, q)
    BY DEF Touch, Same
  <1> QED BY <1>1, <1>2, <1>3, <1>4, <1>5, <1>6, <1>7 DEF Good

\* Two changes that count nothing.
LEMMA LikeTrans == ASSUME NEW r, NEW q, NEW p, Like(r, q), Like(q, p) PROVE Like(r, p)
  BY DEF Like

\* The retry of a connect.
LEMMA RetryKeeps == ASSUME ConnInv, bad = "no", NEW s \in Socks, initconn_retry(s) PROVE ConnInv'
  <1> DEFINE o == sock[s]
             r == [o EXCEPT !.initconn = FALSE]
             q == [r EXCEPT !.backoff = r.backoff + 1, !.initconn = TRUE]
  <1>1. Good(o) /\ o \in SockType /\ o.initconn
    BY DEF ConnInv, Good, initconn_retry
  <1>2. \/ Set(s, r)
        \/ r.backoff > Retries /\ pico_socket_del(s, r)
        \/ Set(s, q)
    BY DEF initconn_retry
  <1> HIDE DEF o
  <1>3. r \in SockType
    BY <1>1 DEF SockType
  <1>4. Touch(o, r)
    BY <1>1 DEF SockType, Touch
  <1>5. Good(r) /\ Like(o, r) /\ Same(o, r)
    BY <1>1, <1>3, <1>4, TouchGood
  <1>6. r.kind = "client" /\ r.fins = 0
    BY <1>1, <1>4 DEF Touch, Good, Owned
  <1> HIDE DEF r
  <1>7. r.backoff \in Nat /\ r.backoff + 1 \in Nat /\ r.backoff + 1 >= r.backoff
    BY <1>3 DEF SockType
  <1>8. q \in SockType
    BY <1>3, <1>7 DEF SockType
  <1>9. /\ q.kind = r.kind /\ q.tcp = r.tcp /\ q.gc = r.gc /\ q.fins = r.fins
        /\ (q.tree <=> r.tree) /\ (q.parent <=> r.parent) /\ (q.priv <=> r.priv)
        /\ (q.freed <=> r.freed) /\ (q.remote_closed <=> r.remote_closed)
    BY <1>3, <1>7 DEF SockType
  <1>10. /\ (q.late <=> r.late) /\ (q.open <=> r.open) /\ (q.fin <=> r.fin)
         /\ (q.closure_ts <=> r.closure_ts) /\ q.backoff = r.backoff + 1
    BY <1>3, <1>7 DEF SockType
  <1>11. Touch(o, q)
    <2>1. o.backoff = r.backoff
      BY <1>1 DEF r, SockType
    <2>2. q.backoff >= o.backoff
      BY <2>1, <1>7, <1>10
    <2> HIDE DEF q
    <2> QED BY <2>2, <1>1, <1>4, <1>9, <1>10 DEF Touch
  <1>12. Good(q) /\ Like(o, q)
    BY <1>1, <1>8, <1>11, TouchGood
  <1> HIDE DEF q
  <1>13. CASE Set(s, r)
    BY <1>5, <1>13, SetOnly DEF o
  <1>14. CASE r.backoff > Retries /\ pico_socket_del(s, r)
    BY <1>5, <1>6, <1>14, DelKeeps DEF o
  <1>15. CASE Set(s, q)
    BY <1>12, <1>15, SetOnly DEF o
  <1> QED BY <1>2, <1>13, <1>14, <1>15

\* The retransmission timer.
LEMMA RetransKeeps == ASSUME ConnInv, bad = "no", NEW s \in Socks, tcp_retrans_timeout(s) PROVE ConnInv'
  <1> DEFINE o == sock[s]
             r == [o EXCEPT !.rtx = FALSE]
             q == [r EXCEPT !.backoff = r.backoff + 1, !.rtx = TRUE]
             e == EvFin(r)
             d == [e EXCEPT !.unsent = FALSE]
  <1>1. Good(o) /\ o \in SockType
    BY DEF ConnInv, Good
  <1>2. \/ Set(s, q)
        \/ r.tcp = "ESTABLISHED" /\ pico_socket_del(s, d)
        \/ Set(s, r)
    BY DEF tcp_retrans_timeout
  <1> HIDE DEF o
  <1>3. r \in SockType
    BY <1>1 DEF SockType
  <1>4. Touch(o, r)
    BY <1>1 DEF SockType, Touch
  <1>5. Good(r) /\ Like(o, r) /\ Same(o, r)
    BY <1>1, <1>3, <1>4, TouchGood
  <1> HIDE DEF r
  <1>6. CASE Set(s, r)
    BY <1>5, <1>6, SetOnly DEF o
  <1>7. CASE Set(s, q)
    <2>1. r.backoff \in Nat /\ r.backoff + 1 \in Nat /\ r.backoff + 1 >= r.backoff
      BY <1>3 DEF SockType
    <2>2. q \in SockType
      BY <1>3, <2>1 DEF SockType
    <2>3. /\ q.kind = r.kind /\ q.tcp = r.tcp /\ q.gc = r.gc /\ q.fins = r.fins
          /\ (q.tree <=> r.tree) /\ (q.parent <=> r.parent) /\ (q.priv <=> r.priv)
          /\ (q.freed <=> r.freed) /\ (q.remote_closed <=> r.remote_closed)
      BY <1>3, <2>1 DEF SockType
    <2>4. /\ (q.late <=> r.late) /\ (q.open <=> r.open) /\ (q.fin <=> r.fin)
          /\ (q.initconn <=> r.initconn)
          /\ (q.closure_ts <=> r.closure_ts) /\ q.backoff = r.backoff + 1
      BY <1>3, <2>1 DEF SockType
    <2> HIDE DEF q
    <2>5. q.backoff >= r.backoff
      BY <2>1, <2>4
    <2>6. Touch(r, q)
      BY <2>3, <2>4, <2>5 DEF Touch
    <2>7. Good(q) /\ Like(r, q)
      BY <1>5, <2>2, <2>6, TouchGood
    <2>8. Like(o, q)
      BY <1>5, <2>7, LikeTrans
    <2> QED BY <1>7, <2>7, <2>8, SetOnly DEF o
  <1>8. CASE r.tcp = "ESTABLISHED" /\ pico_socket_del(s, d)
    <2>1. r.tree
      BY <1>5, <1>8 DEF Good, InTree
    <2>2. Quiet(r, e)
      BY <1>5, <2>1, FinToldQuiet
    <2>3. r.open => e.closure_ts
      BY <1>5, FinTold
    <2> HIDE DEF e
    <2>4. Good(e) /\ e.tree /\ e \in SockType /\ Kept(r, e)
      BY <2>2 DEF Quiet, Change, Good
    <2>5. d \in SockType
      BY <2>4 DEF SockType
    <2>6. Touch(e, d) /\ (d.closure_ts <=> e.closure_ts)
      BY <2>4 DEF SockType, Touch
    <2>7. Good(d) /\ Same(e, d)
      BY <2>4, <2>5, <2>6, TouchGood
    <2> HIDE DEF d
    <2>8. Same(o, d) /\ d.tree /\ (d.open => d.closure_ts)
      BY <1>5, <2>3, <2>4, <2>6, <2>7 DEF Same, Kept, Touch
    <2> QED BY <1>8, <2>7, <2>8, DelKeeps DEF o
  <1> QED BY <1>2, <1>6, <1>7, <1>8

\* The linger timer: tcp_deltcb, on a socket in the tree or already deleted.
LEMMA LingerKeeps == ASSUME ConnInv, bad = "no", NEW s \in Socks, tcp_deltcb(s) PROVE ConnInv'
  <1> DEFINE o == sock[s]
             e == EvFin(o)
             q == [e EXCEPT !.fin = FALSE, !.late = e.late \/ ~o.tree]
  <1>1. Good(o) /\ o \in SockType /\ o.fin
    BY DEF ConnInv, Good, tcp_deltcb
  <1>2. pico_socket_del(s, q)
    BY DEF tcp_deltcb
  <1>3. e = [o EXCEPT !.closure_ts = o.closure_ts \/ o.priv]
    BY DEF EvFin
  <1>4. o.open => e.closure_ts
    BY <1>1, FinTold
  <1> HIDE DEF o, e
  <1>5. e \in SockType
    BY <1>1, <1>3 DEF SockType
  <1>6. Touch(o, e)
    BY <1>1, <1>3 DEF SockType, Touch
  <1>7. Good(e) /\ Same(o, e)
    BY <1>1, <1>5, <1>6, TouchGood
  <1>8. q \in SockType
    <2>1. (e.late \/ ~o.tree) \in BOOLEAN
      OBVIOUS
    <2> QED BY <2>1, <1>5 DEF SockType
  <1>9. (q.late <=> e.late \/ ~o.tree) /\ ~q.fin
    BY <1>5 DEF SockType
  <1>10. /\ q.kind = e.kind /\ q.tcp = e.tcp /\ q.gc = e.gc /\ q.fins = e.fins
         /\ q.backoff = e.backoff /\ e.backoff \in Nat
    BY <1>5 DEF SockType
  <1>11. /\ (q.tree <=> e.tree) /\ (q.parent <=> e.parent) /\ (q.priv <=> e.priv)
         /\ (q.freed <=> e.freed) /\ (q.remote_closed <=> e.remote_closed)
    BY <1>5 DEF SockType
  <1>12. (q.open <=> e.open) /\ (q.initconn <=> e.initconn) /\ (q.closure_ts <=> e.closure_ts)
    BY <1>5 DEF SockType
  <1> HIDE DEF q
  <1>13. Touch(e, q)
    <2>1. e.tree <=> o.tree
      BY <1>6 DEF Touch
    <2>2. q.backoff >= e.backoff
      BY <1>10
    <2> QED BY <2>1, <2>2, <1>9, <1>10, <1>11, <1>12 DEF Touch
  <1>14. Good(q) /\ Same(e, q)
    BY <1>7, <1>8, <1>13, TouchGood
  <1>15. Same(o, q)
    BY <1>7, <1>14 DEF Same
  <1>16. q.open => q.closure_ts
    BY <1>4, <1>6, <1>12 DEF Touch
  <1>17. q.tree \/ (q.kind = "child" /\ q.late) \/ q.kind = "client"
    <2>1. o.kind \in {"child", "client"}
      BY <1>1 DEF Good, Owned, SockType
    <2>2. q.tree \/ q.late
      BY <1>9, <1>15 DEF Same
    <2> QED BY <2>1, <2>2, <1>15 DEF Same
  <1> QED BY <1>2, <1>14, <1>15, <1>16, <1>17, DelKeeps DEF o

\* The memory goes.  A second collection finds it gone only after a late tcp_deltcb.
LEMMA CollectKeeps == ASSUME ConnInv, bad = "no", NEW s \in Socks, socket_garbage_collect(s) PROVE ConnInv'
  <1> DEFINE o == sock[s]
             q == [o EXCEPT !.gc = o.gc - 1, !.freed = TRUE, !.initconn = FALSE, !.rtx = FALSE,
                            !.fin = FALSE]
  <1>1. Good(o) /\ o \in SockType /\ o.gc > 0 /\ o.gc \in Nat
    BY DEF ConnInv, Good, SockType, socket_garbage_collect
  <1>2. CASE o.freed
    <2>1. bad' = "free" /\ UNCHANGED <<sock, lis, missed>>
      BY <1>2 DEF socket_garbage_collect
    <2>2. o.kind = "child" /\ o.late
      BY <1>1, <1>2 DEF Good, CollectedOnce
    <2>3. MemoryKept'
      BY <2>1, <2>2 DEF MemoryKept
    <2> QED BY <2>1, <2>3 DEF ConnInv, PendingExact, ConnsAccepted, Pending
  <1>3. CASE ~o.freed
    <2>1. Set(s, q)
      BY <1>3 DEF socket_garbage_collect
    <2> HIDE DEF o
    <2>2. q \in SockType
      <3> DEFINE p == [o EXCEPT !.gc = o.gc - 1, !.freed = TRUE]
      <3>1. o.gc - 1 \in Nat
        BY <1>1
      <3>2. p \in SockType
        BY <1>1, <3>1 DEF SockType
      <3>3. q = [p EXCEPT !.initconn = FALSE, !.rtx = FALSE, !.fin = FALSE]
        BY <1>1 DEF SockType
      <3> HIDE DEF p, q
      <3> QED BY <3>2, <3>3 DEF SockType
    <2>3. /\ q.kind = o.kind /\ q.tcp = o.tcp /\ q.fins = o.fins /\ q.backoff = o.backoff
          /\ q.gc = o.gc - 1 /\ q.freed /\ ~q.initconn /\ ~q.fin
      BY <1>1 DEF SockType
    <2>4. /\ (q.tree <=> o.tree) /\ (q.parent <=> o.parent) /\ (q.priv <=> o.priv)
          /\ (q.late <=> o.late) /\ (q.open <=> o.open) /\ (q.closure_ts <=> o.closure_ts)
          /\ (q.remote_closed <=> o.remote_closed)
      BY <1>1 DEF SockType
    <2> HIDE DEF q
    <2>5. ~o.tree
      BY <1>1 DEF Good, InTree
    <2>6. InTree(q)
      BY <1>1, <2>3, <2>4, <2>5 DEF Good, InTree
    <2>7. Owned(q)
      BY <1>1, <2>3, <2>4 DEF Good, Owned
    <2>8. CollectedOnce(q)
      BY <1>1, <1>3, <2>3, <2>4 DEF Good, CollectedOnce
    <2>9. FinsCounted(q)
      BY <1>1, <2>3, <2>4 DEF Good, FinsCounted
    <2>10. ToldOfEnd(q)
      BY <1>1, <2>3, <2>4 DEF Good, ToldOfEnd
    <2>11. Good(q) /\ Like(o, q)
      BY <2>2, <2>3, <2>4, <2>6, <2>7, <2>8, <2>9, <2>10 DEF Good, Like
    <2> QED BY <2>1, <2>11, SetOnly DEF o
  <1> QED BY <1>2, <1>3

\* The application closes.  A freed socket it was not told of timed out on connect.
LEMMA CloseKeeps == ASSUME ConnInv, bad = "no", NEW s \in Socks, pico_Close(s) PROVE ConnInv'
  <1> DEFINE o == sock[s]
             r == [o EXCEPT !.open = FALSE]
             q == IF r.closure_ts THEN r ELSE pico_socket_close(r)
  <1>1. Good(o) /\ o \in SockType /\ o.open
    BY DEF ConnInv, Good, pico_Close
  <1>2. /\ sock' = [sock EXCEPT ![s] = q] /\ UNCHANGED <<lis, missed>>
        /\ bad' = IF ~r.closure_ts /\ r.freed THEN "close" ELSE bad
    BY DEF pico_Close
  <1>3. o = sock[s] /\ sock \in [Socks -> SockType]
    BY DEF ConnInv
  <1> HIDE DEF o
  <1>4. r \in SockType
    BY <1>1 DEF SockType
  <1>5. Touch(o, r) /\ r.backoff = o.backoff /\ (r.closure_ts <=> o.closure_ts)
    BY <1>1 DEF SockType, Touch
  <1>6. Good(r) /\ Like(o, r)
    BY <1>1, <1>4, <1>5, TouchGood
  <1> HIDE DEF r
  <1>7. Good(q) /\ Like(o, q) /\ (q = r \/ r.tree)
    <2>1. CASE q = r
      BY <2>1, <1>6
    <2>2. CASE q # r
      <3>1. q = pico_socket_close(r) /\ r.tree
        BY <2>2 DEF pico_socket_close
      <3>2. Quiet(r, pico_socket_close(r))
        BY <1>6, <3>1, CloseQuiet
      <3>3. Good(q) /\ Like(r, q)
        BY <3>1, <3>2, QuietLike DEF Quiet, Change
      <3> QED BY <1>6, <3>1, <3>3, LikeTrans
    <2> QED BY <2>1, <2>2
  <1> HIDE DEF q
  <1>8. MemoryKept'
    <2>1. CASE ~r.closure_ts /\ r.freed
      <3>1. ~r.tree
        BY <2>1, <1>6 DEF Good, InTree
      <3>2. o.kind = "client" /\ o.fins = 0 /\ o.backoff > Retries
        <4>1. ~o.tree /\ ~o.closure_ts
          BY <2>1, <3>1, <1>5 DEF Touch
        <4> QED BY <4>1, <1>1 DEF Good, ToldOfEnd
      <3>3. sock'[s] = r
        BY <1>2, <1>3, <1>7, <3>1
      <3>4. sock'[s].kind = "client" /\ sock'[s].fins = 0 /\ sock'[s].backoff > Retries
        BY <3>2, <3>3, <1>5 DEF Touch
      <3> QED BY <1>2, <2>1, <3>4 DEF MemoryKept
    <2>2. CASE ~(~r.closure_ts /\ r.freed)
      BY <1>2, <2>2, NotBad
    <2> QED BY <2>1, <2>2
  <1> QED BY <1>2, <1>3, <1>7, <1>8, SetKeeps

\* libzt's callback reads, and closes the socket if the peer's FIN had waited.
LEMMA ReadKeeps == ASSUME ConnInv, bad = "no", NEW s \in Socks, pico_tcp_read(s) PROVE ConnInv'
  <1> DEFINE o == sock[s]
  <1>1. Good(o) /\ o.tree /\ o \in SockType
    BY DEF ConnInv, Good, pico_tcp_read
  <1>2. PICK left \in BOOLEAN :
          Set(s, IF o.remote_closed THEN EvClose([o EXCEPT !.unread = left, !.tcp = "CLOSE_WAIT"])
                 ELSE [o EXCEPT !.unread = left])
    BY DEF pico_tcp_read
  <1> DEFINE u == [o EXCEPT !.unread = left]
             w == [u EXCEPT !.tcp = "CLOSE_WAIT"]
  <1>3. [o EXCEPT !.unread = left, !.tcp = "CLOSE_WAIT"] = w
    OBVIOUS
  <1> HIDE DEF o
  <1>4. Quiet(o, u)
    BY <1>1, UnreadQuiet
  <1>5. Good(u) /\ u.tree /\ (u.remote_closed <=> o.remote_closed)
    BY <1>1, <1>4 DEF Quiet, Change, SockType
  <1>6. CASE ~o.remote_closed
    <2>1. Set(s, u)
      BY <1>2, <1>6
    <2> QED BY <1>4, <2>1, SetQuiet DEF o
  <1>7. CASE o.remote_closed
    <2>1. Set(s, EvClose(w))
      BY <1>2, <1>3, <1>7
    <2> HIDE DEF u
    <2>2. u.tcp # "SYN_SENT"
      BY <1>5, <1>7 DEF Good, Owned
    <2>3. Quiet(u, w)
      BY <1>5, <1>7, <2>2, MoveQuiet
    <2> HIDE DEF w
    <2>4. Good(w) /\ w.tree
      BY <2>3 DEF Quiet, Change
    <2>5. Quiet(w, EvClose(w))
      BY <2>4, EvCloseQuiet
    <2>6. Quiet(o, EvClose(w))
      BY <1>4, <2>3, <2>5, QuietTrans
    <2> QED BY <2>1, <2>6, SetQuiet DEF o
  <1> QED BY <1>6, <1>7

\* Data is written, a FIN is sent by the loop, a handshake takes too long.
LEMMA OthersKeep ==
    ASSUME ConnInv, bad = "no", NEW s \in Socks, Write(s) \/ SocketsLoop(s) \/ SanityFails(s)
    PROVE  ConnInv'
  <1>1. Good(sock[s]) /\ sock[s].tree
    BY DEF ConnInv, Write, SocketsLoop, SanityFails
  <1>2. CASE Write(s)
    <2>1. PICK armed \in BOOLEAN : Set(s, [sock[s] EXCEPT !.unsent = TRUE, !.rtx = armed])
      BY <1>2 DEF Write
    <2>2. Quiet(sock[s], [sock[s] EXCEPT !.unsent = TRUE, !.rtx = armed])
      BY <1>1, WrittenQuiet
    <2> QED BY <2>1, <2>2, SetQuiet
  <1>3. CASE SocketsLoop(s)
    <2>1. Set(s, CheckClosing(sock[s])) /\ Quiet(sock[s], CheckClosing(sock[s]))
      BY <1>1, <1>3, CheckClosingQuiet DEF SocketsLoop
    <2> QED BY <2>1, SetQuiet
  <1>4. CASE SanityFails(s)
    <2>1. pico_socket_del(s, sock[s]) /\ ~sock[s].open /\ Same(sock[s], sock[s])
      BY <1>1, <1>4 DEF SanityFails, Good, Owned, Same
    <2> QED BY <1>1, <2>1, DelKeeps
  <1> QED BY <1>2, <1>3, <1>4

\* A socket that does not exist yet.
LEMMA NoSockGood == Good(NoSock) /\ ~NoSock.tree
  <1>1. NoSock \in SockType
    BY DEF NoSock, SockType
  <1>2. InTree(NoSock) /\ ~NoSock.tree
    BY DEF NoSock, InTree
  <1>3. Owned(NoSock)
    BY DEF NoSock, Owned
  <1>4. CollectedOnce(NoSock)
    BY DEF NoSock, CollectedOnce
  <1>5. FinsCounted(NoSock)
    BY DEF NoSock, FinsCounted
  <1>6. ToldOfEnd(NoSock)
    BY DEF NoSock, ToldOfEnd
  <1> QED BY <1>1, <1>2, <1>3, <1>4, <1>5, <1>6 DEF Good

\* A new socket.
LEMMA NewFields ==
    ASSUME NEW s, NEW k \in {"child", "client"}, NEW t \in {"SYN_SENT", "SYN_RECV"},
           NEW n, n = NewSock(s, k, t)
    PROVE  /\ n \in SockType /\ n.kind = k /\ n.tcp = t /\ n.tree /\ n.gc = 0 /\ n.fins = 0
           /\ ~n.late /\ ~n.freed /\ ~n.remote_closed /\ ~n.parent /\ ~n.open /\ ~n.initconn
  <1> DEFINE z == NoSock
             y == [z EXCEPT !.kind = k, !.tcp = t]
             d == s \in Talkers
  <1>1. n = [y EXCEPT !.tree = TRUE, !.data = d] /\ d \in BOOLEAN
    BY DEF NewSock
  <1>2. z \in SockType
    BY NoSockGood DEF Good
  <1>3. z.gc = 0 /\ z.fins = 0 /\ ~z.late /\ ~z.freed /\ ~z.remote_closed /\ ~z.parent /\ ~z.open
        /\ ~z.initconn
    BY DEF NoSock
  <1> HIDE DEF z, d
  <1>4. y \in SockType
    <2>1. t \in TcpStates \union {"UNDEF"} /\ k \in {"none", "child", "client"}
      BY DEF TcpStates
    <2> QED BY <2>1, <1>2 DEF SockType
  <1>5. /\ y.kind = k /\ y.tcp = t /\ y.gc = 0 /\ y.fins = 0 /\ ~y.late /\ ~y.freed
        /\ ~y.remote_closed /\ ~y.parent /\ ~y.open /\ ~y.initconn
    BY <1>2, <1>3 DEF SockType
  <1> HIDE DEF y
  <1> QED BY <1>1, <1>4, <1>5 DEF SockType

\* What a connecting or a child socket begins with.
LEMMA BegunGood ==
    ASSUME NEW q \in SockType, q.tree, ~q.late, ~q.freed, q.gc = 0, ~q.remote_closed, q.fins = 0,
           \/ /\ q.kind = "client" /\ q.tcp = "SYN_SENT" /\ ~q.parent /\ q.priv
           \/ /\ q.kind = "child" /\ q.tcp = "SYN_RECV" /\ ~q.open /\ ~q.initconn
    PROVE  Good(q)
  <1>1. InTree(q)
    BY DEF InTree
  <1>2. Owned(q)
    BY DEF Owned
  <1>3. CollectedOnce(q)
    BY DEF CollectedOnce
  <1>4. FinsCounted(q)
    BY DEF FinsCounted
  <1>5. ToldOfEnd(q)
    BY DEF ToldOfEnd
  <1> QED BY <1>1, <1>2, <1>3, <1>4, <1>5 DEF Good

\* pico_socket_connect.
LEMMA ConnectKeeps == ASSUME ConnInv, bad = "no", NEW s \in Socks, pico_socket_connect(s) PROVE ConnInv'
  <1> DEFINE n == NewSock(s, "client", "SYN_SENT")
             q == [n EXCEPT !.priv = TRUE, !.open = TRUE, !.initconn = TRUE]
  <1>1. Set(s, q) /\ Good(sock[s]) /\ sock[s].kind = "none"
    BY DEF ConnInv, pico_socket_connect
  <1>2. n \in SockType
    BY NewFields
  <1>3. /\ n.tree /\ ~n.late /\ ~n.freed /\ n.gc = 0 /\ ~n.remote_closed /\ n.fins = 0
        /\ n.kind = "client" /\ n.tcp = "SYN_SENT" /\ ~n.parent
    BY NewFields
  <1> HIDE DEF n
  <1>4. q \in SockType
    BY <1>2 DEF SockType
  <1>5. /\ q.tree /\ ~q.late /\ ~q.freed /\ q.gc = 0 /\ ~q.remote_closed /\ q.fins = 0
        /\ q.kind = "client" /\ q.tcp = "SYN_SENT" /\ ~q.parent /\ q.priv
    BY <1>2, <1>3 DEF SockType
  <1> HIDE DEF q
  <1>6. Good(q)
    BY <1>4, <1>5, BegunGood
  <1>7. Like(sock[s], q)
    BY <1>1, <1>5 DEF Good, InTree, Owned, Like
  <1> QED BY <1>1, <1>6, <1>7, SetOnly

\* A SYN for the listening socket, while the backlog allows it.
LEMMA SynKeeps == ASSUME ConnInv, bad = "no", NEW s \in Socks, tcp_syn(s) PROVE ConnInv'
  <1> DEFINE n == NewSock(s, "child", "SYN_RECV")
             q == [n EXCEPT !.parent = TRUE]
  <1>1. /\ sock' = [sock EXCEPT ![s] = q] /\ lis' = [lis EXCEPT !.number_of_pending_conn = @ + 1]
        /\ UNCHANGED <<missed, bad>> /\ lis.number_of_pending_conn < lis.max_backlog
        /\ Good(sock[s]) /\ sock[s].kind = "none"
    BY DEF ConnInv, tcp_syn
  <1>2. n \in SockType
    BY NewFields
  <1>3. /\ n.tree /\ ~n.late /\ ~n.freed /\ n.gc = 0 /\ ~n.remote_closed /\ n.fins = 0
        /\ n.kind = "child" /\ n.tcp = "SYN_RECV" /\ ~n.open /\ ~n.initconn
    BY NewFields
  <1> HIDE DEF n
  <1>4. q \in SockType
    BY <1>2 DEF SockType
  <1>5. /\ q.tree /\ ~q.late /\ ~q.freed /\ q.gc = 0 /\ ~q.remote_closed /\ q.fins = 0
        /\ q.kind = "child" /\ q.tcp = "SYN_RECV" /\ ~q.open /\ ~q.initconn /\ q.parent
    BY <1>2, <1>3 DEF SockType
  <1> HIDE DEF q
  <1>6. Good(q)
    BY <1>4, <1>5, BegunGood
  <1>7. Counted(sock, lis, missed) /\ missed \in Nat /\ lis \in LisType /\ sock \in [Socks -> SockType]
    BY CountedNow DEF ConnInv
  <1>8. sock' \in [Socks -> SockType] /\ \A t \in Socks : Good(sock'[t])
    BY <1>1, <1>6, OneGood
  <1>9. sock'[s] = q /\ \A t \in Socks : t # s => sock'[t] = sock[t]
    BY <1>1, <1>7
  <1>10. ~sock[s].tree /\ ~sock[s].parent
    BY <1>1 DEF Good, InTree, Owned
  <1>11. s \notin PendingIn(sock) /\ PendingIn(sock') = PendingIn(sock) \union {s}
    BY <1>5, <1>9, <1>10 DEF PendingIn
  <1>12. NewIn(sock') \subseteq NewIn(sock)
    BY <1>5, <1>9 DEF NewIn
  <1>13. NoneLate(sock') => NoneLate(sock)
    BY <1>9, <1>10 DEF NoneLate
  <1>14. Counted(sock', [lis EXCEPT !.number_of_pending_conn = @ + 1], missed)
    BY <1>1, <1>7, <1>11, <1>12, <1>13, CountMore
  <1>15. Counted(sock', lis', missed') /\ missed' \in Nat
    BY <1>1, <1>7, <1>14
  <1>16. lis' \in LisType
    BY <1>1, <1>7 DEF LisType
  <1>17. MemoryKept'
    BY <1>1, NotBad
  <1> QED BY <1>8, <1>15, <1>16, <1>17, InvFrom

\* The listening socket's own steps, and the peers'.
LEMMA ListenerKeeps ==
    ASSUME ConnInv, bad = "no", pico_Listen \/ CloseListener \/ CollectListener \/ FallSilent
    PROVE  ConnInv'
  <1>1. Counted(sock, lis, missed) /\ missed \in Nat /\ lis \in LisType /\ sock \in [Socks -> SockType]
        /\ \A s \in Socks : Good(sock[s])
    BY CountedNow DEF ConnInv
  <1>2. UNCHANGED <<sock, missed, bad>>
    BY DEF pico_Listen, CloseListener, CollectListener, FallSilent
  <1>3. /\ lis' \in LisType /\ lis'.number_of_pending_conn = lis.number_of_pending_conn
        /\ lis'.max_backlog = lis.max_backlog
    BY <1>1 DEF pico_Listen, CloseListener, CollectListener, FallSilent, LisType
  <1>4. Counted(sock', lis', missed')
    BY <1>1, <1>2, <1>3 DEF Counted
  <1>5. MemoryKept'
    BY <1>2, NotBad
  <1> QED BY <1>1, <1>2, <1>3, <1>4, <1>5, InvFrom

-----------------------------------------------------------------------------
\* The invariant holds at first ...
LEMMA ConnBegins == Init => ConnInv
  <1> SUFFICES ASSUME Init PROVE ConnInv
    OBVIOUS
  <1>1. \A s \in Socks : sock[s] = NoSock
    BY DEF Init
  <1>2. sock \in [Socks -> SockType] /\ \A s \in Socks : Good(sock[s])
    BY <1>1, NoSockGood DEF Init, Good
  <1>3. lis \in LisType /\ lis.number_of_pending_conn = 0 /\ lis.max_backlog \in Nat /\ missed = 0
    <2>1. PICK b \in Backlogs : lis = [state |-> "listen", listening |-> FALSE,
                                      number_of_pending_conn |-> 0, max_backlog |-> b]
      BY DEF Init
    <2>2. b \in Nat /\ 0 \in Int
      BY ConnAssumption
    <2> QED BY <2>1, <2>2 DEF Init, LisType
  <1>4. PendingIn(sock) = {} /\ NewIn(sock) = {}
    BY <1>1, NoSockGood DEF PendingIn, NewIn
  <1>5. Counted(sock, lis, missed)
    BY <1>3, <1>4, FS_EmptySet DEF Counted
  <1>6. MemoryKept
    BY DEF Init, MemoryKept
  <1> QED BY <1>2, <1>3, <1>5, <1>6, CountedNow DEF ConnInv

\* ... and every step keeps it.
LEMMA ConnStep == ConnInv /\ [Next]_vars => ConnInv'
  <1> SUFFICES ASSUME ConnInv, [Next]_vars PROVE ConnInv'
    OBVIOUS
  <1>1. CASE UNCHANGED vars
    BY <1>1 DEF vars, ConnInv, PendingExact, ConnsAccepted, MemoryKept, Pending
  <1>2. CASE Next
    <2>1. bad = "no"
      BY <1>2 DEF Next
    <2>2. ASSUME NEW s \in Socks, Deliver(s) PROVE ConnInv'
      BY <2>1, <2>2, DeliverKeeps
    <2>3. ASSUME NEW s \in Socks, tcp_syn(s) PROVE ConnInv'
      BY <2>1, <2>3, SynKeeps
    <2>4. ASSUME NEW s \in Socks, pico_socket_connect(s) PROVE ConnInv'
      BY <2>1, <2>4, ConnectKeeps
    <2>5. ASSUME NEW s \in Socks, Write(s) \/ SocketsLoop(s) \/ SanityFails(s) PROVE ConnInv'
      BY <2>1, <2>5, OthersKeep
    <2>6. ASSUME NEW s \in Socks, pico_tcp_read(s) PROVE ConnInv'
      BY <2>1, <2>6, ReadKeeps
    <2>7. ASSUME NEW s \in Socks, pico_Close(s) PROVE ConnInv'
      BY <2>1, <2>7, CloseKeeps
    <2>8. ASSUME NEW s \in Socks, initconn_retry(s) PROVE ConnInv'
      BY <2>1, <2>8, RetryKeeps
    <2>9. ASSUME NEW s \in Socks, tcp_retrans_timeout(s) PROVE ConnInv'
      BY <2>1, <2>9, RetransKeeps
    <2>10. ASSUME NEW s \in Socks, tcp_deltcb(s) PROVE ConnInv'
      BY <2>1, <2>10, LingerKeeps
    <2>11. ASSUME NEW s \in Socks, socket_garbage_collect(s) PROVE ConnInv'
      BY <2>1, <2>11, CollectKeeps
    <2>12. ASSUME pico_Listen \/ CloseListener \/ CollectListener \/ FallSilent PROVE ConnInv'
      BY <2>1, <2>12, ListenerKeeps
    <2> QED BY <1>2, <2>2, <2>3, <2>4, <2>5, <2>6, <2>7, <2>8, <2>9, <2>10, <2>11, <2>12
           DEF Next, Stack
  <1> QED BY <1>1, <1>2

\* It holds always.
LEMMA ConnSafe == Spec => []ConnInv
  BY ConnBegins, ConnStep, PTL DEF Spec

\* The counter of the listening socket is the number of connections nobody has
\* accepted, and within the backlog, unless a linger timer fired on a deleted socket:
\* for every number of sockets, every backlog and every order of segments and timers.
THEOREM ConnPending == Spec => []PendingExact
  <1>1. ConnInv => PendingExact
    BY DEF ConnInv
  <1> QED BY <1>1, ConnSafe, PTL

\* The established connections that libzt has not accepted are at most those reported
\* while it was not listening, although pico_socket_accept may take another one than
\* the one that was reported.
THEOREM ConnAccepted == Spec => []ConnsAccepted
  <1>1. ConnInv => ConnsAccepted
    BY DEF ConnInv
  <1> QED BY <1>1, ConnSafe, PTL

\* Freed memory is freed again only after tcp_deltcb of a deleted socket, and closed by
\* the application only after a connect that timed out.
THEOREM ConnMemory == Spec => []MemoryKept
  <1>1. ConnInv => MemoryKept
    BY DEF ConnInv
  <1> QED BY <1>1, ConnSafe, PTL

\* A second FIN is sent only for a socket whose peer's FIN came while data was unread.
THEOREM ConnFinOnce == Spec => []FinOnce
  <1>1. ConnInv => FinOnce
    BY DEF ConnInv, Good, FinsCounted, FinOnce
  <1> QED BY <1>1, ConnSafe, PTL
=============================================================================
