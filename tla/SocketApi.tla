----------------------------- MODULE SocketApi -----------------------------
(***************************************************************************)
(* The socket multiplexer of src/libzt.cpp in the picoTCP build: what the   *)
(* calls of several application threads, and the stack's callbacks in the   *)
(* tap's thread, do to the two descriptor maps, to the Connection objects   *)
(* and to _multiplexer_lock.  A Connection and the app_fd made with it have *)
(* the same number.  One joined network (one tap); stream sockets.          *)
(*                                                                         *)
(* A call is entered, waits for _multiplexer_lock where the code locks it,  *)
(* and runs to its end or to the next point where another thread can see it *)
(* half done.  Undefined behaviour that uses an unset or null pointer is    *)
(* modelled as the end of the process.                                      *)
(***************************************************************************)
EXTENDS Integers, Sequences, FiniteSets

CONSTANTS
    Threads,    \* the application's threads
    NoOne,      \* holder of a free lock
    Apps,       \* the applications considered, see AppType
    MaxConns    \* bound: Connection objects made by any of them

States == {"NONE", "UNHANDLED_CONNECTED", "CONNECTED", "LISTENING", "ECONNRESET"}

Calls ==
    {"socket", "raw", "connect", "bind", "listen", "accept", "close", "shutdown",
     "get_pico_socket", "nsockets"}

\* An application: the calls it makes, how many of its threads are in a call at a
\* time, whether pico_ntimers() can reach PICO_MAX_TIMERS while it runs, the values
\* an uninitialized Connection::state has in it, and two bounds: the Connections
\* made, and the entries of tap->_Connections when zts_bind adds one.
AppType(app) ==
    /\ app.calls \subseteq Calls
    /\ app.unset \subseteq States /\ app.unset # {} /\ app.timersRunOut \in BOOLEAN
    /\ app.conns \in 0 .. MaxConns /\ {app.threads, app.tap} \subseteq Nat

ASSUME ApiAssumption ==
    /\ NoOne \notin Threads /\ MaxConns \in Nat
    /\ \A app \in Apps : AppType(app)

VARIABLES
    app,        \* the application
    lock,       \* _multiplexer_lock: its holder
    unmap,      \* unassigned descriptors: "absent", "null" or "conn"
    fdmap,      \* assigned ones: "absent", "null", or a pair: "conn" of the
                \* Connection and the tap, "notap" of it and no tap, "void" of
                \* no Connection
    conn,       \* the Connection objects made so far
    tapConns,   \* tap->_Connections
    pc,         \* the call each thread is in, and its descriptor
    fds,        \* the descriptors the application has and did not close
    crashed,    \* the process has ended
    reported,   \* history: <<c, why>>, Connection c became UNHANDLED_CONNECTED,
                \* by a "callback" or because its state was "unset"
    succeeded   \* history: those whose blocking zts_connect returned 0

maps == <<unmap, fdmap>>
history == <<reported, succeeded>>
vars == <<app, lock, maps, conn, tapConns, pc, fds, crashed, history>>

Ids == 1 .. MaxConns

\* new Connection(): state, sock, tap and picosock are left unset.
NewConnection(st, pico) ==
    [state |-> st, pico |-> pico, sock |-> FALSE, tap |-> FALSE,
     closed |-> FALSE, freed |-> FALSE,
     queue |-> <<>>,                    \* _AcceptedConnections
     came |-> <<>>, handed |-> <<>>]    \* history: what was queued, handed out

Idle == [op |-> "idle", fd |-> 0]
Return(t) == pc' = [pc EXCEPT ![t] = Idle]
Goto(t, op) == pc' = [pc EXCEPT ![t].op = op]
At(t, op) == ~crashed /\ pc[t].op = op

\* The call has got _multiplexer_lock.
Locked(t, op) == At(t, op) /\ lock = NoOne

\* map[fd] of std::map inserts a null entry where there was none.
Touch(map, fd) == [map EXCEPT ![fd] = IF @ = "absent" THEN "null" ELSE @]

Crash == crashed' = TRUE /\ UNCHANGED <<lock, maps, conn, tapConns, pc, fds, history>>

Report(c, st, why) ==
    reported' = reported \union (IF st = "UNHANDLED_CONNECTED" THEN {<<c, why>>} ELSE {})

Init ==
    /\ app \in Apps
    /\ lock = NoOne /\ crashed = FALSE
    /\ unmap = [f \in Ids |-> "absent"] /\ fdmap = [f \in Ids |-> "absent"]
    /\ conn = <<>> /\ tapConns = <<>> /\ pc = [t \in Threads |-> Idle]
    /\ fds = {} /\ reported = {} /\ succeeded = {}

\* The application calls, on a descriptor it has.
Enter(t) ==
    /\ At(t, "idle")
    /\ Cardinality({u \in Threads : pc[u] # Idle}) < app.threads
    /\ \/ \E op \in app.calls \cap {"socket", "raw", "nsockets"} :
            pc' = [pc EXCEPT ![t] = [op |-> op, fd |-> 0]]
       \/ \E op \in app.calls \ {"socket", "raw", "nsockets"}, f \in fds :
            pc' = [pc EXCEPT ![t] = [op |-> op, fd |-> f]]
    /\ UNCHANGED <<lock, maps, conn, tapConns, fds, crashed, history>>

-----------------------------------------------------------------------------
\* zts_socket.

\* A new Connection, unassigned; the application gets its app_fd.
Provision(pico) ==
    \E st \in app.unset :
        /\ conn' = Append(conn, NewConnection(st, pico))
        /\ unmap' = [unmap EXCEPT ![Len(conn) + 1] = "conn"]
        /\ fds' = fds \union {Len(conn) + 1}
        /\ Report(Len(conn) + 1, st, "unset")

\* pico_Socket out of timers returns without setting p, which zts_socket tests
\* next: by chance null, or taken for a socket.
pico_Socket == {"open"} \union (IF app.timersRunOut THEN {"null", "wild"} ELSE {})

zts_socket(t) ==
    /\ Locked(t, "socket") /\ Len(conn) < app.conns
    /\ \E p \in pico_Socket :
        IF p = "null" THEN UNCHANGED <<unmap, conn, fds, reported>> ELSE Provision(p)
    /\ Return(t)
    /\ UNCHANGED <<lock, fdmap, tapConns, crashed, succeeded>>

\* SOCK_RAW: no pico_socket, and the lock is kept.
zts_socket_raw(t) ==
    /\ Locked(t, "raw") /\ Len(conn) < app.conns
    /\ Provision("wild")
    /\ lock' = t
    /\ Return(t)
    /\ UNCHANGED <<fdmap, tapConns, crashed, succeeded>>

-----------------------------------------------------------------------------
\* zts_connect.

Assign(fd, pair) ==
    /\ unmap' = [unmap EXCEPT ![fd] = "absent"]
    /\ fdmap' = [fdmap EXCEPT ![fd] = pair]

\* No Connection, or no tap for the address: the maps change all the same.
ConnectFails(t) ==
    LET fd == pc[t].fd
    IN  /\ Locked(t, "connect")
        /\ Assign(fd, IF unmap[fd] = "conn" THEN "notap" ELSE "void")
        /\ Return(t)
        /\ UNCHANGED <<lock, conn, tapConns, fds, crashed, history>>

\* The stack begins to connect, or refuses at once.
pico_Connect == {"begun", "refused"}

\* A tap for the address: ask the stack.
zts_connect(t) ==
    LET fd == pc[t].fd
    IN  /\ Locked(t, "connect") /\ unmap[fd] = "conn"
        /\ \/ conn[fd].pico = "wild" /\ Crash
           \/ /\ conn[fd].pico # "wild" /\ "begun" \in pico_Connect
              /\ conn' = [conn EXCEPT ![fd].pico = "connecting"]
              /\ lock' = t /\ Goto(t, "connecting")
              /\ UNCHANGED <<maps, tapConns, fds, crashed, history>>
           \/ /\ conn[fd].pico # "wild" /\ "refused" \in pico_Connect
              /\ conn' = [conn EXCEPT ![fd].sock = TRUE]
              /\ Assign(fd, "conn") /\ Return(t)
              /\ UNCHANGED <<lock, tapConns, fds, crashed, history>>

\* The stack has begun to connect and may call back before the Connection is
\* given to the tap.  A blocking call then waits.
ConnectGivesToTap(t) ==
    LET fd == pc[t].fd
    IN  /\ At(t, "connecting")
        /\ tapConns' = Append(tapConns, fd)
        /\ conn' = [conn EXCEPT ![fd].tap = TRUE, ![fd].sock = TRUE]
        /\ Assign(fd, "conn")
        /\ lock' = NoOne
        /\ (Return(t) \/ Goto(t, "waiting"))
        /\ UNCHANGED <<fds, crashed, history>>

Found(st) == {i \in DOMAIN tapConns : conn[tapConns[i]].state = st}

\* A mutated scan, which leaves the Connections it found as they are.
ScanKeepsState(t) ==
    /\ At(t, "waiting") /\ Found("UNHANDLED_CONNECTED") # {}
    /\ succeeded' = succeeded \union {pc[t].fd}
    /\ Return(t)
    /\ UNCHANGED <<lock, maps, conn, tapConns, fds, crashed, reported>>

\* One turn of the wait, under _tcpconns_m: look at every Connection of the tap.
\* A turn that finds none UNHANDLED_CONNECTED only sleeps, ECONNRESET or not; in
\* one that does, the later of the two states decides the result.
ConnectScan(t) ==
    LET unhandled == Found("UNHANDLED_CONNECTED")
        reset == Found("ECONNRESET")
        hits == {tapConns[i] : i \in unhandled}
        err == \E i \in reset : \A j \in unhandled : i > j
    IN  /\ At(t, "waiting")
        /\ \/ /\ unhandled # {}
              /\ conn' = [c \in DOMAIN conn |->
                            IF c \in hits THEN [conn[c] EXCEPT !.state = "CONNECTED"]
                            ELSE conn[c]]
              /\ succeeded' = IF err THEN succeeded ELSE succeeded \union {pc[t].fd}
              /\ Return(t)
              /\ UNCHANGED <<lock, maps, tapConns, fds, crashed, reported>>
           \/ (\E i \in DOMAIN tapConns : conn[tapConns[i]].freed) /\ Crash

-----------------------------------------------------------------------------
\* zts_bind: give the Connection to the tap, then ask the stack, which may refuse.

Bound(fd) == Assign(fd, "conn")

\* What the stack does with the pico_socket: it binds it, or refuses.
pico_Bind == {"bound", "open"}

zts_bind(t) ==
    LET fd == pc[t].fd
    IN  /\ Locked(t, "bind")
        /\ \/ /\ unmap' = Touch(unmap, fd)      \* no Connection, or no tap
              /\ Return(t)
              /\ UNCHANGED <<lock, fdmap, conn, tapConns, fds, crashed, history>>
           \/ unmap[fd] = "conn" /\ conn[fd].pico = "wild" /\ Crash
           \/ /\ unmap[fd] = "conn" /\ conn[fd].pico # "wild" /\ Len(tapConns) < app.tap
              /\ tapConns' = Append(tapConns, fd)
              /\ \E r \in pico_Bind :
                    /\ conn' = [conn EXCEPT ![fd].tap = TRUE, ![fd].pico = r]
                    /\ IF r = "bound" THEN Bound(fd) ELSE UNCHANGED maps
              /\ Return(t)
              /\ UNCHANGED <<lock, fds, crashed, history>>

-----------------------------------------------------------------------------
\* zts_listen.

\* Without a Connection or a tap it returns and keeps the lock.
ListenFails(t) ==
    LET fd == pc[t].fd
    IN  /\ Locked(t, "listen") /\ fdmap[fd] # "conn"
        /\ fdmap' = Touch(fdmap, fd)
        /\ lock' = t
        /\ Return(t)
        /\ UNCHANGED <<unmap, conn, tapConns, fds, crashed, history>>

\* pico_socket_listen refuses a socket that is not bound; pico_Listen takes no
\* notice, because the stack's code is in pico_err and not in err.
zts_listen(t) ==
    LET fd == pc[t].fd
    IN  /\ Locked(t, "listen") /\ fdmap[fd] = "conn"
        /\ conn' = [conn EXCEPT ![fd].pico = IF @ = "bound" THEN "listening" ELSE @]
        /\ lock' = t /\ Goto(t, "listening")
        /\ UNCHANGED <<maps, tapConns, fds, crashed, history>>

\* The stack listens, and may have called back, before the state says so.
ListenSetsState(t) ==
    /\ At(t, "listening")
    /\ conn' = [conn EXCEPT ![pc[t].fd].state = "LISTENING"]
    /\ lock' = NoOne
    /\ Return(t)
    /\ UNCHANGED <<maps, tapConns, fds, crashed, history>>

-----------------------------------------------------------------------------
\* zts_accept.

\* A mutated pico_Accept, which leaves the Connection on the queue.
AcceptKeepsQueued(fd) ==
    LET new == Head(conn[fd].queue)
    IN  /\ conn' = [conn EXCEPT ![fd].handed = Append(@, new)]
        /\ fdmap' = [fdmap EXCEPT ![new] = "conn"]
        /\ fds' = fds \union {new}

\* pico_Accept takes the first queued Connection; zts_accept gives it a pair.
TakeAccepted(fd) ==
    LET new == Head(conn[fd].queue)
    IN  /\ conn' = [conn EXCEPT ![fd].queue = Tail(@), ![fd].handed = Append(@, new)]
        /\ fdmap' = [fdmap EXCEPT ![new] = "conn"]
        /\ fds' = fds \union {new}

\* No pair, out of timers, or nothing queued for a non-blocking descriptor.
AcceptFails(t) ==
    LET fd == pc[t].fd
    IN  /\ Locked(t, "accept")
        /\ \/ fdmap[fd] \in {"absent", "null"} \/ app.timersRunOut
           \/ fdmap[fd] = "conn" /\ conn[fd].queue = <<>>
        /\ fdmap' = Touch(fdmap, fd)
        /\ Return(t)
        /\ UNCHANGED <<lock, unmap, conn, tapConns, fds, crashed, history>>

\* Non-blocking: one try.  Blocking: try and sleep, with the lock held.
zts_accept(t) ==
    LET fd == pc[t].fd
    IN  /\ Locked(t, "accept")
        /\ \/ fdmap[fd] \in {"notap", "void"} /\ Crash
           \/ /\ fdmap[fd] = "conn" /\ conn[fd].queue # <<>>
              /\ TakeAccepted(fd)
              /\ Return(t)
              /\ UNCHANGED <<lock, unmap, tapConns, crashed, history>>
           \/ /\ fdmap[fd] = "conn"
              /\ lock' = t /\ Goto(t, "accepting")
              /\ UNCHANGED <<maps, conn, tapConns, fds, crashed, history>>

AcceptPoll(t) ==
    LET fd == pc[t].fd
    IN  /\ At(t, "accepting") /\ conn[fd].queue # <<>>
        /\ TakeAccepted(fd)
        /\ lock' = NoOne
        /\ Return(t)
        /\ UNCHANGED <<unmap, tapConns, crashed, history>>

-----------------------------------------------------------------------------
\* zts_close, zts_shutdown, zts_get_pico_socket.

\* A mutated deletion, which leaves the map entry of the deleted Connection.
DeleteKeepsEntry(fd) ==
    /\ conn' = [conn EXCEPT ![fd].freed = TRUE, ![fd].pico = "closed"]
    /\ UNCHANGED unmap

\* An unassigned Connection is closed or shut down, deleted and forgotten.
DeleteUnassigned(fd) ==
    /\ conn' = [conn EXCEPT ![fd].freed = TRUE, ![fd].pico = "closed"]
    /\ unmap' = [unmap EXCEPT ![fd] = "absent"]

\* SocketTap::Close locks a mutex of conn->tap and, unless the state is LISTENING,
\* closes conn->sock; not every assigned Connection has these two set.
CloseUsesUnset(fd) ==
    ~conn[fd].tap \/ (~conn[fd].sock /\ conn[fd].state # "LISTENING")

\* A blocking close of a pair without Connection reads TXbuf through null.
CloseCrashes(t) ==
    LET fd == pc[t].fd
    IN  /\ Locked(t, "close")
        /\ \/ unmap[fd] = "conn" /\ conn[fd].pico = "wild"
           \/ /\ unmap[fd] # "conn"
              /\ \/ fdmap[fd] = "void"
                 \/ (fdmap[fd] \in {"conn", "notap"} /\ CloseUsesUnset(fd))
        /\ Crash

\* Shutting down a pico_socket deletes it if it is not bound.  Otherwise the
\* stack may go on with it for a while, until its queue is sent and the peer has
\* answered; closing also deletes a listening one.
pico_socket_shutdown(c) == IF c.pico = "open" THEN {"closed"} ELSE {c.pico, "closed"}

\* pico_Close leaves a socket alone that was closed by a callback.
pico_Close(c) ==
    IF c.closed THEN {c.pico}
    ELSE IF c.pico = "listening" THEN {"closed"}
    ELSE pico_socket_shutdown(c)

\* An unset conn->sock may be null by chance, then SocketTap::Close returns.
zts_close(t) ==
    LET fd == pc[t].fd
    IN  /\ Locked(t, "close")
        /\ \/ /\ unmap[fd] = "conn" /\ conn[fd].pico # "wild"
              /\ DeleteUnassigned(fd)
              /\ UNCHANGED fdmap
           \/ /\ unmap[fd] # "conn" /\ fdmap[fd] \in {"absent", "null"}
              /\ unmap' = Touch(unmap, fd) /\ fdmap' = Touch(fdmap, fd)
              /\ UNCHANGED conn
           \/ /\ unmap[fd] # "conn" /\ fdmap[fd] = "void"
              /\ unmap' = Touch(unmap, fd)
              /\ fdmap' = [fdmap EXCEPT ![fd] = "absent"]
              /\ UNCHANGED conn
           \/ /\ unmap[fd] # "conn" /\ fdmap[fd] \in {"conn", "notap"} /\ conn[fd].tap
              /\ unmap' = Touch(unmap, fd)
              /\ \E r \in pico_Close(conn[fd]) : conn' = [conn EXCEPT ![fd].pico = r]
              /\ fdmap' = [fdmap EXCEPT ![fd] = "absent"]
        /\ fds' = fds \ {fd}
        /\ Return(t)
        /\ UNCHANGED <<lock, tapConns, crashed, history>>

zts_shutdown(t) ==
    LET fd == pc[t].fd
        assigned == unmap[fd] # "conn" /\ fdmap[fd] \in {"conn", "notap"}
    IN  /\ Locked(t, "shutdown")
        /\ \/ unmap[fd] # "conn" /\ fdmap[fd] = "void" /\ Crash
           \/ (unmap[fd] = "conn" \/ assigned) /\ conn[fd].pico = "wild" /\ Crash
           \/ /\ unmap[fd] = "conn" /\ conn[fd].pico # "wild"
              /\ DeleteUnassigned(fd)
              /\ Return(t)
              /\ UNCHANGED <<lock, fdmap, tapConns, fds, crashed, history>>
           \/ /\ unmap[fd] # "conn" /\ fdmap[fd] \in {"absent", "null"}
              /\ unmap' = Touch(unmap, fd) /\ fdmap' = Touch(fdmap, fd)
              /\ Return(t)
              /\ UNCHANGED <<lock, conn, tapConns, fds, crashed, history>>
           \/ /\ assigned /\ conn[fd].pico # "wild"
              /\ unmap' = Touch(unmap, fd)
              /\ \E r \in pico_socket_shutdown(conn[fd]) :
                    conn' = [conn EXCEPT ![fd].pico = r]
              /\ Return(t)
              /\ UNCHANGED <<lock, fdmap, tapConns, fds, crashed, history>>

zts_get_pico_socket(t) ==
    LET fd == pc[t].fd
    IN  /\ Locked(t, "get_pico_socket")
        /\ \/ unmap[fd] # "conn" /\ fdmap[fd] = "void" /\ Crash
           \/ /\ (unmap[fd] = "conn" \/ fdmap[fd] # "void")
              /\ unmap' = Touch(unmap, fd)
              /\ fdmap' = IF unmap[fd] = "conn" THEN fdmap ELSE Touch(fdmap, fd)
              /\ Return(t)
              /\ UNCHANGED <<lock, conn, tapConns, fds, crashed, history>>

\* It unlocks where it means to lock, whoever has the lock; the sizes of the maps
\* it returns are no part of the state.
zts_nsockets(t) ==
    /\ At(t, "nsockets")
    /\ lock' = NoOne
    /\ Return(t)
    /\ UNCHANGED <<maps, conn, tapConns, fds, crashed, history>>

-----------------------------------------------------------------------------
\* pico_cb_socket_activity, called by the stack in the tap's thread.

\* PICO_SOCK_EV_CONN for a connect.
EvConn(c) ==
    /\ ~crashed /\ conn[c].pico = "connecting"
    /\ conn' = [conn EXCEPT ![c].pico = "connected",
                            ![c].state = IF @ = "LISTENING" THEN @
                                         ELSE "UNHANDLED_CONNECTED"]
    /\ Report(c, conn'[c].state, "callback")
    /\ UNCHANGED <<lock, maps, tapConns, pc, fds, crashed, succeeded>>

\* PICO_SOCK_EV_CONN for a listening socket whose state says so: accept, and
\* queue a new Connection, under _tcpconns_m.
EvConnAccept(l) ==
    LET new == Len(conn) + 1
    IN  /\ ~crashed /\ conn[l].pico = "listening" /\ conn[l].state = "LISTENING"
        /\ new <= app.conns
        /\ \E st \in app.unset :
            /\ conn' = Append([conn EXCEPT ![l].queue = Append(@, new),
                                           ![l].came = Append(@, new)],
                              [NewConnection(st, "connected") EXCEPT !.tap = TRUE,
                                                                     !.sock = TRUE])
            /\ Report(new, st, "unset")
        /\ tapConns' = Append(tapConns, new)
        /\ UNCHANGED <<lock, maps, pc, fds, crashed, succeeded>>

\* The same before zts_listen has set the state: taken for a connect (bound: once
\* for each Connection).
EvConnEarly(l) ==
    /\ ~crashed /\ conn[l].pico = "listening"
    /\ conn[l].state # "LISTENING" /\ <<l, "callback">> \notin reported
    /\ conn' = [conn EXCEPT ![l].state = "UNHANDLED_CONNECTED"]
    /\ Report(l, "UNHANDLED_CONNECTED", "callback")
    /\ UNCHANGED <<lock, maps, tapConns, pc, fds, crashed, succeeded>>

\* The peer refuses a connect: a reset comes as PICO_SOCK_EV_FIN, which sets
\* closure_ts, a timeout as PICO_SOCK_EV_ERR with PICO_ERR_ECONNREFUSED, which is
\* only logged.
EvRefused(c) ==
    /\ ~crashed /\ conn[c].pico = "connecting"
    /\ \E reset \in BOOLEAN :
          conn' = [conn EXCEPT ![c].pico = "closed", ![c].closed = @ \/ reset]
    /\ UNCHANGED <<lock, maps, tapConns, pc, fds, crashed, history>>

\* PICO_SOCK_EV_ERR with PICO_ERR_ECONNRESET: the stack's keep-alive has given up
\* on an established connection.
EvErr(c) ==
    /\ ~crashed /\ conn[c].pico = "connected"
    /\ conn' = [conn EXCEPT ![c].state = "ECONNRESET"]
    /\ UNCHANGED <<lock, maps, tapConns, pc, fds, crashed, history>>

\* PICO_SOCK_EV_CLOSE (the callback closes the socket) and PICO_SOCK_EV_FIN (it
\* is closed): both set closure_ts.
EvClose(c) ==
    /\ ~crashed /\ conn[c].pico = "connected"
    /\ conn' = [conn EXCEPT ![c].pico = "closed", ![c].closed = TRUE]
    /\ UNCHANGED <<lock, maps, tapConns, pc, fds, crashed, history>>

-----------------------------------------------------------------------------
\* What thread t does once it is in a call.
Run(t) ==
    \/ zts_socket(t) \/ zts_socket_raw(t)
    \/ ConnectFails(t) \/ zts_connect(t) \/ ConnectGivesToTap(t) \/ ConnectScan(t)
    \/ zts_bind(t)
    \/ ListenFails(t) \/ zts_listen(t) \/ ListenSetsState(t)
    \/ AcceptFails(t) \/ zts_accept(t) \/ AcceptPoll(t)
    \/ CloseCrashes(t) \/ zts_close(t) \/ zts_shutdown(t)
    \/ zts_get_pico_socket(t) \/ zts_nsockets(t)

Callback(c) ==
    \/ EvConn(c) \/ EvConnAccept(c) \/ EvConnEarly(c) \/ EvRefused(c) \/ EvErr(c)
    \/ EvClose(c)

Next ==
    /\ \/ \E t \in Threads : Enter(t) \/ Run(t)
       \/ \E c \in DOMAIN conn : Callback(c)
    /\ UNCHANGED app

\* Every thread that can go on does.
Fairness == \A t \in Threads : WF_vars(Run(t) /\ UNCHANGED app)

Spec == Init /\ [][Next]_vars
LiveSpec == Spec /\ Fairness

-----------------------------------------------------------------------------
\* As long as zts_nsockets is not called (it unlocks a lock that others hold), a
\* descriptor has a Connection in at most one of the maps, and no map leads to
\* a deleted Connection: whatever calls race, zts_close and zts_shutdown never
\* delete a Connection that is assigned, and nothing finds one twice.
MapsConsistent ==
    "nsockets" \notin app.calls =>
        \A f \in DOMAIN conn :
        /\ ~(unmap[f] = "conn" /\ fdmap[f] \in {"conn", "notap"})
        /\ conn[f].freed => unmap[f] # "conn" /\ fdmap[f] \notin {"conn", "notap"}

\* zts_accept hands out each accepted connection once, in the order in which the
\* callback queued them, however many threads accept.
AcceptFifo ==
    \A l \in DOMAIN conn : conn[l].handed \o conn[l].queue = conn[l].came

\* As long as zts_nsockets is not called, one report of a connection lets at most
\* one blocking zts_connect return 0: the test and the change to CONNECTED are under
\* one lock, and a Connection connects once, because zts_connect takes it out of
\* unmap before another call can have _multiplexer_lock.
ConnectsCounted ==
    "nsockets" \notin app.calls => Cardinality(succeeded) <= Cardinality(reported)

\* Like a regular connect (libzt.h 330), a blocking zts_connect returns when the
\* peer refuses the connection.
RefusedReturns ==
    \A t \in Threads :
        (pc[t].op = "waiting" /\ conn[pc[t].fd].pico = "closed")
        ~> (pc[t].op # "waiting" \/ crashed)
=============================================================================
