-------------------------- MODULE SocketApiProofs --------------------------
(* The descriptor maps, the accept queues and the connects of the socket     *)
(* multiplexer, for any number of threads, Connections and calls.            *)
EXTENDS SocketApi, FiniteSetTheorems, SequenceTheorems, TLAPS

Picos == {"open", "wild", "connecting", "connected", "bound", "listening", "closed"}

ConnRec ==
    [state : States, pico : Picos, sock : BOOLEAN, tap : BOOLEAN, closed : BOOLEAN,
     freed : BOOLEAN, queue : Seq(Nat), came : Seq(Nat), handed : Seq(Nat)]

\* The Connections made so far, by number.
Made == 1 .. Len(conn)

\* What a thread can be doing, and what it does without a descriptor.
Ops == Calls \union {"idle", "connecting", "waiting", "listening", "accepting"}

NoFd == {"idle", "socket", "raw", "nsockets"}

Objects ==
    /\ conn \in Seq(ConnRec) /\ Len(conn) <= MaxConns
    /\ tapConns \in Seq(Made)
    /\ \A l \in Made : conn[l].queue \in Seq(Made)

\* A descriptor that was never made is in no map.
MapTypes ==
    /\ unmap \in [Ids -> {"absent", "null", "conn"}]
    /\ fdmap \in [Ids -> {"absent", "null", "conn", "notap", "void"}]
    /\ \A f \in Ids : f > Len(conn) => unmap[f] = "absent" /\ fdmap[f] = "absent"

ThreadTypes ==
    /\ pc \in [Threads -> [op : Ops, fd : Nat]]
    /\ \A t \in Threads : pc[t].op \notin NoFd => pc[t].fd \in Made
    /\ fds \subseteq Made

History ==
    /\ reported \subseteq Made \X {"unset", "callback"} /\ IsFiniteSet(reported)
    /\ succeeded \subseteq Made

Base == app \in Apps /\ Objects /\ MapTypes /\ ThreadTypes /\ History

ApiFifo == Base /\ AcceptFifo

\* The steps a thread takes with _multiplexer_lock held, and what it holds it for.
Holders ==
    \A t \in Threads :
        /\ pc[t].op # "nsockets"
        /\ pc[t].op \in {"connecting", "listening", "accepting"} => lock = t
        /\ pc[t].op = "connecting" => unmap[pc[t].fd] = "conn"

\* A Connection is in at most one map, and in none once it is deleted.
OneMap(f) ==
    /\ ~(unmap[f] = "conn" /\ fdmap[f] \in {"conn", "notap"})
    /\ conn[f].freed => unmap[f] # "conn" /\ fdmap[f] \notin {"conn", "notap"}

\* A Connection waiting to be accepted was never in unmap, so nothing deletes it.
Queued(l) ==
    \A i \in DOMAIN conn[l].queue :
        unmap[conn[l].queue[i]] # "conn" /\ ~conn[conn[l].queue[i]].freed

Keeps == Holders /\ \A f \in Made : OneMap(f) /\ Queued(f)

\* A Connection that is still unassigned was not connected before, unless a
\* thread with the lock is about to assign it.
Fresh(c) ==
    /\ conn[c].pico = "connecting" => <<c, "callback">> \notin reported
    /\ unmap[c] = "conn" =>
        \/ \E t \in Threads : pc[t].op = "connecting" /\ pc[t].fd = c
        \/ <<c, "callback">> \notin reported /\ conn[c].pico \notin {"connecting", "listening"}

Unhandled == {c \in Made : conn[c].state = "UNHANDLED_CONNECTED"}

\* Reports pay for the connects that succeeded and for the Connections that can
\* still let one succeed.
Paid == Cardinality(succeeded) + Cardinality(Unhandled) <= Cardinality(reported)

Obeys == "nsockets" \notin app.calls => Keeps /\ Paid /\ \A c \in Made : Fresh(c)

ApiInv == ApiFifo /\ Obeys

-----------------------------------------------------------------------------
\* Connections.

\* Connection fd alone is changed, to r.
Rewritten(fd, r) ==
    /\ conn' \in Seq(ConnRec) /\ Len(conn') = Len(conn)
    /\ conn'[fd] = r
    /\ \A f \in Made \ {fd} : conn'[f] = conn[f]

LEMMA Rewrite ==
    ASSUME Objects, NEW fd \in Made, NEW r \in ConnRec, conn' = [conn EXCEPT ![fd] = r]
    PROVE  Rewritten(fd, r)
<1>1. conn \in Seq(ConnRec) /\ fd \in 1 .. Len(conn) BY DEF Objects, Made
<1>2. /\ conn' \in Seq(ConnRec) /\ Len(conn') = Len(conn)
      /\ \A j \in 1 .. Len(conn) : conn'[j] = IF j = fd THEN r ELSE conn[j]
  BY <1>1, ExceptSeq
<1> QED BY <1>1, <1>2 DEF Rewritten, Made

LEMMA ConnType == ASSUME Objects, NEW f \in Made PROVE conn[f] \in ConnRec
<1>1. conn \in Seq(ConnRec) /\ f \in 1 .. Len(conn) BY DEF Objects, Made
<1> QED BY <1>1, ElementOfSeq

\* What a change of Connection fd that leaves its queue alone does to it.
Becomes(fd, st, pi) ==
    /\ conn' \in Seq(ConnRec) /\ Len(conn') = Len(conn)
    /\ \A f \in Made \ {fd} : conn'[f] = conn[f]
    /\ conn'[fd].state = st /\ conn'[fd].pico = pi
    /\ conn'[fd].queue = conn[fd].queue /\ conn'[fd].came = conn[fd].came
    /\ conn'[fd].handed = conn[fd].handed

KeepsFreed(fd) == conn'[fd].freed => conn[fd].freed

LEMMA SetPico ==
    ASSUME Objects, NEW fd \in Made, NEW v \in Picos, conn' = [conn EXCEPT ![fd].pico = v]
    PROVE  Becomes(fd, conn[fd].state, v) /\ KeepsFreed(fd)
<1> DEFINE r == [conn[fd] EXCEPT !.pico = v]
<1>1. conn[fd] \in ConnRec BY ConnType
<1>2. r \in ConnRec BY <1>1 DEF ConnRec
<1>3. conn' = [conn EXCEPT ![fd] = r] OBVIOUS
<1>4. /\ r.state = conn[fd].state /\ r.pico = v /\ r.queue = conn[fd].queue
      /\ r.came = conn[fd].came /\ r.handed = conn[fd].handed
  BY <1>1 DEF ConnRec
<1>5. r.freed => conn[fd].freed BY <1>1 DEF ConnRec
<1> HIDE DEF r
<1>6. Rewritten(fd, r) BY <1>2, <1>3, Rewrite
<1> QED BY <1>4, <1>5, <1>6 DEF Rewritten, Becomes, KeepsFreed

LEMMA SetFlags ==
    ASSUME Objects, NEW fd \in Made, NEW v \in Picos, NEW b \in BOOLEAN,
           \/ conn' = [conn EXCEPT ![fd].sock = TRUE] /\ v = conn[fd].pico
           \/ conn' = [conn EXCEPT ![fd].tap = TRUE, ![fd].sock = TRUE] /\ v = conn[fd].pico
           \/ conn' = [conn EXCEPT ![fd].tap = TRUE, ![fd].pico = v]
           \/ conn' = [conn EXCEPT ![fd].pico = v, ![fd].closed = @ \/ b]
           \/ conn' = [conn EXCEPT ![fd].pico = v, ![fd].closed = TRUE]
    PROVE  Becomes(fd, conn[fd].state, v) /\ KeepsFreed(fd)
<1>1. conn[fd] \in ConnRec BY ConnType
<1>2. PICK r \in ConnRec :
        /\ conn' = [conn EXCEPT ![fd] = r]
        /\ r.state = conn[fd].state /\ r.pico = v /\ r.queue = conn[fd].queue
        /\ r.came = conn[fd].came /\ r.handed = conn[fd].handed
        /\ (r.freed => conn[fd].freed)
  <2> USE <1>1 DEF ConnRec
  <2>1. CASE conn' = [conn EXCEPT ![fd].sock = TRUE] /\ v = conn[fd].pico
    <3> WITNESS [conn[fd] EXCEPT !.sock = TRUE] \in ConnRec
    <3> QED BY <2>1
  <2>2. CASE conn' = [conn EXCEPT ![fd].tap = TRUE, ![fd].sock = TRUE] /\ v = conn[fd].pico
    <3> WITNESS [conn[fd] EXCEPT !.tap = TRUE, !.sock = TRUE] \in ConnRec
    <3> QED BY <2>2
  <2>3. CASE conn' = [conn EXCEPT ![fd].tap = TRUE, ![fd].pico = v]
    <3> WITNESS [conn[fd] EXCEPT !.tap = TRUE, !.pico = v] \in ConnRec
    <3> QED BY <2>3
  <2>4. CASE conn' = [conn EXCEPT ![fd].pico = v, ![fd].closed = @ \/ b]
    <3> WITNESS [conn[fd] EXCEPT !.pico = v, !.closed = @ \/ b] \in ConnRec
    <3> QED BY <2>4
  <2>5. CASE conn' = [conn EXCEPT ![fd].pico = v, ![fd].closed = TRUE]
    <3> WITNESS [conn[fd] EXCEPT !.pico = v, !.closed = TRUE] \in ConnRec
    <3> QED BY <2>5
  <2> QED BY <2>1, <2>2, <2>3, <2>4, <2>5
<1>3. Rewritten(fd, r) BY <1>2, Rewrite
<1> QED BY <1>2, <1>3 DEF Rewritten, Becomes, KeepsFreed

LEMMA SetState ==
    ASSUME Objects, NEW fd \in Made, NEW v \in Picos, NEW st \in States,
           \/ conn' = [conn EXCEPT ![fd].state = st] /\ v = conn[fd].pico
           \/ conn' = [conn EXCEPT ![fd].pico = v, ![fd].state = st]
    PROVE  Becomes(fd, st, v) /\ KeepsFreed(fd)
<1>1. conn[fd] \in ConnRec BY ConnType
<1>2. PICK r \in ConnRec :
        /\ conn' = [conn EXCEPT ![fd] = r]
        /\ r.state = st /\ r.pico = v /\ r.queue = conn[fd].queue
        /\ r.came = conn[fd].came /\ r.handed = conn[fd].handed
        /\ (r.freed => conn[fd].freed)
  <2> USE <1>1 DEF ConnRec
  <2>1. CASE conn' = [conn EXCEPT ![fd].state = st] /\ v = conn[fd].pico
    <3> WITNESS [conn[fd] EXCEPT !.state = st] \in ConnRec
    <3> QED BY <2>1
  <2>2. CASE conn' = [conn EXCEPT ![fd].pico = v, ![fd].state = st]
    <3> WITNESS [conn[fd] EXCEPT !.pico = v, !.state = st] \in ConnRec
    <3> QED BY <2>2
  <2> QED BY <2>1, <2>2
<1>3. Rewritten(fd, r) BY <1>2, Rewrite
<1> QED BY <1>2, <1>3 DEF Rewritten, Becomes, KeepsFreed

LEMMA SetFreed ==
    ASSUME Objects, NEW fd \in Made,
           conn' = [conn EXCEPT ![fd].freed = TRUE, ![fd].pico = "closed"]
    PROVE  Becomes(fd, conn[fd].state, "closed")
<1>1. conn[fd] \in ConnRec BY ConnType
<1> DEFINE r == [conn[fd] EXCEPT !.freed = TRUE, !.pico = "closed"]
<1>2. r \in ConnRec BY <1>1 DEF ConnRec, Picos
<1>3. conn' = [conn EXCEPT ![fd] = r] OBVIOUS
<1>4. /\ r.state = conn[fd].state /\ r.pico = "closed" /\ r.queue = conn[fd].queue
      /\ r.came = conn[fd].came /\ r.handed = conn[fd].handed
  BY <1>1 DEF ConnRec
<1> HIDE DEF r
<1>5. Rewritten(fd, r) BY <1>2, <1>3, Rewrite
<1> QED BY <1>4, <1>5 DEF Rewritten, Becomes

\* As far as the accept queues go, nothing happens.
Quiet ==
    /\ conn' \in Seq(ConnRec) /\ Len(conn') = Len(conn)
    /\ \A f \in Made : /\ conn'[f].queue = conn[f].queue
                       /\ conn'[f].came = conn[f].came
                       /\ conn'[f].handed = conn[f].handed

LEMMA BecomesQuiet ==
    ASSUME NEW fd \in Made, NEW st, NEW pi, Becomes(fd, st, pi)
    PROVE  Quiet
  BY DEF Becomes, Quiet

LEMMA SameQuiet == ASSUME Objects, conn' = conn PROVE Quiet
  BY DEF Quiet, Objects

LEMMA QuietObjects ==
    ASSUME Objects, AcceptFifo, Quiet, tapConns' \in Seq(Made)
    PROVE  Objects' /\ AcceptFifo'
<1>1. Made' = Made BY DEF Quiet, Made
<1>2. DOMAIN conn = Made /\ DOMAIN conn' = Made
  BY LenProperties DEF Quiet, Objects, Made
<1>3. Len(conn') <= MaxConns BY DEF Quiet, Objects
<1>4. \A l \in Made : conn'[l].queue \in Seq(Made)
  BY DEF Quiet, Objects
<1>5. Objects' BY <1>1, <1>3, <1>4 DEF Quiet, Objects
<1>6. AcceptFifo' BY <1>2 DEF Quiet, AcceptFifo
<1> QED BY <1>5, <1>6

LEMMA TapAppend == ASSUME Objects, NEW fd \in Made PROVE Append(tapConns, fd) \in Seq(Made)
  BY AppendProperties DEF Objects

-----------------------------------------------------------------------------
\* The maps and the threads.

\* The entries of descriptor fd become u and v.
Remaps(fd, u, v) ==
    /\ unmap' = [unmap EXCEPT ![fd] = u]
    /\ fdmap' = [fdmap EXCEPT ![fd] = v]

LEMMA MadeIds == ASSUME Objects PROVE Made \subseteq Ids /\ Len(conn) \in Nat
<1>1. Len(conn) \in Nat BY LenProperties DEF Objects
<1> QED BY <1>1, ApiAssumption DEF Objects, Made, Ids

LEMMA RemapTypes ==
    ASSUME Objects, MapTypes, Len(conn') = Len(conn), NEW fd \in Made, NEW u, NEW v,
           u \in {"absent", "null", "conn"},
           v \in {"absent", "null", "conn", "notap", "void"}, Remaps(fd, u, v)
    PROVE  /\ MapTypes' /\ unmap'[fd] = u /\ fdmap'[fd] = v
           /\ \A f \in Made \ {fd} : unmap'[f] = unmap[f] /\ fdmap'[f] = fdmap[f]
<1>1. fd \in Ids /\ Made \subseteq Ids BY MadeIds
<1>2. /\ unmap' \in [Ids -> {"absent", "null", "conn"}] /\ unmap'[fd] = u
      /\ \A f \in Ids \ {fd} : unmap'[f] = unmap[f]
  BY <1>1 DEF MapTypes, Remaps
<1>3. /\ fdmap' \in [Ids -> {"absent", "null", "conn", "notap", "void"}] /\ fdmap'[fd] = v
      /\ \A f \in Ids \ {fd} : fdmap'[f] = fdmap[f]
  BY <1>1 DEF MapTypes, Remaps
<1>4. fd <= Len(conn) BY MadeIds DEF Made
<1>5. \A f \in Ids : f > Len(conn) => unmap'[f] = "absent" /\ fdmap'[f] = "absent"
  BY <1>2, <1>3, <1>4, MadeIds DEF MapTypes, Ids
<1> QED BY <1>1, <1>2, <1>3, <1>5 DEF MapTypes

\* Nothing is remapped.
LEMMA RemapSame ==
    ASSUME Objects, MapTypes, NEW fd \in Made, UNCHANGED maps
    PROVE  Remaps(fd, unmap[fd], fdmap[fd])
<1>1. fd \in Ids BY MadeIds
<1> QED BY <1>1 DEF MapTypes, Remaps, maps

LEMMA EntryTypes ==
    ASSUME Objects, MapTypes, NEW fd \in Made
    PROVE  /\ unmap[fd] \in {"absent", "null", "conn"}
           /\ fdmap[fd] \in {"absent", "null", "conn", "notap", "void"}
<1>1. fd \in Ids BY MadeIds
<1> QED BY <1>1 DEF MapTypes

\* What touching an entry makes of it.
Touched(e) == IF e = "absent" THEN "null" ELSE e

LEMMA TouchIs ==
    ASSUME Objects, MapTypes, NEW fd \in Made
    PROVE  /\ Touch(unmap, fd) = [unmap EXCEPT ![fd] = Touched(unmap[fd])]
           /\ Touch(fdmap, fd) = [fdmap EXCEPT ![fd] = Touched(fdmap[fd])]
  BY DEF Touch, Touched

\* Thread t goes on to p.
Goes(t, p) == pc' = [pc EXCEPT ![t] = p]

LEMMA GoesTypes ==
    ASSUME ThreadTypes, Made \subseteq Made', NEW t \in Threads, NEW p \in [op : Ops, fd : Nat],
           p.op \notin NoFd => p.fd \in Made', Goes(t, p), fds' \subseteq Made'
    PROVE  ThreadTypes'
  BY DEF ThreadTypes, Goes

LEMMA GoesSame ==
    ASSUME ThreadTypes, NEW t \in Threads, UNCHANGED pc
    PROVE  Goes(t, pc[t])
  BY DEF ThreadTypes, Goes

LEMMA PcIs ==
    ASSUME ThreadTypes, NEW t \in Threads
    PROVE  /\ pc[t] \in [op : Ops, fd : Nat]
           /\ pc[t].op \notin NoFd => pc[t].fd \in Made
  BY DEF ThreadTypes

LEMMA ReturnGoes == ASSUME NEW t, Return(t) PROVE Goes(t, Idle)
  BY DEF Return, Goes

LEMMA IdleType == Idle \in [op : Ops, fd : Nat] /\ Idle.op = "idle" /\ Idle.op \in NoFd
  BY DEF Idle, Ops, NoFd

LEMMA GotoGoes ==
    ASSUME ThreadTypes, NEW t \in Threads, NEW o \in Ops, Goto(t, o)
    PROVE  Goes(t, [op |-> o, fd |-> pc[t].fd])
<1>1. pc[t] \in [op : Ops, fd : Nat] BY PcIs
<1>2. [pc[t] EXCEPT !.op = o] = [op |-> o, fd |-> pc[t].fd] BY <1>1
<1>3. pc' = [pc EXCEPT ![t] = [pc[t] EXCEPT !.op = o]] BY DEF Goto
<1> QED BY <1>2, <1>3 DEF Goes

LEMMA GoesIs ==
    ASSUME ThreadTypes, NEW t \in Threads, NEW p, Goes(t, p)
    PROVE  pc'[t] = p /\ \A s \in Threads \ {t} : pc'[s] = pc[s]
  BY DEF ThreadTypes, Goes

-----------------------------------------------------------------------------
\* What a step of a thread that keeps to the lock has to leave true.

Held == {"connecting", "listening", "accepting"}

Assigned == {"conn", "notap"}

\* Thread t has the lock, or nobody has.
HasLock(t) == lock = NoOne \/ lock = t

\* No other thread is in the middle of a call that needs the lock.
LEMMA OthersOut ==
    ASSUME Holders, NEW t \in Threads, HasLock(t), NEW s \in Threads, s # t
    PROVE  pc[s].op \notin Held
  BY ApiAssumption DEF Holders, HasLock, Held

LEMMA HoldersStep ==
    ASSUME ThreadTypes, Objects, MapTypes, Holders, NEW t \in Threads, HasLock(t), NEW p, Goes(t, p),
           p.op # "nsockets", p.op \in Held => lock' = t,
           p.op = "connecting" => unmap'[p.fd] = "conn"
    PROVE  Holders'
<1> SUFFICES ASSUME NEW s \in Threads
             PROVE  /\ pc'[s].op # "nsockets" /\ (pc'[s].op \in Held => lock' = s)
                    /\ pc'[s].op = "connecting" => unmap'[pc'[s].fd] = "conn"
  BY DEF Holders, Held
<1>1. CASE s = t BY <1>1, GoesIs
<1>2. CASE s # t
  <2>1. pc'[s] = pc[s] BY <1>2, GoesIs
  <2>2. pc[s].op \notin Held BY <1>2, OthersOut
  <2>3. pc[s].op # "nsockets" BY DEF Holders
  <2> QED BY <2>1, <2>2, <2>3 DEF Held
<1> QED BY <1>1, <1>2

LEMMA OneMapStep ==
    ASSUME Objects, MapTypes, NEW fd \in Made, \A f \in Made : OneMap(f), Len(conn') = Len(conn),
           \A f \in Made \ {fd} : unmap'[f] = unmap[f] /\ fdmap'[f] = fdmap[f],
           \A f \in Made \ {fd} : conn'[f] = conn[f],
           ~(unmap'[fd] = "conn" /\ fdmap'[fd] \in Assigned),
           conn'[fd].freed => unmap'[fd] # "conn" /\ fdmap'[fd] \notin Assigned
    PROVE  \A f \in Made' : OneMap(f)'
<1>1. Made' = Made BY DEF Made
<1> SUFFICES ASSUME NEW f \in Made PROVE OneMap(f)' BY <1>1
<1>2. CASE f = fd BY <1>2 DEF OneMap, Assigned
<1>3. CASE f # fd
  <2>1. unmap'[f] = unmap[f] /\ fdmap'[f] = fdmap[f] /\ conn'[f] = conn[f] BY <1>3
  <2>2. OneMap(f) OBVIOUS
  <2> QED BY <2>1, <2>2 DEF OneMap
<1> QED BY <1>2, <1>3

LEMMA QueueItem ==
    ASSUME Objects, NEW l \in Made, NEW i \in DOMAIN conn[l].queue
    PROVE  conn[l].queue[i] \in Made
<1>1. conn[l].queue \in Seq(Made) BY DEF Objects
<1>2. i \in 1 .. Len(conn[l].queue) BY <1>1, LenProperties
<1> QED BY <1>1, <1>2, ElementOfSeq

LEMMA QueuedStep ==
    ASSUME Objects, MapTypes, NEW fd \in Made, \A l \in Made : Queued(l), Quiet,
           \A f \in Made \ {fd} : unmap'[f] = unmap[f] /\ fdmap'[f] = fdmap[f],
           \A f \in Made \ {fd} : conn'[f] = conn[f],
           unmap'[fd] = "conn" => unmap[fd] = "conn",
           conn'[fd].freed => conn[fd].freed \/ unmap[fd] = "conn"
    PROVE  \A l \in Made' : Queued(l)'
<1>1. Made' = Made BY DEF Made, Quiet
<1> SUFFICES ASSUME NEW l \in Made, NEW i \in DOMAIN conn'[l].queue
             PROVE  /\ unmap'[conn'[l].queue[i]] # "conn"
                    /\ ~conn'[conn'[l].queue[i]].freed
  BY <1>1 DEF Queued
<1>2. conn'[l].queue = conn[l].queue BY DEF Quiet
<1> DEFINE x == conn[l].queue[i]
<1>3. i \in DOMAIN conn[l].queue BY <1>2
<1>4. x \in Made BY <1>3, QueueItem
<1>5. unmap[x] # "conn" /\ ~conn[x].freed
  <2>1. Queued(l) OBVIOUS
  <2> QED BY <1>3, <2>1 DEF Queued
<1> HIDE DEF x
<1>6. unmap'[x] # "conn" /\ ~conn'[x].freed
  <2>1. CASE x = fd BY <2>1, <1>5
  <2>2. CASE x # fd
    <3>1. unmap'[x] = unmap[x] /\ conn'[x] = conn[x] BY <1>4, <2>2
    <3> QED BY <3>1, <1>5
  <2> QED BY <2>1, <2>2
<1> QED BY <1>2, <1>6 DEF x

\* A Connection in unmap, while nobody connects it.
LEMMA StillFresh ==
    ASSUME Holders, NEW t \in Threads, HasLock(t), pc[t].op # "connecting", NEW c,
           Fresh(c), unmap[c] = "conn"
    PROVE  <<c, "callback">> \notin reported /\ conn[c].pico \notin {"connecting", "listening"}
<1>1. \A s \in Threads : pc[s].op # "connecting" BY OthersOut DEF Held
<1> QED BY <1>1 DEF Fresh

LEMMA FreshStep ==
    ASSUME Objects, ThreadTypes, Holders, NEW t \in Threads, NEW p, Goes(t, p), HasLock(t),
           NEW fd \in Made, \A c \in Made : Fresh(c), Len(conn') = Len(conn), reported' = reported,
           \A f \in Made \ {fd} : unmap'[f] = unmap[f] /\ conn'[f] = conn[f],
           pc[t].op = "connecting" => pc[t].fd = fd,
           conn'[fd].pico = "connecting" => <<fd, "callback">> \notin reported,
           unmap'[fd] = "conn" =>
               \/ p.op = "connecting" /\ p.fd = fd
               \/ /\ <<fd, "callback">> \notin reported
                  /\ conn'[fd].pico \notin {"connecting", "listening"}
    PROVE  \A c \in Made' : Fresh(c)'
<1>1. Made' = Made BY DEF Made
<1> SUFFICES ASSUME NEW c \in Made PROVE Fresh(c)' BY <1>1
<1>2. CASE c = fd BY <1>2, GoesIs DEF Fresh
<1>3. CASE c # fd
  <2>1. unmap'[c] = unmap[c] /\ conn'[c] = conn[c] BY <1>3
  <2>2. Fresh(c) OBVIOUS
  <2>3. \A s \in Threads : ~(pc[s].op = "connecting" /\ pc[s].fd = c)
    BY <1>3, OthersOut DEF Held
  <2> QED BY <2>1, <2>2, <2>3 DEF Fresh
<1> QED BY <1>2, <1>3

-----------------------------------------------------------------------------
\* Reports and successes.

LEMMA CountTypes ==
    ASSUME Objects, History
    PROVE  /\ IsFiniteSet(succeeded) /\ Cardinality(succeeded) \in Nat
           /\ IsFiniteSet(Unhandled) /\ Cardinality(Unhandled) \in Nat
           /\ IsFiniteSet(reported) /\ Cardinality(reported) \in Nat
<1>1. Len(conn) \in Nat BY MadeIds
<1>2. IsFiniteSet(Made) BY <1>1, FS_Interval DEF Made
<1>3. IsFiniteSet(succeeded) /\ IsFiniteSet(Unhandled) /\ IsFiniteSet(reported)
  BY <1>2, FS_Subset DEF History, Unhandled
<1> QED BY <1>3, FS_CardinalityType

LEMMA AddOne ==
    ASSUME NEW S, IsFiniteSet(S), NEW x
    PROVE  IsFiniteSet(S \union {x}) /\ Cardinality(S \union {x}) <= Cardinality(S) + 1
<1>1. Cardinality(S) \in Nat BY FS_CardinalityType
<1>2. IsFiniteSet(S \union {x}) BY FS_AddElement
<1>3. Cardinality(S \union {x}) = IF x \in S THEN Cardinality(S) ELSE Cardinality(S) + 1
  BY FS_AddElement
<1> QED BY <1>1, <1>2, <1>3

LEMMA PaidLess ==
    ASSUME Objects, History, Paid, UNCHANGED history, Unhandled' \subseteq Unhandled
    PROVE  Paid'
<1>1. /\ Cardinality(Unhandled') <= Cardinality(Unhandled) /\ IsFiniteSet(Unhandled')
  BY CountTypes, FS_Subset
<1>2. Cardinality(Unhandled') \in Nat BY <1>1, FS_CardinalityType
<1> QED BY <1>1, <1>2, CountTypes DEF Paid, history

LEMMA PaidMore ==
    ASSUME Objects, History, Paid, NEW c, NEW x, x \notin reported, reported' = reported \union {x},
           succeeded' = succeeded, Unhandled' \subseteq Unhandled \union {c}
    PROVE  Paid'
<1>1. /\ IsFiniteSet(Unhandled \union {c})
      /\ Cardinality(Unhandled \union {c}) <= Cardinality(Unhandled) + 1
  BY CountTypes, AddOne
<1>2. /\ Cardinality(Unhandled') <= Cardinality(Unhandled \union {c}) /\ IsFiniteSet(Unhandled')
  BY <1>1, FS_Subset
<1>3. Cardinality(Unhandled') \in Nat /\ Cardinality(Unhandled \union {c}) \in Nat
  BY <1>1, <1>2, FS_CardinalityType
<1>4. Cardinality(reported') = Cardinality(reported) + 1
  BY CountTypes, FS_AddElement
<1> QED BY <1>1, <1>2, <1>3, <1>4, CountTypes DEF Paid

LEMMA PaidOut ==
    ASSUME Objects, History, Paid, NEW c \in Unhandled, NEW y, Unhandled' \subseteq Unhandled \ {c},
           succeeded' \subseteq succeeded \union {y}, reported' = reported
    PROVE  Paid'
<1>1. /\ IsFiniteSet(Unhandled \ {c})
      /\ Cardinality(Unhandled \ {c}) = Cardinality(Unhandled) - 1
  BY CountTypes, FS_RemoveElement
<1>2. /\ Cardinality(Unhandled') <= Cardinality(Unhandled \ {c}) /\ IsFiniteSet(Unhandled')
  BY <1>1, FS_Subset
<1>3. /\ IsFiniteSet(succeeded \union {y})
      /\ Cardinality(succeeded \union {y}) <= Cardinality(succeeded) + 1
  BY CountTypes, AddOne
<1>4. /\ Cardinality(succeeded') <= Cardinality(succeeded \union {y}) /\ IsFiniteSet(succeeded')
  BY <1>3, FS_Subset
<1>5. /\ Cardinality(Unhandled') \in Nat /\ Cardinality(succeeded \union {y}) \in Nat
      /\ Cardinality(succeeded') \in Nat
  BY <1>2, <1>3, <1>4, FS_CardinalityType
<1> QED BY <1>1, <1>2, <1>3, <1>4, <1>5, CountTypes DEF Paid

-----------------------------------------------------------------------------
\* Steps.

\* A change that leaves UNHANDLED_CONNECTED to the Connections that had it.
LEMMA LessUnhandled ==
    ASSUME Objects, NEW fd \in Made, NEW st, NEW pi, Becomes(fd, st, pi),
           st = "UNHANDLED_CONNECTED" => conn[fd].state = st
    PROVE  Unhandled' \subseteq Unhandled
<1>1. Made' = Made BY DEF Made, Becomes
<1> SUFFICES ASSUME NEW c \in Made, conn'[c].state = "UNHANDLED_CONNECTED"
             PROVE  conn[c].state = "UNHANDLED_CONNECTED"
  BY <1>1 DEF Unhandled
<1> QED BY DEF Becomes

\* What thread t may do to descriptor fd in one step, as it goes on to p.
Allowed(t, p, fd, u, v, pi) ==
    /\ HasLock(t) /\ p.op # "nsockets"
    /\ p.op \in Held => lock' = t
    /\ p.op = "connecting" => p.fd = fd /\ u = "conn"
    /\ pc[t].op = "connecting" => pc[t].fd = fd
    /\ u = "conn" => unmap[fd] = "conn"
    /\ ~(u = "conn" /\ v \in Assigned)
    /\ conn'[fd].freed => u # "conn" /\ v \notin Assigned
    /\ conn'[fd].freed => conn[fd].freed \/ unmap[fd] = "conn"
    /\ pi = "connecting" => <<fd, "callback">> \notin reported
    /\ u = "conn" => \/ p.op = "connecting"
                     \/ <<fd, "callback">> \notin reported /\ pi \notin {"connecting", "listening"}

UnTags == {"absent", "null", "conn"}
FdTags == {"absent", "null", "conn", "notap", "void"}

\* One step of a call on a descriptor.
CallStep(t, p, fd, u, v, st, pi) ==
    /\ p \in [op : Ops, fd : Nat] /\ (p.op \notin NoFd => p.fd \in Made)
    /\ u \in UnTags /\ v \in FdTags
    /\ Goes(t, p) /\ Remaps(fd, u, v) /\ Becomes(fd, st, pi)
    /\ tapConns' \in Seq(Made) /\ fds' \subseteq Made /\ UNCHANGED <<app, history>>
    /\ st = "UNHANDLED_CONNECTED" => conn[fd].state = st

LEMMA CallKeeps ==
    ASSUME ApiInv, NEW t \in Threads, NEW p, NEW fd \in Made, NEW u, NEW v, NEW st, NEW pi,
           CallStep(t, p, fd, u, v, st, pi),
           "nsockets" \notin app.calls => Allowed(t, p, fd, u, v, pi)
    PROVE  ApiInv'
<1> USE DEF UnTags, FdTags
<1>0. Objects /\ MapTypes /\ ThreadTypes /\ History /\ AcceptFifo /\ app \in Apps
  BY DEF ApiInv, ApiFifo, Base
<1>1. Quiet /\ Made' = Made /\ Len(conn') = Len(conn)
  BY BecomesQuiet DEF CallStep, Becomes, Made
<1>2. Objects' /\ AcceptFifo' BY <1>0, <1>1, QuietObjects DEF CallStep
<1>3. /\ MapTypes' /\ unmap'[fd] = u /\ fdmap'[fd] = v
      /\ \A f \in Made \ {fd} : unmap'[f] = unmap[f] /\ fdmap'[f] = fdmap[f]
  BY <1>0, <1>1, RemapTypes DEF CallStep
<1>4. ThreadTypes' BY <1>0, <1>1, GoesTypes DEF CallStep
<1>5. History' BY <1>0, <1>1 DEF CallStep, History, history
<1>6. ApiFifo' BY <1>0, <1>2, <1>3, <1>4, <1>5 DEF ApiFifo, Base, CallStep
<1>7. ASSUME "nsockets" \notin app.calls PROVE (Keeps /\ Paid /\ \A c \in Made : Fresh(c))'
  <2>1. Keeps /\ Paid /\ (\A c \in Made : Fresh(c)) /\ Allowed(t, p, fd, u, v, pi)
    BY <1>7 DEF ApiInv, Obeys
  <2>2. Holders /\ (\A f \in Made : OneMap(f)) /\ (\A f \in Made : Queued(f))
    BY <2>1 DEF Keeps
  <2>3. Goes(t, p) BY DEF CallStep
  <2>4. \A f \in Made \ {fd} : conn'[f] = conn[f] BY DEF CallStep, Becomes
  <2>5. conn'[fd].pico = pi BY DEF CallStep, Becomes
  <2>6. Holders'
    <3>1. p.op = "connecting" => unmap'[p.fd] = "conn" BY <1>3, <2>1 DEF Allowed
    <3>2. (p.op \in Held => lock' = t) /\ HasLock(t) /\ p.op # "nsockets" BY <2>1 DEF Allowed
    <3> QED BY <1>0, <2>2, <2>3, <3>1, <3>2, HoldersStep
  <2>7. \A f \in Made' : OneMap(f)'
    <3>1. ~(unmap'[fd] = "conn" /\ fdmap'[fd] \in Assigned) BY <1>3, <2>1 DEF Allowed
    <3>2. conn'[fd].freed => unmap'[fd] # "conn" /\ fdmap'[fd] \notin Assigned
      BY <1>3, <2>1 DEF Allowed
    <3> QED BY <1>0, <1>1, <1>3, <2>2, <2>4, <3>1, <3>2, OneMapStep
  <2>8. \A f \in Made' : Queued(f)'
    <3>1. unmap'[fd] = "conn" => unmap[fd] = "conn" BY <1>3, <2>1 DEF Allowed
    <3>2. conn'[fd].freed => conn[fd].freed \/ unmap[fd] = "conn" BY <2>1 DEF Allowed
    <3> QED BY <1>0, <1>1, <1>3, <2>2, <2>4, <3>1, <3>2, QueuedStep
  <2>9. \A c \in Made' : Fresh(c)'
    <3>1. \A f \in Made \ {fd} : unmap'[f] = unmap[f] /\ conn'[f] = conn[f] BY <1>3, <2>4
    <3>2. reported' = reported BY DEF CallStep, history
    <3>3. conn'[fd].pico = "connecting" => <<fd, "callback">> \notin reported
      BY <2>1, <2>5 DEF Allowed
    <3>4. unmap'[fd] = "conn" =>
               \/ p.op = "connecting" /\ p.fd = fd
               \/ /\ <<fd, "callback">> \notin reported
                  /\ conn'[fd].pico \notin {"connecting", "listening"}
      BY <1>3, <2>1, <2>5 DEF Allowed
    <3>5. HasLock(t) /\ (pc[t].op = "connecting" => pc[t].fd = fd) BY <2>1 DEF Allowed
    <3> QED BY <1>0, <1>1, <2>1, <2>2, <2>3, <3>1, <3>2, <3>3, <3>4, <3>5, FreshStep
  <2>10. Paid'
    <3>1. Unhandled' \subseteq Unhandled BY <1>0, LessUnhandled DEF CallStep
    <3> QED BY <1>0, <2>1, <3>1, PaidLess DEF CallStep
  <2> QED BY <2>6, <2>7, <2>8, <2>9, <2>10 DEF Keeps
<1>8. app' = app BY DEF CallStep
<1> QED BY <1>6, <1>7, <1>8 DEF ApiInv, Obeys

\* Nothing is changed but where thread t is, on a way without the lock, and who
\* has the lock.
LEMMA OnlyPc ==
    ASSUME ApiInv, NEW t \in Threads, NEW p \in [op : Ops, fd : Nat], Goes(t, p),
           p.op \notin NoFd => p.fd \in Made, p.op \notin Held, pc[t].op \notin Held,
           UNCHANGED <<app, maps, conn, tapConns, fds, history>>,
           "nsockets" \notin app.calls => p.op # "nsockets" /\ (lock' = lock \/ lock = NoOne)
    PROVE  ApiInv'
<1>0. Objects /\ MapTypes /\ ThreadTypes /\ History /\ AcceptFifo /\ app \in Apps
  BY DEF ApiInv, ApiFifo, Base
<1>1. Objects' /\ MapTypes' /\ History' /\ AcceptFifo' /\ app' \in Apps /\ Made' = Made
  BY <1>0 DEF Objects, MapTypes, History, AcceptFifo, Made, maps, history
<1>2. ThreadTypes' BY <1>0, <1>1, GoesTypes DEF ThreadTypes
<1>3. ASSUME "nsockets" \notin app.calls PROVE (Keeps /\ Paid /\ \A c \in Made : Fresh(c))'
  <2>1. Keeps /\ Paid /\ (\A c \in Made : Fresh(c)) BY <1>3 DEF ApiInv, Obeys
  <2>2. Holders /\ (\A f \in Made : OneMap(f)) /\ (\A f \in Made : Queued(f))
    BY <2>1 DEF Keeps
  <2>3. pc'[t] = p /\ \A s \in Threads \ {t} : pc'[s] = pc[s] BY <1>0, GoesIs
  <2>4. Holders'
    <3> SUFFICES ASSUME NEW s \in Threads
                 PROVE  /\ pc'[s].op # "nsockets" /\ (pc'[s].op \in Held => lock' = s)
                        /\ pc'[s].op = "connecting" => unmap'[pc'[s].fd] = "conn"
      BY DEF Holders, Held
    <3>1. CASE s = t BY <1>3, <3>1, <2>3 DEF Held
    <3>2. CASE s # t
      <4>1. pc'[s] = pc[s] BY <3>2, <2>3
      <4>2. pc[s].op \in Held => lock = s BY <2>2 DEF Holders, Held
      <4>3. pc[s].op # "nsockets" /\ (pc[s].op = "connecting" => unmap[pc[s].fd] = "conn")
        BY <2>2 DEF Holders
      <4>4. pc[s].op \in Held => lock' = lock BY <1>3, <4>2, ApiAssumption
      <4> QED BY <4>1, <4>2, <4>3, <4>4 DEF maps
    <3> QED BY <3>1, <3>2
  <2>5. \A f \in Made' : OneMap(f)' /\ Queued(f)' BY <1>1, <2>2 DEF OneMap, Queued, maps
  <2>6. \A c \in Made' : Fresh(c)'
    <3> SUFFICES ASSUME NEW c \in Made PROVE Fresh(c)' BY <1>1
    <3>1. Fresh(c) BY <2>1
    <3>2. \A s \in Threads : (pc[s].op = "connecting" /\ pc[s].fd = c) =>
                             (pc'[s].op = "connecting" /\ pc'[s].fd = c)
      BY <2>3 DEF Held
    <3> QED BY <3>1, <3>2 DEF Fresh, maps, history
  <2>7. Paid'
    <3>1. Unhandled' = Unhandled BY <1>1 DEF Unhandled
    <3> QED BY <2>1, <3>1 DEF Paid, history
  <2> QED BY <2>4, <2>5, <2>6, <2>7 DEF Keeps
<1> QED BY <1>1, <1>2, <1>3 DEF ApiInv, Obeys, ApiFifo, Base

\* The process ends.
LEMMA CrashKeeps ==
    ASSUME ApiInv, Crash, UNCHANGED app
    PROVE  ApiInv'
<1> USE DEF Crash, maps, history
<1>1. Base' /\ AcceptFifo' /\ Made' = Made
  BY DEF ApiInv, ApiFifo, Base, Objects, MapTypes, ThreadTypes, History, AcceptFifo, Made
<1>2. Keeps => Keeps' BY <1>1 DEF Keeps, Holders, OneMap, Queued
<1>3. Paid => Paid' BY <1>1 DEF Paid, Unhandled
<1>4. (\A c \in Made : Fresh(c)) => (\A c \in Made' : Fresh(c)') BY <1>1 DEF Fresh
<1> QED BY <1>1, <1>2, <1>3, <1>4 DEF ApiInv, ApiFifo, Obeys

\* A callback for Connection c that leaves the queues alone.
LEMMA CallbackKeeps ==
    ASSUME ApiInv, NEW c \in Made, NEW st, NEW pi, Becomes(c, st, pi), KeepsFreed(c),
           UNCHANGED <<app, lock, maps, tapConns, pc, fds, succeeded>>, pi # "connecting",
           \/ /\ reported' = reported /\ pi # "listening"
              /\ (st = "UNHANDLED_CONNECTED" => conn[c].state = st)
           \/ /\ reported' = reported \union {<<c, "callback">>}
              /\ conn[c].pico = "connecting" \/ /\ conn[c].pico = "listening"
                                                /\ <<c, "callback">> \notin reported
    PROVE  ApiInv'
<1>0. Objects /\ MapTypes /\ ThreadTypes /\ History /\ AcceptFifo /\ app \in Apps
  BY DEF ApiInv, ApiFifo, Base
<1>1. Quiet /\ Made' = Made /\ Len(conn') = Len(conn)
  BY BecomesQuiet DEF Becomes, Made
<1>2. Objects' /\ AcceptFifo' BY <1>0, <1>1, QuietObjects DEF Objects
<1>3. MapTypes' /\ ThreadTypes' BY <1>0, <1>1 DEF MapTypes, ThreadTypes, maps
<1>4. History'
  <2>1. IsFiniteSet(reported') BY <1>0, FS_AddElement DEF History
  <2> QED BY <1>0, <1>1, <2>1 DEF History
<1>5. ASSUME "nsockets" \notin app.calls PROVE (Keeps /\ Paid /\ \A f \in Made : Fresh(f))'
  <2>1. Keeps /\ Paid /\ (\A f \in Made : Fresh(f)) BY <1>5 DEF ApiInv, Obeys
  <2>2. Holders /\ (\A f \in Made : OneMap(f)) /\ (\A f \in Made : Queued(f))
    BY <2>1 DEF Keeps
  <2>3. Holders' BY <2>2 DEF Holders, maps
  <2>4. \A f \in Made \ {c} : conn'[f] = conn[f] BY DEF Becomes
  <2>5. \A f \in Made' : OneMap(f)'
    <3>1. OneMap(c) BY <2>2
    <3> QED BY <1>0, <1>1, <2>2, <2>4, <3>1, OneMapStep DEF KeepsFreed, OneMap, Assigned, maps
  <2>6. \A f \in Made' : Queued(f)'
    BY <1>0, <1>1, <2>2, <2>4, QueuedStep DEF KeepsFreed, maps
  <2>7. \A f \in Made' : Fresh(f)'
    <3> SUFFICES ASSUME NEW f \in Made PROVE Fresh(f)' BY <1>1
    <3>1. Fresh(f) BY <2>1
    <3>2. CASE f # c
      <4>1. conn'[f] = conn[f] BY <2>4, <3>2
      <4>2. <<f, "callback">> \in reported' => <<f, "callback">> \in reported BY <3>2
      <4> QED BY <3>1, <4>1, <4>2 DEF Fresh, maps
    <3>3. CASE f = c
      <4>1. conn'[f].pico = pi BY <3>3 DEF Becomes
      <4> QED BY <3>1, <3>3, <4>1 DEF Fresh, maps
    <3> QED BY <3>2, <3>3
  <2>8. Paid'
    <3>1. CASE reported' = reported /\ (st = "UNHANDLED_CONNECTED" => conn[c].state = st)
      <4>1. Unhandled' \subseteq Unhandled BY <1>0, <3>1, LessUnhandled
      <4> QED BY <1>0, <2>1, <3>1, <4>1, PaidLess DEF history
    <3>2. CASE /\ reported' = reported \union {<<c, "callback">>}
               /\ conn[c].pico = "connecting" \/ /\ conn[c].pico = "listening"
                                                 /\ <<c, "callback">> \notin reported
      <4>1. <<c, "callback">> \notin reported
        <5>1. Fresh(c) BY <2>1
        <5> QED BY <3>2, <5>1 DEF Fresh
      <4>2. Unhandled' \subseteq Unhandled \union {c}
        <5> SUFFICES ASSUME NEW f \in Made, conn'[f].state = "UNHANDLED_CONNECTED", f # c
                     PROVE  conn[f].state = "UNHANDLED_CONNECTED"
          BY <1>1 DEF Unhandled
        <5> QED BY <2>4
      <4> QED BY <1>0, <2>1, <3>2, <4>1, <4>2, PaidMore
    <3> QED BY <3>1, <3>2
  <2> QED BY <2>3, <2>5, <2>6, <2>7, <2>8 DEF Keeps
<1> QED BY <1>0, <1>2, <1>3, <1>4, <1>5 DEF ApiInv, Obeys, ApiFifo, Base

LEMMA EvConnKeeps ==
    ASSUME ApiInv, NEW c \in Made, EvConn(c), UNCHANGED app
    PROVE  ApiInv'
<1>0. Objects /\ conn[c] \in ConnRec BY ConnType DEF ApiInv, ApiFifo, Base
<1> DEFINE st == IF conn[c].state = "LISTENING" THEN "LISTENING" ELSE "UNHANDLED_CONNECTED"
<1>1. Becomes(c, st, "connected") /\ KeepsFreed(c)
  <2>1. conn' = [conn EXCEPT ![c].pico = "connected", ![c].state = st] BY DEF EvConn
  <2>2. st \in States /\ "connected" \in Picos BY DEF States, Picos
  <2> HIDE DEF st
  <2> QED BY <1>0, <2>1, <2>2, SetState
<1>2. conn'[c].state = st BY <1>1 DEF Becomes
<1>3. \/ reported' = reported /\ st # "UNHANDLED_CONNECTED"
      \/ reported' = reported \union {<<c, "callback">>}
  BY <1>2 DEF EvConn, Report
<1> HIDE DEF st
<1> QED BY <1>1, <1>3, CallbackKeeps DEF EvConn

LEMMA EvConnEarlyKeeps ==
    ASSUME ApiInv, NEW c \in Made, EvConnEarly(c), UNCHANGED app
    PROVE  ApiInv'
<1>0. Objects BY DEF ApiInv, ApiFifo, Base
<1>1. Becomes(c, "UNHANDLED_CONNECTED", "listening") /\ KeepsFreed(c)
  BY <1>0, SetState DEF EvConnEarly, States, Picos
<1>2. reported' = reported \union {<<c, "callback">>} BY DEF EvConnEarly, Report
<1> QED BY <1>1, <1>2, CallbackKeeps DEF EvConnEarly

LEMMA EvRefusedKeeps ==
    ASSUME ApiInv, NEW c \in Made, EvRefused(c), UNCHANGED app
    PROVE  ApiInv'
<1>0. Objects BY DEF ApiInv, ApiFifo, Base
<1>1. PICK b \in BOOLEAN : conn' = [conn EXCEPT ![c].pico = "closed", ![c].closed = @ \/ b]
  BY DEF EvRefused
<1>2. Becomes(c, conn[c].state, "closed") /\ KeepsFreed(c)
  BY <1>0, <1>1, SetFlags DEF Picos
<1> QED BY <1>2, CallbackKeeps DEF EvRefused, history

LEMMA EvErrKeeps ==
    ASSUME ApiInv, NEW c \in Made, EvErr(c), UNCHANGED app
    PROVE  ApiInv'
<1>0. Objects BY DEF ApiInv, ApiFifo, Base
<1>1. Becomes(c, "ECONNRESET", "connected") /\ KeepsFreed(c)
  BY <1>0, SetState DEF EvErr, States, Picos
<1>2. UNCHANGED <<app, lock, maps, tapConns, pc, fds, succeeded>> /\ reported' = reported
  BY DEF EvErr, history
<1> QED BY <1>1, <1>2, CallbackKeeps

LEMMA EvCloseKeeps ==
    ASSUME ApiInv, NEW c \in Made, EvClose(c), UNCHANGED app
    PROVE  ApiInv'
<1>0. Objects BY DEF ApiInv, ApiFifo, Base
<1>1. Becomes(c, conn[c].state, "closed") /\ KeepsFreed(c)
  <2>1. conn' = [conn EXCEPT ![c].pico = "closed", ![c].closed = TRUE] BY DEF EvClose
  <2>2. "closed" \in Picos /\ TRUE \in BOOLEAN BY DEF Picos
  <2> QED BY <1>0, <2>1, <2>2, SetFlags
<1> QED BY <1>1, CallbackKeeps DEF EvClose, history

-----------------------------------------------------------------------------
\* The calls.

\* What thread t knows when its call o has a descriptor.
LEMMA InCall ==
    ASSUME ApiInv, NEW t \in Threads, NEW o, o \notin NoFd, At(t, o)
    PROVE  /\ Objects /\ MapTypes /\ ThreadTypes /\ History
           /\ pc[t] \in [op : Ops, fd : Nat] /\ pc[t].op = o /\ pc[t].fd \in Made
           /\ unmap[pc[t].fd] \in UnTags /\ fdmap[pc[t].fd] \in FdTags
           /\ conn[pc[t].fd] \in ConnRec
<1>1. Objects /\ MapTypes /\ ThreadTypes /\ History BY DEF ApiInv, ApiFifo, Base
<1>2. pc[t] \in [op : Ops, fd : Nat] /\ pc[t].op = o /\ pc[t].fd \in Made
  BY <1>1, PcIs DEF At
<1>3. unmap[pc[t].fd] \in UnTags /\ fdmap[pc[t].fd] \in FdTags
  BY <1>1, <1>2, EntryTypes DEF UnTags, FdTags
<1> QED BY <1>1, <1>2, <1>3, ConnType

\* An application that does not call zts_nsockets.
LEMMA Obeying ==
    ASSUME ApiInv, "nsockets" \notin app.calls
    PROVE  /\ Holders /\ \A f \in Made : OneMap(f) /\ Queued(f) /\ Fresh(f)
  BY DEF ApiInv, Obeys, Keeps

\* What it knows of a descriptor when nobody has the lock.
LEMMA Settled ==
    ASSUME ApiInv, "nsockets" \notin app.calls, NEW t \in Threads, NEW o, o \notin Held, o \notin NoFd,
           Locked(t, o), NEW fd, fd = pc[t].fd
    PROVE  /\ HasLock(t) /\ pc[t].op # "connecting"
           /\ OneMap(fd)
           /\ conn[fd].pico = "connecting" => <<fd, "callback">> \notin reported
           /\ unmap[fd] = "conn" => /\ <<fd, "callback">> \notin reported
                                    /\ conn[fd].pico \notin {"connecting", "listening"}
<1>1. HasLock(t) /\ At(t, o) BY DEF Locked, HasLock
<1>2. pc[t].op = o /\ fd \in Made BY <1>1, InCall
<1>3. pc[t].op # "connecting" BY <1>2 DEF Held
<1>4. Holders /\ OneMap(fd) /\ Fresh(fd) BY <1>2, Obeying
<1>5. unmap[fd] = "conn" => /\ <<fd, "callback">> \notin reported
                            /\ conn[fd].pico \notin {"connecting", "listening"}
  BY <1>1, <1>3, <1>4, StillFresh
<1> QED BY <1>1, <1>3, <1>4, <1>5 DEF Fresh

\* A call that leaves the Connections alone and returns.
LEMMA Returns ==
    ASSUME ApiInv, NEW t \in Threads, NEW o, o \notin Held, o \notin NoFd, Locked(t, o), Return(t),
           NEW fd, fd = pc[t].fd, NEW u \in UnTags, NEW v \in FdTags, Remaps(fd, u, v),
           fds' \subseteq Made, UNCHANGED <<app, conn, tapConns, history>>,
           u = "conn" => unmap[fd] = "conn",
           v \in Assigned => v = fdmap[fd] \/ (unmap[fd] = "conn" /\ u # "conn")
    PROVE  ApiInv'
<1>1. At(t, o) BY DEF Locked
<1>2. /\ Objects /\ ThreadTypes /\ fd \in Made /\ pc[t].op = o BY <1>1, InCall
<1>3. Becomes(fd, conn[fd].state, conn[fd].pico)
  BY <1>2 DEF Becomes, Objects
<1>4. CallStep(t, Idle, fd, u, v, conn[fd].state, conn[fd].pico)
  BY <1>2, <1>3, ReturnGoes, IdleType DEF CallStep, Objects
<1>5. ASSUME "nsockets" \notin app.calls PROVE Allowed(t, Idle, fd, u, v, conn[fd].pico)
  <2>1. Idle.op = "idle" BY IdleType
  <2>2. /\ HasLock(t) /\ pc[t].op # "connecting" /\ OneMap(fd)
        /\ conn[fd].pico = "connecting" => <<fd, "callback">> \notin reported
        /\ unmap[fd] = "conn" => /\ <<fd, "callback">> \notin reported
                                 /\ conn[fd].pico \notin {"connecting", "listening"}
    BY <1>5, Settled
  <2> QED BY <2>1, <2>2 DEF Allowed, Held, OneMap, Assigned
<1> QED BY <1>2, <1>4, <1>5, CallKeeps

LEMMA ConnectFailsKeeps ==
    ASSUME ApiInv, NEW t \in Threads, ConnectFails(t), UNCHANGED app
    PROVE  ApiInv'
<1> DEFINE fd == pc[t].fd
           v == IF unmap[fd] = "conn" THEN "notap" ELSE "void"
<1>1. Locked(t, "connect") /\ Return(t) BY DEF ConnectFails
<1>2. ThreadTypes BY DEF ApiInv, ApiFifo, Base
<1>3. Remaps(fd, "absent", v) BY DEF ConnectFails, Assign, Remaps
<1>4. "absent" \in UnTags /\ v \in FdTags BY DEF UnTags, FdTags
<1>5. v \in Assigned => unmap[fd] = "conn" /\ "absent" # "conn" BY DEF Assigned
<1>6. fds' \subseteq Made BY <1>2 DEF ThreadTypes, ConnectFails
<1> HIDE DEF v
<1> QED BY <1>1, <1>3, <1>4, <1>5, <1>6, Returns DEF Held, NoFd, ConnectFails

\* What an entry that was touched is.
LEMMA TouchedIs ==
    ASSUME NEW e
    PROVE  /\ e \in UnTags => Touched(e) \in UnTags
           /\ e \in FdTags => Touched(e) \in FdTags
           /\ Touched(e) = "conn" <=> e = "conn"
           /\ Touched(e) \in Assigned => Touched(e) = e
           /\ e = "conn" => Touched(e) = e
  BY DEF Touched, UnTags, FdTags, Assigned

\* Entries of fd are touched, or not.
TouchesOf(fd) ==
    /\ unmap' = Touch(unmap, fd) \/ unmap' = unmap
    /\ fdmap' = Touch(fdmap, fd) \/ fdmap' = fdmap

LEMMA TouchesReturns ==
    ASSUME ApiInv, NEW t \in Threads, NEW o, o \notin Held, o \notin NoFd, Locked(t, o), Return(t),
           NEW fd, fd = pc[t].fd, TouchesOf(fd), fds' \subseteq Made,
           UNCHANGED <<app, conn, tapConns, history>>
    PROVE  ApiInv'
<1>1. At(t, o) BY DEF Locked
<1>2. /\ Objects /\ MapTypes /\ fd \in Made BY <1>1, InCall
<1>3. unmap[fd] \in UnTags /\ fdmap[fd] \in FdTags BY <1>1, InCall
<1>4. fd \in Ids BY <1>2, MadeIds
<1>5. PICK u \in {unmap[fd], Touched(unmap[fd])} : unmap' = [unmap EXCEPT ![fd] = u]
  BY <1>2, <1>4, TouchIs DEF TouchesOf, MapTypes
<1>6. PICK v \in {fdmap[fd], Touched(fdmap[fd])} : fdmap' = [fdmap EXCEPT ![fd] = v]
  BY <1>2, <1>4, TouchIs DEF TouchesOf, MapTypes
<1>7. u \in UnTags /\ v \in FdTags BY <1>3, TouchedIs
<1>8. /\ u = "conn" => unmap[fd] = "conn"
      /\ v \in Assigned => v = fdmap[fd]
  BY <1>5, <1>6, TouchedIs
<1>9. Remaps(fd, u, v) BY <1>5, <1>6 DEF Remaps
<1> QED BY <1>7, <1>8, <1>9, Returns

\* A call that changes Connection fd and not the maps.
LEMMA Changes ==
    ASSUME ApiInv, NEW t \in Threads, NEW o, o \notin Held, o \notin NoFd, Locked(t, o),
           NEW fd, fd = pc[t].fd, NEW p \in [op : Ops, fd : Nat], p.op \notin NoFd => p.fd = fd,
           p.op # "nsockets", Goes(t, p), NEW st, NEW pi, Becomes(fd, st, pi), KeepsFreed(fd),
           UNCHANGED <<app, maps, fds, history>>, tapConns' \in Seq(Made),
           st = "UNHANDLED_CONNECTED" => conn[fd].state = st,
           p.op \in Held => lock' = t,
           p.op = "connecting" => unmap[fd] = "conn",
           pi = "connecting" => unmap[fd] = "conn" \/ conn[fd].pico = pi,
           unmap[fd] = "conn" => p.op = "connecting" \/ pi \notin {"connecting", "listening"}
    PROVE  ApiInv'
<1> DEFINE u == unmap[fd]
           v == fdmap[fd]
<1>1. At(t, o) BY DEF Locked
<1>2. Objects /\ MapTypes /\ ThreadTypes /\ fd \in Made /\ u \in UnTags /\ v \in FdTags
  BY <1>1, InCall
<1>3. Remaps(fd, u, v) BY <1>2, RemapSame
<1>4. CallStep(t, p, fd, u, v, st, pi)
  BY <1>2, <1>3 DEF CallStep, ThreadTypes
<1>5. ASSUME "nsockets" \notin app.calls PROVE Allowed(t, p, fd, u, v, pi)
  <2>1. /\ HasLock(t) /\ pc[t].op # "connecting" /\ OneMap(fd)
        /\ conn[fd].pico = "connecting" => <<fd, "callback">> \notin reported
        /\ unmap[fd] = "conn" => /\ <<fd, "callback">> \notin reported
                                 /\ conn[fd].pico \notin {"connecting", "listening"}
    BY <1>5, Settled
  <2>2. p.op = "connecting" => p.fd = fd BY DEF NoFd
  <2> QED BY <2>1, <2>2 DEF Allowed, OneMap, Assigned, KeepsFreed
<1> HIDE DEF u, v
<1> QED BY <1>2, <1>4, <1>5, CallKeeps

\* An unassigned Connection is changed and assigned.
LEMMA Assigns ==
    ASSUME ApiInv, NEW t \in Threads, NEW o, o \notin Held, o \notin NoFd, Locked(t, o),
           NEW fd, fd = pc[t].fd, unmap[fd] = "conn", Assign(fd, "conn"), Return(t),
           NEW pi, Becomes(fd, conn[fd].state, pi), KeepsFreed(fd),
           pi = "connecting" => conn[fd].pico = pi, UNCHANGED <<app, fds, history>>,
           tapConns' \in Seq(Made)
    PROVE  ApiInv'
<1>1. At(t, o) BY DEF Locked
<1>2. /\ Objects /\ MapTypes /\ ThreadTypes /\ fd \in Made BY <1>1, InCall
<1>3. Remaps(fd, "absent", "conn") BY DEF Assign, Remaps
<1>4. CallStep(t, Idle, fd, "absent", "conn", conn[fd].state, pi)
  BY <1>2, <1>3, ReturnGoes, IdleType DEF CallStep, ThreadTypes, UnTags, FdTags
<1>5. ASSUME "nsockets" \notin app.calls PROVE Allowed(t, Idle, fd, "absent", "conn", pi)
  <2>1. /\ HasLock(t) /\ pc[t].op # "connecting" /\ OneMap(fd)
        /\ conn[fd].pico = "connecting" => <<fd, "callback">> \notin reported
    BY <1>5, Settled
  <2>2. Idle.op = "idle" BY IdleType
  <2>3. ~conn'[fd].freed BY <2>1 DEF OneMap, KeepsFreed
  <2> QED BY <2>1, <2>2, <2>3 DEF Allowed, Held
<1> QED BY <1>2, <1>4, <1>5, CallKeeps

LEMMA ConnectKeeps ==
    ASSUME ApiInv, NEW t \in Threads, zts_connect(t), UNCHANGED app
    PROVE  ApiInv'
<1> DEFINE fd == pc[t].fd
<1>0. Locked(t, "connect") /\ unmap[fd] = "conn" /\ At(t, "connect") BY DEF zts_connect, Locked
<1>00. "connect" \notin Held /\ "connect" \notin NoFd BY DEF Held, NoFd
<1>1. Objects /\ MapTypes /\ ThreadTypes /\ fd \in Made /\ pc[t] \in [op : Ops, fd : Nat]
      /\ conn[fd] \in ConnRec
  BY <1>0, <1>00, InCall
<1>2. CASE Crash BY <1>2, CrashKeeps
<1>3. CASE /\ conn' = [conn EXCEPT ![fd].pico = "connecting"]
           /\ lock' = t /\ Goto(t, "connecting")
           /\ UNCHANGED <<maps, tapConns, fds, crashed, history>>
  <2> DEFINE p == [op |-> "connecting", fd |-> fd]
  <2>1. Becomes(fd, conn[fd].state, "connecting") /\ KeepsFreed(fd)
    BY <1>1, <1>3, SetPico DEF Picos
  <2>2. p \in [op : Ops, fd : Nat] /\ p.op = "connecting" /\ p.fd = fd BY <1>1 DEF Ops
  <2>3. Goes(t, p) BY <1>1, <1>3, GotoGoes DEF Ops
  <2> HIDE DEF p
  <2> QED BY <1>0, <1>00, <1>1, <1>3, <2>1, <2>2, <2>3, Changes DEF Objects
<1>4. CASE /\ conn' = [conn EXCEPT ![fd].sock = TRUE]
           /\ Assign(fd, "conn") /\ Return(t) /\ conn[fd].pico # "wild"
           /\ UNCHANGED <<lock, tapConns, fds, crashed, history>>
  <2>1. conn[fd].pico \in Picos BY <1>1 DEF ConnRec
  <2>2. TRUE \in BOOLEAN OBVIOUS
  <2>3. Becomes(fd, conn[fd].state, conn[fd].pico) /\ KeepsFreed(fd)
    BY <1>1, <1>4, <2>1, <2>2, SetFlags
  <2>4. tapConns' \in Seq(Made) BY <1>1, <1>4 DEF Objects
  <2> QED BY <1>0, <1>00, <1>4, <2>3, <2>4, Assigns
<1> QED BY <1>2, <1>3, <1>4 DEF zts_connect

LEMMA ConnectGivesKeeps ==
    ASSUME ApiInv, NEW t \in Threads, ConnectGivesToTap(t), UNCHANGED app
    PROVE  ApiInv'
<1> DEFINE fd == pc[t].fd
<1>0. At(t, "connecting") BY DEF ConnectGivesToTap
<1>1. /\ Objects /\ MapTypes /\ ThreadTypes /\ fd \in Made /\ pc[t].op = "connecting"
      /\ conn[fd] \in ConnRec /\ pc[t] \in [op : Ops, fd : Nat]
  BY <1>0, InCall DEF NoFd
<1>2. PICK p \in [op : Ops, fd : Nat] :
        Goes(t, p) /\ p.op \in {"idle", "waiting"} /\ (p.op \notin NoFd => p.fd = fd)
  <2>1. CASE Return(t) BY <2>1, ReturnGoes, IdleType DEF NoFd
  <2>2. CASE Goto(t, "waiting")
    <3> DEFINE p == [op |-> "waiting", fd |-> fd]
    <3>1. Goes(t, p) BY <1>1, <2>2, GotoGoes DEF Ops
    <3>2. p \in [op : Ops, fd : Nat] /\ p.op = "waiting" /\ p.fd = fd BY <1>1 DEF Ops
    <3> QED BY <3>1, <3>2
  <2> QED BY <2>1, <2>2 DEF ConnectGivesToTap
<1>3. conn[fd].pico \in Picos /\ TRUE \in BOOLEAN BY <1>1 DEF ConnRec
<1>4. Becomes(fd, conn[fd].state, conn[fd].pico) /\ KeepsFreed(fd)
  BY <1>1, <1>3, SetFlags DEF ConnectGivesToTap
<1>5. tapConns' \in Seq(Made) BY <1>1, TapAppend DEF ConnectGivesToTap
<1>6. Remaps(fd, "absent", "conn") BY DEF ConnectGivesToTap, Assign, Remaps
<1>7. CallStep(t, p, fd, "absent", "conn", conn[fd].state, conn[fd].pico)
  BY <1>1, <1>2, <1>4, <1>5, <1>6 DEF CallStep, ThreadTypes, UnTags, FdTags, ConnectGivesToTap
<1>8. ASSUME "nsockets" \notin app.calls PROVE Allowed(t, p, fd, "absent", "conn", conn[fd].pico)
  <2>1. Holders /\ OneMap(fd) /\ Fresh(fd) BY <1>1, <1>8, Obeying
  <2>2. lock = t /\ unmap[fd] = "conn" BY <1>1, <2>1 DEF Holders
  <2>3. ~conn'[fd].freed BY <1>4, <2>1, <2>2 DEF OneMap, KeepsFreed
  <2>4. conn[fd].pico = "connecting" => <<fd, "callback">> \notin reported BY <2>1 DEF Fresh
  <2> QED BY <1>2, <2>2, <2>3, <2>4 DEF Allowed, Held, HasLock
<1> QED BY <1>1, <1>7, <1>8, CallKeeps

LEMMA BindKeeps ==
    ASSUME ApiInv, NEW t \in Threads, zts_bind(t), UNCHANGED app
    PROVE  ApiInv'
<1> DEFINE fd == pc[t].fd
<1>0. Locked(t, "bind") /\ At(t, "bind") BY DEF zts_bind, Locked
<1>00. "bind" \notin Held /\ "bind" \notin NoFd BY DEF Held, NoFd
<1>1. Objects /\ MapTypes /\ ThreadTypes /\ fd \in Made /\ conn[fd] \in ConnRec
  BY <1>0, <1>00, InCall
<1>2. CASE /\ unmap' = Touch(unmap, fd) /\ Return(t)
           /\ UNCHANGED <<lock, fdmap, conn, tapConns, fds, crashed, history>>
  <2>1. fds' \subseteq Made BY <1>1, <1>2 DEF ThreadTypes
  <2> QED BY <1>0, <1>00, <1>2, <2>1, TouchesReturns DEF TouchesOf
<1>3. CASE Crash BY <1>3, CrashKeeps
<1>4. ASSUME NEW r \in pico_Bind, unmap[fd] = "conn", tapConns' = Append(tapConns, fd),
             conn' = [conn EXCEPT ![fd].tap = TRUE, ![fd].pico = r],
             IF r = "bound" THEN Bound(fd) ELSE UNCHANGED maps,
             Return(t), UNCHANGED <<lock, fds, crashed, history>>
      PROVE  ApiInv'
  <2>1. r \in {"bound", "open"} /\ r \in Picos /\ TRUE \in BOOLEAN BY <1>4 DEF pico_Bind, Picos
  <2>2. Becomes(fd, conn[fd].state, r) /\ KeepsFreed(fd) BY <1>1, <1>4, <2>1, SetFlags
  <2>3. tapConns' \in Seq(Made) BY <1>1, <1>4, TapAppend
  <2>4. CASE r = "bound"
    <3>1. Assign(fd, "conn") BY <1>4, <2>4 DEF Bound
    <3> QED BY <1>0, <1>00, <1>4, <2>2, <2>3, <2>4, <3>1, Assigns
  <2>5. CASE r = "open"
    <3>1. UNCHANGED maps BY <1>4, <2>5
    <3>2. Goes(t, Idle) BY <1>4, ReturnGoes
    <3>3. Idle.op \notin Held /\ Idle.op = "idle" BY IdleType DEF Held
    <3>4. UNCHANGED <<app, maps, fds, history>> BY <1>4, <3>1
    <3>5. Idle \in [op : Ops, fd : Nat] /\ Idle.op \in NoFd BY IdleType
    <3>6. /\ r # "UNHANDLED_CONNECTED" /\ r # "connecting" /\ r \notin {"connecting", "listening"}
          /\ Idle.op # "nsockets" /\ Idle.op # "connecting"
      BY <2>5, <3>3
    <3> QED BY <1>0, <1>00, <2>2, <2>3, <3>2, <3>3, <3>4, <3>5, <3>6, Changes
  <2> QED BY <2>1, <2>4, <2>5
<1> QED BY <1>2, <1>3, <1>4 DEF zts_bind

LEMMA ListenFailsKeeps ==
    ASSUME ApiInv, NEW t \in Threads, ListenFails(t), UNCHANGED app
    PROVE  ApiInv'
<1>1. Locked(t, "listen") /\ Return(t) BY DEF ListenFails
<1>2. TouchesOf(pc[t].fd) BY DEF ListenFails, TouchesOf
<1>3. fds' \subseteq Made BY DEF ListenFails, ApiInv, ApiFifo, Base, ThreadTypes
<1> QED BY <1>1, <1>2, <1>3, TouchesReturns DEF Held, NoFd, ListenFails

LEMMA ListenKeeps ==
    ASSUME ApiInv, NEW t \in Threads, zts_listen(t), UNCHANGED app
    PROVE  ApiInv'
<1> DEFINE fd == pc[t].fd
           v == IF conn[fd].pico = "bound" THEN "listening" ELSE conn[fd].pico
           p == [op |-> "listening", fd |-> fd]
<1>0. Locked(t, "listen") /\ At(t, "listen") BY DEF zts_listen, Locked
<1>00. "listen" \notin Held /\ "listen" \notin NoFd BY DEF Held, NoFd
<1>1. Objects /\ MapTypes /\ ThreadTypes /\ fd \in Made /\ conn[fd] \in ConnRec
      /\ pc[t] \in [op : Ops, fd : Nat] /\ unmap[fd] \in UnTags /\ fdmap[fd] \in FdTags
  BY <1>0, <1>00, InCall
<1>2. v \in Picos BY <1>1 DEF ConnRec, Picos
<1>3. conn' = [conn EXCEPT ![fd].pico = v] BY DEF zts_listen
<1>4. v = "connecting" => conn[fd].pico = "connecting" OBVIOUS
<1>5. p \in [op : Ops, fd : Nat] /\ p.op = "listening" /\ p.fd = fd BY <1>1 DEF Ops
<1>6. Goes(t, p) BY <1>1, GotoGoes DEF zts_listen, Ops
<1> HIDE DEF v, p
<1>7. Becomes(fd, conn[fd].state, v) /\ KeepsFreed(fd) BY <1>1, <1>2, <1>3, SetPico
<1>8. Remaps(fd, unmap[fd], fdmap[fd]) BY <1>1, RemapSame DEF zts_listen
<1>9. CallStep(t, p, fd, unmap[fd], fdmap[fd], conn[fd].state, v)
  BY <1>1, <1>5, <1>6, <1>7, <1>8 DEF CallStep, Objects, ThreadTypes, zts_listen
<1>10. ASSUME "nsockets" \notin app.calls PROVE Allowed(t, p, fd, unmap[fd], fdmap[fd], v)
  <2>1. /\ HasLock(t) /\ pc[t].op # "connecting" /\ OneMap(fd)
        /\ conn[fd].pico = "connecting" => <<fd, "callback">> \notin reported
    BY <1>0, <1>00, <1>10, Settled
  <2>2. fdmap[fd] = "conn" /\ unmap[fd] # "conn" /\ lock' = t BY <2>1 DEF zts_listen, OneMap
  <2> QED BY <1>4, <1>5, <1>7, <2>1, <2>2 DEF Allowed, OneMap, Assigned, KeepsFreed
<1> QED BY <1>1, <1>9, <1>10, CallKeeps

LEMMA ListenSetsKeeps ==
    ASSUME ApiInv, NEW t \in Threads, ListenSetsState(t), UNCHANGED app
    PROVE  ApiInv'
<1> DEFINE fd == pc[t].fd
<1>0. At(t, "listening") /\ Return(t) BY DEF ListenSetsState
<1>1. Objects /\ MapTypes /\ ThreadTypes /\ fd \in Made /\ conn[fd] \in ConnRec
      /\ pc[t].op = "listening" /\ unmap[fd] \in UnTags /\ fdmap[fd] \in FdTags
  BY <1>0, InCall DEF NoFd
<1>2. conn[fd].pico \in Picos /\ "LISTENING" \in States BY <1>1 DEF ConnRec, States
<1>3. Becomes(fd, "LISTENING", conn[fd].pico) /\ KeepsFreed(fd)
  BY <1>1, <1>2, SetState DEF ListenSetsState
<1>4. Remaps(fd, unmap[fd], fdmap[fd]) BY <1>1, RemapSame DEF ListenSetsState
<1>5. CallStep(t, Idle, fd, unmap[fd], fdmap[fd], "LISTENING", conn[fd].pico)
  BY <1>0, <1>1, <1>3, <1>4, ReturnGoes, IdleType DEF CallStep, Objects, ThreadTypes, ListenSetsState
<1>6. ASSUME "nsockets" \notin app.calls PROVE Allowed(t, Idle, fd, unmap[fd], fdmap[fd], conn[fd].pico)
  <2>1. Idle.op = "idle" BY IdleType
  <2>2. Holders /\ OneMap(fd) /\ Fresh(fd) BY <1>1, <1>6, Obeying
  <2>3. HasLock(t) BY <1>1, <2>2 DEF Holders, HasLock
  <2>4. unmap[fd] = "conn" => /\ <<fd, "callback">> \notin reported
                              /\ conn[fd].pico \notin {"connecting", "listening"}
    BY <1>1, <2>2, <2>3, StillFresh
  <2>5. conn[fd].pico = "connecting" => <<fd, "callback">> \notin reported BY <2>2 DEF Fresh
  <2> QED BY <1>1, <1>3, <2>1, <2>2, <2>3, <2>4, <2>5 DEF Allowed, Held, OneMap, Assigned, KeepsFreed
<1> QED BY <1>1, <1>5, <1>6, CallKeeps

LEMMA AcceptFailsKeeps ==
    ASSUME ApiInv, NEW t \in Threads, AcceptFails(t), UNCHANGED app
    PROVE  ApiInv'
<1>1. Locked(t, "accept") /\ Return(t) BY DEF AcceptFails
<1>2. TouchesOf(pc[t].fd) BY DEF AcceptFails, TouchesOf
<1>3. fds' \subseteq Made BY DEF AcceptFails, ApiInv, ApiFifo, Base, ThreadTypes
<1> QED BY <1>1, <1>2, <1>3, TouchesReturns DEF Held, NoFd, AcceptFails

LEMMA GetPicoSocketKeeps ==
    ASSUME ApiInv, NEW t \in Threads, zts_get_pico_socket(t), UNCHANGED app
    PROVE  ApiInv'
<1>1. CASE Crash BY <1>1, CrashKeeps
<1>2. CASE ~Crash
  <2>1. Locked(t, "get_pico_socket") /\ Return(t) BY <1>2 DEF zts_get_pico_socket
  <2>2. TouchesOf(pc[t].fd) BY <1>2 DEF zts_get_pico_socket, TouchesOf
  <2>3. fds' \subseteq Made BY <1>2 DEF zts_get_pico_socket, ApiInv, ApiFifo, Base, ThreadTypes
  <2> QED BY <1>2, <2>1, <2>2, <2>3, TouchesReturns DEF Held, NoFd, zts_get_pico_socket
<1> QED BY <1>1, <1>2

\* An unassigned Connection is deleted.
LEMMA Deletes ==
    ASSUME ApiInv, NEW t \in Threads, NEW o, o \notin Held, o \notin NoFd, Locked(t, o), Return(t),
           NEW fd, fd = pc[t].fd, unmap[fd] = "conn", DeleteUnassigned(fd), fds' \subseteq Made,
           UNCHANGED <<app, fdmap, tapConns, history>>
    PROVE  ApiInv'
<1>1. At(t, o) BY DEF Locked
<1>2. /\ Objects /\ MapTypes /\ ThreadTypes /\ fd \in Made /\ fdmap[fd] \in FdTags BY <1>1, InCall
<1>3. Becomes(fd, conn[fd].state, "closed") BY <1>2, SetFreed DEF DeleteUnassigned
<1>4. Remaps(fd, "absent", fdmap[fd])
  <2>1. fd \in Ids BY <1>2, MadeIds
  <2> QED BY <1>2, <2>1 DEF DeleteUnassigned, Remaps, MapTypes
<1>5. CallStep(t, Idle, fd, "absent", fdmap[fd], conn[fd].state, "closed")
  BY <1>2, <1>3, <1>4, ReturnGoes, IdleType DEF CallStep, UnTags, Objects
<1>6. ASSUME "nsockets" \notin app.calls PROVE Allowed(t, Idle, fd, "absent", fdmap[fd], "closed")
  <2>1. HasLock(t) /\ pc[t].op # "connecting" /\ OneMap(fd) BY <1>6, Settled
  <2>2. Idle.op = "idle" BY IdleType
  <2>3. fdmap[fd] \notin Assigned BY <2>1 DEF OneMap, Assigned
  <2> QED BY <2>1, <2>2, <2>3 DEF Allowed, Held
<1> QED BY <1>2, <1>5, <1>6, CallKeeps

\* The pico_socket of a Connection that is not in unmap is shut down or closed.
LEMMA Closes ==
    ASSUME ApiInv, NEW t \in Threads, NEW o, o \notin Held, o \notin NoFd, Locked(t, o), Return(t),
           NEW fd, fd = pc[t].fd, unmap[fd] # "conn", unmap' = Touch(unmap, fd),
           NEW v \in FdTags, fdmap' = [fdmap EXCEPT ![fd] = v], v \in Assigned => v = fdmap[fd],
           NEW r \in {conn[fd].pico, "closed"}, conn' = [conn EXCEPT ![fd].pico = r],
           fds' \subseteq Made, UNCHANGED <<app, tapConns, history>>
    PROVE  ApiInv'
<1> DEFINE u == Touched(unmap[fd])
<1>1. At(t, o) BY DEF Locked
<1>2. /\ Objects /\ MapTypes /\ ThreadTypes /\ fd \in Made
      /\ unmap[fd] \in UnTags /\ conn[fd] \in ConnRec
  BY <1>1, InCall
<1>3. r \in Picos BY <1>2 DEF ConnRec, Picos
<1>4. Becomes(fd, conn[fd].state, r) /\ KeepsFreed(fd) BY <1>2, <1>3, SetPico
<1>5. Remaps(fd, u, v) BY <1>2, TouchIs DEF Remaps
<1>6. u \in UnTags /\ u # "conn" BY <1>2, TouchedIs
<1> HIDE DEF u
<1>7. CallStep(t, Idle, fd, u, v, conn[fd].state, r)
  BY <1>2, <1>4, <1>5, <1>6, ReturnGoes, IdleType DEF CallStep, Objects
<1>8. ASSUME "nsockets" \notin app.calls PROVE Allowed(t, Idle, fd, u, v, r)
  <2>1. /\ HasLock(t) /\ pc[t].op # "connecting" /\ OneMap(fd)
        /\ conn[fd].pico = "connecting" => <<fd, "callback">> \notin reported
    BY <1>8, Settled
  <2>2. Idle.op = "idle" BY IdleType
  <2>3. conn'[fd].freed => conn[fd].freed /\ fdmap[fd] \notin Assigned
    BY <1>4, <2>1 DEF OneMap, KeepsFreed, Assigned
  <2> QED BY <1>6, <2>1, <2>2, <2>3 DEF Allowed, Held
<1> QED BY <1>2, <1>7, <1>8, CallKeeps

LEMMA CloseResults ==
    ASSUME NEW c
    PROVE  /\ pico_socket_shutdown(c) \subseteq {c.pico, "closed"}
           /\ pico_Close(c) \subseteq {c.pico, "closed"}
  BY DEF pico_Close, pico_socket_shutdown

LEMMA CloseKeeps ==
    ASSUME ApiInv, NEW t \in Threads, zts_close(t), UNCHANGED app
    PROVE  ApiInv'
<1> DEFINE fd == pc[t].fd
<1>0. Locked(t, "close") /\ At(t, "close") /\ Return(t) BY DEF zts_close, Locked
<1>00. "close" \notin Held /\ "close" \notin NoFd BY DEF Held, NoFd
<1>1. Objects /\ MapTypes /\ ThreadTypes /\ fd \in Made /\ unmap[fd] \in UnTags
  BY <1>0, <1>00, InCall
<1>2. fds' \subseteq Made /\ UNCHANGED <<tapConns, history>> BY <1>1 DEF zts_close, ThreadTypes
<1>3. CASE unmap[fd] = "conn"
  BY <1>0, <1>00, <1>2, <1>3, Deletes DEF zts_close
<1>4. CASE unmap[fd] # "conn" /\ fdmap[fd] \in {"absent", "null"}
  <2>1. TouchesOf(fd) /\ conn' = conn BY <1>4 DEF zts_close, TouchesOf
  <2> QED BY <1>0, <1>00, <1>2, <2>1, TouchesReturns
<1>5. CASE unmap[fd] # "conn" /\ fdmap[fd] = "void"
  <2>1. Remaps(fd, Touched(unmap[fd]), "absent") /\ conn' = conn
    BY <1>1, <1>5, TouchIs DEF zts_close, Remaps
  <2>2. Touched(unmap[fd]) \in UnTags /\ Touched(unmap[fd]) # "conn" BY <1>1, <1>5, TouchedIs
  <2>3. "absent" \in FdTags /\ "absent" \notin Assigned BY DEF FdTags, Assigned
  <2> QED BY <1>0, <1>00, <1>2, <2>1, <2>2, <2>3, Returns
<1>6. CASE unmap[fd] # "conn" /\ fdmap[fd] \in {"conn", "notap"}
  <2>1. PICK r \in pico_Close(conn[fd]) : conn' = [conn EXCEPT ![fd].pico = r]
    BY <1>6 DEF zts_close
  <2>2. unmap' = Touch(unmap, fd) /\ fdmap' = [fdmap EXCEPT ![fd] = "absent"]
    BY <1>6 DEF zts_close
  <2>3. "absent" \in FdTags /\ "absent" \notin Assigned BY DEF FdTags, Assigned
  <2>4. r \in {conn[fd].pico, "closed"} BY <2>1, CloseResults
  <2> QED BY <1>0, <1>00, <1>2, <1>6, <2>1, <2>2, <2>3, <2>4, Closes
<1> QED BY <1>3, <1>4, <1>5, <1>6 DEF zts_close

LEMMA ShutdownKeeps ==
    ASSUME ApiInv, NEW t \in Threads, zts_shutdown(t), UNCHANGED app
    PROVE  ApiInv'
<1> DEFINE fd == pc[t].fd
<1>0. Locked(t, "shutdown") /\ At(t, "shutdown") BY DEF zts_shutdown, Locked
<1>00. "shutdown" \notin Held /\ "shutdown" \notin NoFd BY DEF Held, NoFd
<1>1. Objects /\ MapTypes /\ ThreadTypes /\ fd \in Made /\ fdmap[fd] \in FdTags
  BY <1>0, <1>00, InCall
<1>2. CASE Crash BY <1>2, CrashKeeps
<1>3. CASE ~Crash
  <2>1. Return(t) /\ fds' \subseteq Made /\ UNCHANGED <<tapConns, history>>
    BY <1>1, <1>3 DEF zts_shutdown, ThreadTypes
  <2>2. CASE unmap[fd] = "conn"
    BY <1>0, <1>00, <1>3, <2>1, <2>2, Deletes DEF zts_shutdown
  <2>3. CASE unmap[fd] # "conn" /\ fdmap[fd] \in {"absent", "null"}
    <3>1. TouchesOf(fd) /\ conn' = conn BY <1>3, <2>3 DEF zts_shutdown, TouchesOf
    <3> QED BY <1>0, <1>00, <2>1, <3>1, TouchesReturns
  <2>4. CASE unmap[fd] # "conn" /\ fdmap[fd] \in {"conn", "notap"}
    <3>1. PICK r \in pico_socket_shutdown(conn[fd]) : conn' = [conn EXCEPT ![fd].pico = r]
      BY <1>3, <2>4 DEF zts_shutdown
    <3>2. unmap' = Touch(unmap, fd) /\ fdmap' = fdmap BY <1>3, <2>4 DEF zts_shutdown
    <3>3. fd \in Ids BY <1>1, MadeIds
    <3>4. fdmap' = [fdmap EXCEPT ![fd] = fdmap[fd]] BY <1>1, <3>2, <3>3 DEF MapTypes
    <3>5. r \in {conn[fd].pico, "closed"} BY <3>1, CloseResults
    <3> QED BY <1>0, <1>00, <1>1, <2>1, <2>4, <3>1, <3>2, <3>4, <3>5, Closes
  <2> QED BY <1>3, <2>2, <2>3, <2>4 DEF zts_shutdown
<1> QED BY <1>2, <1>3

LEMMA NsocketsKeeps ==
    ASSUME ApiInv, NEW t \in Threads, zts_nsockets(t), UNCHANGED app
    PROVE  ApiInv'
<1>1. Goes(t, Idle) /\ pc[t].op = "nsockets" BY ReturnGoes DEF zts_nsockets, At
<1>2. "nsockets" \in app.calls
  <2> SUFFICES ASSUME "nsockets" \notin app.calls PROVE FALSE OBVIOUS
  <2>1. Holders BY Obeying
  <2> QED BY <1>1, <2>1 DEF Holders
<1> QED BY <1>1, <1>2, IdleType, OnlyPc DEF zts_nsockets, Held, history

\* The application makes only the calls it is said to make.
LEMMA CallsTyped == ASSUME ApiInv PROVE app.calls \subseteq Calls /\ app.conns <= MaxConns
                                        /\ app.conns \in Nat /\ app.unset \subseteq States
  BY ApiAssumption DEF ApiInv, ApiFifo, Base, AppType

LEMMA EnterKeeps ==
    ASSUME ApiInv, NEW t \in Threads, Enter(t), UNCHANGED app
    PROVE  ApiInv'
<1>0. pc[t].op = "idle" /\ ThreadTypes /\ app.calls \subseteq Calls /\ Len(conn) \in Nat
  BY CallsTyped, MadeIds DEF Enter, At, ApiInv, ApiFifo, Base
<1>1. \E p \in [op : Ops, fd : Nat] : /\ Goes(t, p) /\ p.op \in app.calls
                                      /\ p.op \notin NoFd => p.fd \in Made
  <2>1. CASE \E op \in app.calls \cap {"socket", "raw", "nsockets"} :
               pc' = [pc EXCEPT ![t] = [op |-> op, fd |-> 0]]
    <3>1. PICK op \in app.calls \cap {"socket", "raw", "nsockets"} :
               pc' = [pc EXCEPT ![t] = [op |-> op, fd |-> 0]]
      BY <2>1
    <3> DEFINE p == [op |-> op, fd |-> 0]
    <3>2. p \in [op : Ops, fd : Nat] /\ p.op = op BY <1>0, <3>1 DEF Ops
    <3>3. Goes(t, p) BY <3>1 DEF Goes
    <3>4. op \in NoFd BY <3>1 DEF NoFd
    <3> HIDE DEF p
    <3> QED BY <3>1, <3>2, <3>3, <3>4
  <2>2. CASE \E op \in app.calls \ {"socket", "raw", "nsockets"}, f \in fds :
               pc' = [pc EXCEPT ![t] = [op |-> op, fd |-> f]]
    <3>1. PICK op \in app.calls \ {"socket", "raw", "nsockets"}, f \in fds :
               pc' = [pc EXCEPT ![t] = [op |-> op, fd |-> f]]
      BY <2>2
    <3> DEFINE p == [op |-> op, fd |-> f]
    <3>2. f \in Made /\ f \in Nat BY <1>0 DEF ThreadTypes, Made
    <3>3. p \in [op : Ops, fd : Nat] /\ p.op = op /\ p.fd = f BY <1>0, <3>1, <3>2 DEF Ops
    <3>4. Goes(t, p) BY <3>1 DEF Goes
    <3> HIDE DEF p
    <3> QED BY <3>1, <3>2, <3>3, <3>4
  <2> QED BY <2>1, <2>2 DEF Enter
<1>2. PICK p \in [op : Ops, fd : Nat] : /\ Goes(t, p) /\ p.op \in app.calls
                                        /\ p.op \notin NoFd => p.fd \in Made
  BY <1>1
<1>3. p.op \notin Held BY <1>0, <1>2 DEF Calls, Held
<1> QED BY <1>0, <1>2, <1>3, OnlyPc DEF Enter, Held, history

LEMMA AcceptBegins ==
    ASSUME ApiInv, NEW t \in Threads, Locked(t, "accept"), lock' = t, Goto(t, "accepting"),
           UNCHANGED <<app, maps, conn, tapConns, fds, crashed, history>>
    PROVE  ApiInv'
<1> DEFINE fd == pc[t].fd
           p == [op |-> "accepting", fd |-> fd]
<1>1. At(t, "accept") /\ "accept" \notin Held /\ "accept" \notin NoFd BY DEF Locked, Held, NoFd
<1>2. /\ Objects /\ ThreadTypes /\ fd \in Made /\ pc[t] \in [op : Ops, fd : Nat]
  BY <1>1, InCall
<1>3. p \in [op : Ops, fd : Nat] /\ p.op = "accepting" /\ p.fd = fd BY <1>2 DEF Ops
<1>4. Goes(t, p) BY <1>2, GotoGoes DEF Ops
<1>5. Becomes(fd, conn[fd].state, conn[fd].pico) /\ KeepsFreed(fd)
  BY <1>2 DEF Becomes, KeepsFreed, Objects
<1>6. tapConns' \in Seq(Made) BY <1>2 DEF Objects
<1> HIDE DEF p
<1>7. ASSUME "nsockets" \notin app.calls
      PROVE  Allowed(t, p, fd, unmap[fd], fdmap[fd], conn[fd].pico)
  <2>1. /\ HasLock(t) /\ pc[t].op # "connecting" /\ OneMap(fd)
        /\ conn[fd].pico = "connecting" => <<fd, "callback">> \notin reported
        /\ unmap[fd] = "conn" => /\ <<fd, "callback">> \notin reported
                                 /\ conn[fd].pico \notin {"connecting", "listening"}
    BY <1>1, <1>7, Settled
  <2> QED BY <1>3, <1>5, <2>1 DEF Allowed, OneMap, Assigned, KeepsFreed
<1>8. MapTypes /\ unmap[fd] \in UnTags /\ fdmap[fd] \in FdTags BY <1>1, InCall
<1>9. Remaps(fd, unmap[fd], fdmap[fd]) BY <1>2, <1>8, RemapSame
<1>10. CallStep(t, p, fd, unmap[fd], fdmap[fd], conn[fd].state, conn[fd].pico)
  BY <1>2, <1>3, <1>4, <1>5, <1>6, <1>8, <1>9 DEF CallStep, ThreadTypes
<1> QED BY <1>2, <1>7, <1>10, CallKeeps

-----------------------------------------------------------------------------
\* The accept queues.

LEMMA HandOver ==
    ASSUME NEW S, NEW h \in Seq(S), NEW q \in Seq(S), q # <<>>
    PROVE  Append(h, Head(q)) \o Tail(q) = h \o q
<1> DEFINE a == Append(h, Head(q))
           l == a \o Tail(q)
           r == h \o q
<1>1. /\ Head(q) \in S /\ Tail(q) \in Seq(S) /\ Len(Tail(q)) = Len(q) - 1
      /\ \A i \in 1 .. Len(Tail(q)) : Tail(q)[i] = q[i + 1]
  BY HeadTailProperties
<1>2. Head(q) = q[1] OBVIOUS
<1>3. /\ a \in Seq(S) /\ Len(a) = Len(h) + 1 /\ a[Len(h) + 1] = Head(q)
      /\ \A i \in 1 .. Len(h) : a[i] = h[i]
  BY <1>1, AppendProperties
<1>4. Len(h) \in Nat /\ Len(q) \in Nat /\ Len(q) # 0 BY EmptySeq, LenProperties
<1> HIDE DEF a
<1>5. /\ l \in Seq(S) /\ Len(l) = Len(h) + Len(q)
      /\ \A i \in 1 .. Len(h) + Len(q) : l[i] = IF i <= Len(h) + 1 THEN a[i] ELSE Tail(q)[i - (Len(h) + 1)]
  <2>1. /\ l \in Seq(S) /\ Len(l) = Len(a) + Len(Tail(q))
        /\ \A i \in 1 .. Len(a) + Len(Tail(q)) : l[i] = IF i <= Len(a) THEN a[i] ELSE Tail(q)[i - Len(a)]
    BY <1>1, <1>3, ConcatProperties
  <2>2. Len(a) + Len(Tail(q)) = Len(h) + Len(q) BY <1>1, <1>3, <1>4
  <2> HIDE DEF l
  <2> QED BY <2>1, <2>2, <1>3
<1>6. /\ r \in Seq(S) /\ Len(r) = Len(h) + Len(q)
      /\ \A i \in 1 .. Len(h) + Len(q) : r[i] = IF i <= Len(h) THEN h[i] ELSE q[i - Len(h)]
  BY ConcatProperties
<1> HIDE DEF l, r
<1>7. \A i \in 1 .. Len(l) : l[i] = r[i]
  <2> SUFFICES ASSUME NEW i \in 1 .. Len(h) + Len(q) PROVE l[i] = r[i] BY <1>5
  <2>1. CASE i <= Len(h) BY <2>1, <1>3, <1>4, <1>5, <1>6
  <2>2. CASE i = Len(h) + 1
    <3>0. i <= Len(h) + 1 BY <2>2, <1>4, SMTT(20)
    <3>1. l[i] = Head(q)
      <4>1. l[i] = a[i] BY <3>0, <1>5
      <4> QED BY <4>1, <2>2, <1>3
    <3>2. r[i] = q[i - Len(h)] /\ i - Len(h) = 1 BY <2>2, <1>4, <1>6
    <3> QED BY <3>1, <3>2, <1>2
  <2>3. CASE i > Len(h) + 1
    <3>1. l[i] = Tail(q)[i - (Len(h) + 1)] BY <2>3, <1>4, <1>5
    <3>2. i - (Len(h) + 1) \in 1 .. Len(Tail(q)) BY <2>3, <1>1, <1>4
    <3>3. l[i] = q[i - (Len(h) + 1) + 1] BY <3>1, <3>2, <1>1
    <3>4. i - (Len(h) + 1) + 1 = i - Len(h) BY <1>4
    <3>5. r[i] = q[i - Len(h)] BY <2>3, <1>4, <1>6
    <3> QED BY <3>3, <3>4, <3>5
  <2> QED BY <2>1, <2>2, <2>3, <1>4
<1> QED BY <1>5, <1>6, <1>7, SeqEqual DEF a, l, r

JoinLast(h, q, x) == h \o Append(q, x) = Append(h \o q, x)

LEMMA JoinQueue ==
    ASSUME NEW h \in Seq(Nat), NEW q \in Seq(Nat), NEW x \in Nat
    PROVE  JoinLast(h, q, x)
<1>1. /\ Append(q, x) = q \o <<x>> /\ h \o q \in Seq(Nat) BY AppendIsConcat, ConcatProperties
<1>2. Append(h \o q, x) = (h \o q) \o <<x>> BY <1>1, AppendIsConcat
<1>3. <<x>> \in Seq(Nat) OBVIOUS
<1> QED BY <1>1, <1>2, <1>3, ConcatAssociative DEF JoinLast

\* x was the first of the queue of fd; nothing else changes in what is known of the
\* Connections.
Taken(fd, x) ==
    /\ x \in Made /\ \E i \in DOMAIN conn[fd].queue : conn[fd].queue[i] = x
    /\ Len(conn') = Len(conn)
    /\ \A f \in Made : /\ conn'[f].state = conn[f].state /\ conn'[f].pico = conn[f].pico
                       /\ conn'[f].freed => conn[f].freed
    /\ \A f \in Made : \A i \in DOMAIN conn'[f].queue :
          \E j \in DOMAIN conn[f].queue : conn'[f].queue[i] = conn[f].queue[j]

\* What taking the first of a queue does.
LEMMA Takes ==
    ASSUME Objects, AcceptFifo, NEW fd \in Made, conn[fd].queue # <<>>, TakeAccepted(fd),
           NEW x, x = Head(conn[fd].queue), tapConns' = tapConns
    PROVE  Taken(fd, x) /\ Objects' /\ AcceptFifo'
<1> DEFINE q == conn[fd].queue
           h == conn[fd].handed
           r == [conn[fd] EXCEPT !.queue = Tail(q), !.handed = Append(h, x)]
<1>1. conn[fd] \in ConnRec /\ q \in Seq(Made) /\ q \in Seq(Nat) /\ h \in Seq(Nat)
  BY ConnType DEF Objects, ConnRec
<1>2. /\ Head(q) \in Made /\ Tail(q) \in Seq(Made) /\ Len(Tail(q)) = Len(q) - 1
      /\ \A i \in 1 .. Len(Tail(q)) : Tail(q)[i] = q[i + 1]
  BY <1>1, HeadTailProperties
<1>3. Head(q) \in Nat /\ Tail(q) \in Seq(Nat) /\ Append(h, x) \in Seq(Nat)
  BY <1>1, HeadTailProperties, AppendProperties
<1>4. r \in ConnRec BY <1>1, <1>3 DEF ConnRec
<1>5. conn' = [conn EXCEPT ![fd] = r] BY DEF TakeAccepted
<1>6. /\ r.state = conn[fd].state /\ r.pico = conn[fd].pico /\ r.queue = Tail(q)
      /\ r.came = conn[fd].came /\ r.handed = Append(h, x) /\ (r.freed => conn[fd].freed)
  BY <1>1 DEF ConnRec
<1> HIDE DEF r
<1>7. Rewritten(fd, r) BY <1>4, <1>5, Rewrite
<1>8. Len(conn') = Len(conn) /\ Made' = Made /\ conn' \in Seq(ConnRec) BY <1>7 DEF Rewritten, Made
<1>9. DOMAIN conn = Made /\ DOMAIN conn' = Made
  BY <1>8, LenProperties DEF Objects, Made
<1>10. Len(q) \in Nat /\ DOMAIN q = 1 .. Len(q) /\ Len(q) # 0 BY <1>1, EmptySeq, LenProperties
<1>11. \A l \in Made : conn'[l].queue \in Seq(Made)
  BY <1>2, <1>6, <1>7 DEF Rewritten, Objects
<1>12. Objects' BY <1>8, <1>11 DEF Objects
<1>13. AcceptFifo'
  <2> SUFFICES ASSUME NEW l \in Made PROVE conn'[l].handed \o conn'[l].queue = conn'[l].came
    BY <1>9 DEF AcceptFifo
  <2>1. conn[l].handed \o conn[l].queue = conn[l].came BY <1>9 DEF AcceptFifo
  <2>2. CASE l = fd
    <3>1. Append(h, Head(q)) \o Tail(q) = h \o q BY <1>1, HandOver
    <3>2. conn'[l] = r BY <2>2, <1>7 DEF Rewritten
    <3> QED BY <2>1, <2>2, <3>1, <3>2, <1>6
  <2>3. CASE l # fd BY <2>1, <2>3, <1>7 DEF Rewritten
  <2> QED BY <2>2, <2>3
<1>14. \A f \in Made : \A i \in DOMAIN conn'[f].queue :
         \E j \in DOMAIN conn[f].queue : conn'[f].queue[i] = conn[f].queue[j]
  <2> SUFFICES ASSUME NEW f \in Made, NEW i \in DOMAIN conn'[f].queue
               PROVE  \E j \in DOMAIN conn[f].queue : conn'[f].queue[i] = conn[f].queue[j]
    OBVIOUS
  <2>1. CASE f = fd
    <3>1. conn'[f].queue = Tail(q) BY <2>1, <1>6, <1>7 DEF Rewritten
    <3>2. DOMAIN Tail(q) = 1 .. Len(Tail(q)) BY <1>2, LenProperties
    <3>3. i \in 1 .. Len(Tail(q)) BY <3>1, <3>2
    <3>4. Tail(q)[i] = q[i + 1] BY <1>2, <3>3
    <3>5. i + 1 \in DOMAIN q BY <1>2, <1>10, <3>3
    <3> QED BY <2>1, <3>1, <3>4, <3>5
  <2>2. CASE f # fd BY <2>2, <1>7 DEF Rewritten
  <2> QED BY <2>1, <2>2
<1>15. \E i \in DOMAIN q : q[i] = x
  <2>1. x = q[1] /\ 1 \in DOMAIN q BY <1>10
  <2> QED BY <2>1
<1>16. \A f \in Made : /\ conn'[f].state = conn[f].state /\ conn'[f].pico = conn[f].pico
                       /\ conn'[f].freed => conn[f].freed
  BY <1>6, <1>7 DEF Rewritten
<1> QED BY <1>2, <1>8, <1>12, <1>13, <1>14, <1>15, <1>16 DEF Taken

\* The first Connection of the queue is handed out, by a thread that has the lock.
LEMMA TakeKeeps ==
    ASSUME ApiInv, NEW t \in Threads, NEW o, o \in {"accept", "accepting"}, At(t, o),
           NEW fd, fd = pc[t].fd, conn[fd].queue # <<>>, TakeAccepted(fd), Return(t), "nsockets" \notin app.calls => HasLock(t),
           UNCHANGED <<app, unmap, tapConns, history>>
    PROVE  ApiInv'
<1> DEFINE x == Head(conn[fd].queue)
<1>0. AcceptFifo /\ app \in Apps BY DEF ApiInv, ApiFifo, Base
<1>00. o \notin NoFd BY DEF NoFd
<1>1. /\ Objects /\ MapTypes /\ ThreadTypes /\ History /\ fd \in Made /\ pc[t].op = o
  BY <1>00, InCall, Zenon
<1>02. Taken(fd, x) /\ Objects' /\ AcceptFifo' BY <1>0, <1>1, Takes
<1>3. fdmap' = [fdmap EXCEPT ![x] = "conn"] /\ fds' = fds \union {x} BY DEF TakeAccepted
<1> HIDE DEF x
<1>2. /\ x \in Made /\ \E i \in DOMAIN conn[fd].queue : conn[fd].queue[i] = x
      /\ Objects' /\ AcceptFifo' /\ Len(conn') = Len(conn)
      /\ \A f \in Made : /\ conn'[f].state = conn[f].state /\ conn'[f].pico = conn[f].pico
                         /\ conn'[f].freed => conn[f].freed
      /\ \A f \in Made : \A i \in DOMAIN conn'[f].queue :
           \E j \in DOMAIN conn[f].queue : conn'[f].queue[i] = conn[f].queue[j]
  BY <1>02 DEF Taken
<1>4. Made' = Made BY <1>2 DEF Made
<1>5. x \in Ids BY <1>1, <1>2, MadeIds
<1>6. Remaps(x, unmap[x], "conn") BY <1>1, <1>3, <1>5 DEF Remaps, MapTypes
<1>7. unmap[x] \in UnTags BY <1>1, <1>2, EntryTypes DEF UnTags
<1>8. /\ MapTypes' /\ fdmap'[x] = "conn"
      /\ \A f \in Made \ {x} : unmap'[f] = unmap[f] /\ fdmap'[f] = fdmap[f]
  BY <1>1, <1>2, <1>6, <1>7, RemapTypes DEF UnTags
<1>9. Goes(t, Idle) BY ReturnGoes
<1>10. ThreadTypes' BY <1>1, <1>2, <1>3, <1>4, <1>9, IdleType, GoesTypes DEF ThreadTypes
<1>11. History' BY <1>1, <1>4 DEF History, history
<1>12. ASSUME "nsockets" \notin app.calls PROVE (Keeps /\ Paid /\ \A c \in Made : Fresh(c))'
  <2>1. Holders /\ \A f \in Made : OneMap(f) /\ Queued(f) /\ Fresh(f) BY <1>12, Obeying
  <2>2. Paid BY <1>12 DEF ApiInv, Obeys
  <2>3. unmap[x] # "conn" /\ ~conn[x].freed
    <3>1. Queued(fd) BY <1>1, <2>1
    <3> QED BY <1>2, <3>1 DEF Queued
  <2>4. Holders' BY <1>1, <1>9, <1>12, <2>1, IdleType, HoldersStep DEF Held
  <2>5. \A f \in Made' : OneMap(f)'
    <3> SUFFICES ASSUME NEW f \in Made PROVE OneMap(f)' BY <1>4
    <3>1. CASE f = x BY <1>2, <2>3, <3>1 DEF OneMap
    <3>2. CASE f # x
      <4>1. OneMap(f) BY <2>1
      <4>2. unmap'[f] = unmap[f] /\ fdmap'[f] = fdmap[f] /\ (conn'[f].freed => conn[f].freed)
        BY <1>2, <1>8, <3>2
      <4> QED BY <4>1, <4>2 DEF OneMap
    <3> QED BY <3>1, <3>2
  <2>6. \A f \in Made' : Queued(f)'
    <3> SUFFICES ASSUME NEW f \in Made, NEW i \in DOMAIN conn'[f].queue
                 PROVE  unmap[conn'[f].queue[i]] # "conn" /\ ~conn'[conn'[f].queue[i]].freed
      BY <1>4 DEF Queued
    <3>1. PICK j \in DOMAIN conn[f].queue : conn'[f].queue[i] = conn[f].queue[j] BY <1>2
    <3>2. conn[f].queue[j] \in Made BY <1>1, QueueItem
    <3>3. unmap[conn[f].queue[j]] # "conn" /\ ~conn[conn[f].queue[j]].freed
      <4>1. Queued(f) BY <2>1
      <4> QED BY <4>1 DEF Queued
    <3> QED BY <1>2, <3>1, <3>2, <3>3
  <2>7. \A c \in Made' : Fresh(c)'
    <3> SUFFICES ASSUME NEW c \in Made PROVE Fresh(c)' BY <1>4
    <3>1. Fresh(c) /\ conn'[c].pico = conn[c].pico BY <1>2, <2>1
    <3>2. \A s \in Threads : (pc[s].op = "connecting" /\ pc[s].fd = c) =>
                             (pc'[s].op = "connecting" /\ pc'[s].fd = c)
      BY <1>1, <1>9, GoesIs
    <3> QED BY <3>1, <3>2 DEF Fresh, history
  <2>8. Paid'
    <3>1. Unhandled' \subseteq Unhandled BY <1>2, <1>4 DEF Unhandled
    <3> QED BY <1>1, <2>2, <3>1, PaidLess
  <2> QED BY <2>4, <2>5, <2>6, <2>7, <2>8 DEF Keeps
<1> QED BY <1>0, <1>2, <1>8, <1>10, <1>11, <1>12 DEF ApiInv, Obeys, ApiFifo, Base

LEMMA AcceptKeeps ==
    ASSUME ApiInv, NEW t \in Threads, zts_accept(t), UNCHANGED app
    PROVE  ApiInv'
<1> DEFINE fd == pc[t].fd
<1>0. Locked(t, "accept") /\ At(t, "accept") /\ HasLock(t) BY DEF zts_accept, Locked, HasLock
<1>1. CASE Crash BY <1>1, CrashKeeps
<1>2. CASE /\ conn[fd].queue # <<>> /\ TakeAccepted(fd) /\ Return(t)
           /\ UNCHANGED <<lock, unmap, tapConns, crashed, history>>
  BY <1>0, <1>2, TakeKeeps
<1>3. CASE /\ lock' = t /\ Goto(t, "accepting")
           /\ UNCHANGED <<maps, conn, tapConns, fds, crashed, history>>
  BY <1>0, <1>3, AcceptBegins
<1> QED BY <1>1, <1>2, <1>3 DEF zts_accept

LEMMA AcceptPollKeeps ==
    ASSUME ApiInv, NEW t \in Threads, AcceptPoll(t), UNCHANGED app
    PROVE  ApiInv'
<1>1. At(t, "accepting") /\ pc[t].op = "accepting" BY DEF AcceptPoll, At
<1>2. "nsockets" \notin app.calls => HasLock(t)
  <2> SUFFICES ASSUME "nsockets" \notin app.calls PROVE HasLock(t) OBVIOUS
  <2>1. Holders BY Obeying
  <2> QED BY <1>1, <2>1 DEF Holders, HasLock
<1> QED BY <1>1, <1>2, TakeKeeps DEF AcceptPoll

-----------------------------------------------------------------------------
\* The scan of a connect that waits.

LEMMA LenIs ==
    ASSUME NEW S, NEW n \in Nat, NEW s, DOMAIN s = 1 .. n, s \in [1 .. n -> S]
    PROVE  s \in Seq(S) /\ Len(s) = n
<1>1. s \in Seq(S) BY SeqDef
<1>2. Len(s) \in Nat /\ DOMAIN s = 1 .. Len(s) BY <1>1, LenProperties
<1> QED BY <1>1, <1>2

LEMMA ScanKeeps ==
    ASSUME ApiInv, NEW t \in Threads, ConnectScan(t), UNCHANGED app
    PROVE  ApiInv'
<1> DEFINE unhandled == Found("UNHANDLED_CONNECTED")
           hits == {tapConns[i] : i \in unhandled}
<1>0. CASE Crash BY <1>0, CrashKeeps
<1>1. CASE ~Crash
  <2>0. /\ Objects /\ MapTypes /\ ThreadTypes /\ History /\ fds \subseteq Made
        /\ pc[t].op = "waiting" /\ pc[t].fd \in Made /\ AcceptFifo /\ app \in Apps
    BY InCall DEF ConnectScan, At, NoFd, ApiInv, ApiFifo, Base, ThreadTypes
  <2>1. /\ unhandled # {}
        /\ conn' = [c \in DOMAIN conn |->
                      IF c \in hits THEN [conn[c] EXCEPT !.state = "CONNECTED"] ELSE conn[c]]
        /\ succeeded' \subseteq succeeded \union {pc[t].fd}
        /\ Return(t) /\ UNCHANGED <<lock, maps, tapConns, fds, crashed, reported>>
    BY <1>1 DEF ConnectScan
  <2>2. Len(conn) \in Nat /\ DOMAIN conn = Made BY <2>0, LenProperties DEF Objects, Made
  <2>3. PICK i \in DOMAIN tapConns :
          conn[tapConns[i]].state = "UNHANDLED_CONNECTED" /\ tapConns[i] \in hits
    <3>1. PICK i \in unhandled : TRUE BY <2>1
    <3> QED BY <3>1 DEF Found
  <2>4. tapConns[i] \in Made /\ \A c \in hits : conn[c].state = "UNHANDLED_CONNECTED"
    <3>1. i \in 1 .. Len(tapConns) BY <2>0, LenProperties DEF Objects
    <3>2. tapConns[i] \in Made BY <2>0, <3>1, ElementOfSeq DEF Objects
    <3>3. \A c \in hits : conn[c].state = "UNHANDLED_CONNECTED" BY DEF Found
    <3> QED BY <3>2, <3>3
  <2> HIDE DEF unhandled, hits
  <2>5. ASSUME NEW f \in Made
        PROVE  /\ conn'[f] \in ConnRec /\ conn'[f].pico = conn[f].pico
               /\ conn'[f].queue = conn[f].queue /\ conn'[f].came = conn[f].came
               /\ conn'[f].handed = conn[f].handed /\ (conn'[f].freed => conn[f].freed)
               /\ conn'[f].state = IF f \in hits THEN "CONNECTED" ELSE conn[f].state
    <3>1. conn[f] \in ConnRec BY <2>0, ConnType
    <3>2. conn'[f] = IF f \in hits THEN [conn[f] EXCEPT !.state = "CONNECTED"] ELSE conn[f]
      BY <2>1, <2>2
    <3> QED BY <3>1, <3>2 DEF ConnRec, States
  <2>6. conn' \in Seq(ConnRec) /\ Len(conn') = Len(conn)
    <3>1. DOMAIN conn' = 1 .. Len(conn) BY <2>1, <2>2 DEF Made
    <3>2. conn' \in [1 .. Len(conn) -> ConnRec] BY <2>1, <2>2, <2>5, <3>1 DEF Made
    <3> QED BY <2>2, <3>1, <3>2, LenIs
  <2>7. Quiet /\ Made' = Made BY <2>5, <2>6 DEF Quiet, Made
  <2>8. Objects' /\ AcceptFifo'
    <3>1. tapConns' \in Seq(Made) BY <2>0, <2>1 DEF Objects
    <3> QED BY <2>0, <2>7, <3>1, QuietObjects
  <2>9. MapTypes' BY <2>0, <2>1, <2>6 DEF MapTypes, maps
  <2>10. Goes(t, Idle) BY <2>1, ReturnGoes
  <2>11. ThreadTypes' BY <2>0, <2>1, <2>7, <2>10, IdleType, GoesTypes
  <2>12. History' BY <2>0, <2>1, <2>7 DEF History
  <2>13. ASSUME "nsockets" \notin app.calls PROVE (Keeps /\ Paid /\ \A c \in Made : Fresh(c))'
    <3>1. Holders /\ \A f \in Made : OneMap(f) /\ Queued(f) /\ Fresh(f) BY <2>13, Obeying
    <3>2. Paid BY <2>13 DEF ApiInv, Obeys
    <3>3. pc'[t] = Idle /\ \A s \in Threads \ {t} : pc'[s] = pc[s] BY <2>0, <2>10, GoesIs
    <3>4. Holders' BY <2>1, <3>1, <3>3, IdleType DEF Holders, maps
    <3>5. \A f \in Made' : OneMap(f)' BY <2>1, <2>5, <2>7, <3>1 DEF OneMap, maps
    <3>6. \A f \in Made' : Queued(f)'
      <4> SUFFICES ASSUME NEW f \in Made, NEW j \in DOMAIN conn'[f].queue
                   PROVE  unmap[conn'[f].queue[j]] # "conn" /\ ~conn'[conn'[f].queue[j]].freed
        BY <2>1, <2>7 DEF Queued, maps
      <4>1. conn'[f].queue = conn[f].queue BY <2>5
      <4>2. conn[f].queue[j] \in Made BY <2>0, <4>1, QueueItem
      <4>3. unmap[conn[f].queue[j]] # "conn" /\ ~conn[conn[f].queue[j]].freed
        <5>1. Queued(f) BY <3>1
        <5> QED BY <4>1, <5>1 DEF Queued
      <4> QED BY <2>5, <4>1, <4>2, <4>3
    <3>7. \A c \in Made' : Fresh(c)'
      <4> SUFFICES ASSUME NEW c \in Made PROVE Fresh(c)' BY <2>7
      <4>1. Fresh(c) /\ conn'[c].pico = conn[c].pico BY <2>5, <3>1
      <4>2. \A s \in Threads : (pc[s].op = "connecting" /\ pc[s].fd = c) =>
                               (pc'[s].op = "connecting" /\ pc'[s].fd = c)
        BY <2>0, <3>3
      <4> QED BY <2>1, <4>1, <4>2 DEF Fresh, maps
    <3>8. Paid'
      <4>1. tapConns[i] \in Unhandled BY <2>3, <2>4 DEF Unhandled
      <4>2. Unhandled' \subseteq Unhandled \ {tapConns[i]}
        BY <2>3, <2>5, <2>7 DEF Unhandled
      <4> QED BY <2>0, <2>1, <3>2, <4>1, <4>2, PaidOut
    <3> QED BY <3>4, <3>5, <3>6, <3>7, <3>8 DEF Keeps
  <2> QED BY <2>0, <2>8, <2>9, <2>11, <2>12, <2>13 DEF ApiInv, Obeys, ApiFifo, Base
<1> QED BY <1>0, <1>1

-----------------------------------------------------------------------------
\* New Connections.

New == Len(conn) + 1

\* One Connection more: r, whose entry in unmap is u.  A queue can have grown by it.
Grows(r, u) ==
    /\ r \in ConnRec /\ New <= MaxConns
    /\ r.queue = <<>> /\ r.came = <<>> /\ r.handed = <<>> /\ ~r.freed
    /\ r.pico \notin {"connecting", "listening"}
    /\ conn' \in Seq(ConnRec) /\ Len(conn') = New /\ conn'[New] = r
    /\ \A f \in Made : /\ conn'[f].state = conn[f].state /\ conn'[f].pico = conn[f].pico
                       /\ conn'[f].freed => conn[f].freed
                       /\ conn'[f].queue \in Seq(Made')
                       /\ conn'[f].handed \o conn'[f].queue = conn'[f].came
    /\ unmap' = [unmap EXCEPT ![New] = u] /\ fdmap' = fdmap /\ u \in {"absent", "conn"}
    /\ \A f \in Made : \A i \in DOMAIN conn'[f].queue :
          \/ conn'[f].queue[i] = New /\ u = "absent"
          \/ \E j \in DOMAIN conn[f].queue : conn'[f].queue[i] = conn[f].queue[j]
    /\ tapConns' \in Seq(Made') /\ fds' \subseteq Made' /\ UNCHANGED <<app, succeeded>>
    /\ reported' = reported \union (IF r.state = "UNHANDLED_CONNECTED" THEN {<<New, "unset">>} ELSE {})

\* No thread is half-way through a call that it was not half-way through before.
PcCalm ==
    /\ pc' \in [Threads -> [op : Ops, fd : Nat]]
    /\ \A s \in Threads : pc'[s] = pc[s] \/ (pc'[s] = Idle /\ pc[s].op \notin Held)

LEMMA GrowKeeps ==
    ASSUME ApiInv, NEW r, NEW u, Grows(r, u), PcCalm, lock' = lock \/ lock = NoOne
    PROVE  ApiInv'
<1>0. Objects /\ MapTypes /\ ThreadTypes /\ History /\ AcceptFifo /\ app \in Apps
  BY DEF ApiInv, ApiFifo, Base
<1>1. Len(conn) \in Nat /\ Made \subseteq Ids BY <1>0, MadeIds
<1>2. /\ New \in Ids /\ New \notin Made /\ New \in Made' /\ Made \subseteq Made'
      /\ \A f \in Made' : f \in Made \/ f = New
  BY <1>1, ApiAssumption DEF New, Made, Ids, Grows
<1>3. DOMAIN conn' = Made' BY LenProperties DEF Grows, Made
<1>4. <<>> \in Seq(Made') /\ <<>> \o <<>> = <<>> OBVIOUS
<1>5. Objects'
  <2>1. \A l \in Made' : conn'[l].queue \in Seq(Made')
    <3> SUFFICES ASSUME NEW l \in Made' PROVE conn'[l].queue \in Seq(Made') OBVIOUS
    <3>1. CASE l \in Made BY <3>1 DEF Grows
    <3>2. CASE l = New BY <3>2, <1>4 DEF Grows
    <3> QED BY <1>2, <3>1, <3>2
  <2> QED BY <2>1 DEF Grows, Objects
<1>6. AcceptFifo'
  <2> SUFFICES ASSUME NEW l \in Made' PROVE conn'[l].handed \o conn'[l].queue = conn'[l].came
    BY <1>3 DEF AcceptFifo
  <2>1. CASE l \in Made BY <2>1 DEF Grows
  <2>2. CASE l = New BY <2>2, <1>4 DEF Grows
  <2> QED BY <1>2, <2>1, <2>2
<1>7. /\ unmap'[New] = u /\ \A f \in Ids \ {New} : unmap'[f] = unmap[f]
  BY <1>0, <1>2 DEF Grows, MapTypes
<1>8. unmap[New] = "absent" /\ fdmap[New] = "absent"
  <2>1. New > Len(conn) BY <1>1 DEF New
  <2> QED BY <1>0, <1>2, <2>1 DEF MapTypes
<1>9. MapTypes'
  <2>1. unmap' \in [Ids -> {"absent", "null", "conn"}]
    BY <1>0, <1>2 DEF MapTypes, Grows
  <2>2. \A f \in Ids : f > New => unmap'[f] = "absent" /\ fdmap'[f] = "absent"
    <3> SUFFICES ASSUME NEW f \in Ids, f > New PROVE unmap'[f] = "absent" /\ fdmap'[f] = "absent"
      OBVIOUS
    <3>1. f # New /\ f > Len(conn) BY <1>1 DEF New, Ids
    <3> QED BY <1>0, <1>7, <3>1 DEF MapTypes, Grows
  <2> QED BY <1>0, <2>1, <2>2 DEF MapTypes, Grows
<1>10. ThreadTypes'
  <2>1. \A t \in Threads : pc'[t].op \notin NoFd => pc'[t].fd \in Made'
    BY <1>0, <1>2, IdleType DEF PcCalm, ThreadTypes
  <2> QED BY <2>1 DEF ThreadTypes, PcCalm, Grows
<1>11. History'
  <2>1. IsFiniteSet(reported')
    <3>1. reported' = reported \/ reported' = reported \union {<<New, "unset">>} BY DEF Grows
    <3>2. IsFiniteSet(reported) BY <1>0 DEF History
    <3>3. IsFiniteSet(reported \union {<<New, "unset">>}) BY <3>2, FS_AddElement
    <3> QED BY <3>1, <3>2, <3>3
  <2>2. reported' \subseteq Made' \X {"unset", "callback"} BY <1>0, <1>2 DEF History, Grows
  <2> QED BY <1>0, <1>2, <2>1, <2>2 DEF History, Grows
<1>12. ASSUME "nsockets" \notin app.calls PROVE (Keeps /\ Paid /\ \A c \in Made : Fresh(c))'
  <2>1. Holders /\ \A f \in Made : OneMap(f) /\ Queued(f) /\ Fresh(f) BY <1>12, Obeying
  <2>2. Paid BY <1>12 DEF ApiInv, Obeys
  <2>3. Holders'
    <3> SUFFICES ASSUME NEW s \in Threads
                 PROVE  /\ pc'[s].op # "nsockets" /\ (pc'[s].op \in Held => lock' = s)
                        /\ pc'[s].op = "connecting" => unmap'[pc'[s].fd] = "conn"
      BY DEF Holders, Held
    <3>1. CASE pc'[s] = Idle BY <3>1, IdleType DEF Held
    <3>2. CASE pc'[s] = pc[s]
      <4>1. /\ pc[s].op # "nsockets" /\ (pc[s].op \in Held => lock = s)
            /\ pc[s].op = "connecting" => unmap[pc[s].fd] = "conn" /\ pc[s].fd \in Made
        BY <1>0, <2>1 DEF Holders, Held, ThreadTypes, NoFd
      <4>2. pc[s].op \in Held => lock' = lock BY <4>1, ApiAssumption
      <4>3. \A f \in Made : unmap'[f] = unmap[f] BY <1>1, <1>2, <1>7
      <4> QED BY <3>2, <4>1, <4>2, <4>3
    <3> QED BY <3>1, <3>2 DEF PcCalm
  <2>4. \A f \in Made' : OneMap(f)'
    <3> SUFFICES ASSUME NEW f \in Made' PROVE OneMap(f)' OBVIOUS
    <3>1. CASE f = New BY <1>7, <1>8, <3>1 DEF OneMap, Grows
    <3>2. CASE f \in Made
      <4>1. unmap'[f] = unmap[f] /\ fdmap'[f] = fdmap[f] /\ (conn'[f].freed => conn[f].freed)
        BY <1>1, <1>2, <1>7, <3>2 DEF Grows
      <4>2. OneMap(f) BY <2>1, <3>2
      <4> QED BY <4>1, <4>2 DEF OneMap
    <3> QED BY <1>2, <3>1, <3>2
  <2>5. \A f \in Made' : Queued(f)'
    <3> SUFFICES ASSUME NEW f \in Made', NEW i \in DOMAIN conn'[f].queue
                 PROVE  unmap'[conn'[f].queue[i]] # "conn" /\ ~conn'[conn'[f].queue[i]].freed
      BY DEF Queued
    <3>1. f \in Made
      <4> SUFFICES ASSUME f = New PROVE FALSE BY <1>2
      <4>1. conn'[f].queue = <<>> BY DEF Grows
      <4> QED BY <4>1
    <3>2. CASE conn'[f].queue[i] = New /\ u = "absent" BY <1>7, <3>2 DEF Grows
    <3>3. CASE \E j \in DOMAIN conn[f].queue : conn'[f].queue[i] = conn[f].queue[j]
      <4>1. PICK j \in DOMAIN conn[f].queue : conn'[f].queue[i] = conn[f].queue[j] BY <3>3
      <4>2. conn[f].queue[j] \in Made BY <1>0, <3>1, QueueItem
      <4>3. unmap[conn[f].queue[j]] # "conn" /\ ~conn[conn[f].queue[j]].freed
        <5>1. Queued(f) BY <2>1, <3>1
        <5> QED BY <5>1 DEF Queued
      <4>4. \A g \in Made : unmap'[g] = unmap[g] /\ (conn'[g].freed => conn[g].freed)
        BY <1>1, <1>2, <1>7 DEF Grows
      <4> QED BY <4>1, <4>2, <4>3, <4>4
    <3> QED BY <3>1, <3>2, <3>3 DEF Grows
  <2>6. \A c \in Made' : Fresh(c)'
    <3> SUFFICES ASSUME NEW c \in Made' PROVE Fresh(c)' OBVIOUS
    <3>1. <<c, "callback">> \in reported' => <<c, "callback">> \in reported BY DEF Grows
    <3>2. CASE c = New
      <4>1. <<c, "callback">> \notin reported BY <1>0, <1>2, <3>2 DEF History
      <4> QED BY <3>1, <3>2, <4>1 DEF Fresh, Grows
    <3>3. CASE c \in Made
      <4>1. Fresh(c) /\ conn'[c].pico = conn[c].pico /\ unmap'[c] = unmap[c]
        BY <1>1, <1>2, <1>7, <2>1, <3>3 DEF Grows
      <4>2. \A s \in Threads : (pc[s].op = "connecting" /\ pc[s].fd = c) =>
                               (pc'[s].op = "connecting" /\ pc'[s].fd = c)
        BY DEF PcCalm, Held
      <4> QED BY <3>1, <4>1, <4>2 DEF Fresh
    <3> QED BY <1>2, <3>2, <3>3
  <2>7. Paid'
    <3>1. CASE r.state = "UNHANDLED_CONNECTED"
      <4>1. <<New, "unset">> \notin reported BY <1>0, <1>2 DEF History
      <4>2. Unhandled' \subseteq Unhandled \union {New} BY <1>2 DEF Unhandled, Grows
      <4> QED BY <1>0, <2>2, <3>1, <4>1, <4>2, PaidMore DEF Grows
    <3>2. CASE r.state # "UNHANDLED_CONNECTED"
      <4>1. Unhandled' \subseteq Unhandled BY <1>2, <3>2 DEF Unhandled, Grows
      <4>2. reported' = reported BY <3>2 DEF Grows
      <4> QED BY <1>0, <2>2, <4>1, <4>2, PaidLess DEF Grows, history
    <3> QED BY <3>1, <3>2
  <2> QED BY <2>3, <2>4, <2>5, <2>6, <2>7 DEF Keeps
<1>13. app' = app BY DEF Grows
<1> QED BY <1>0, <1>5, <1>6, <1>9, <1>10, <1>11, <1>12, <1>13 DEF ApiInv, Obeys, ApiFifo, Base

IsNew(r, st, pi) ==
    \/ r = NewConnection(st, pi)
    \/ r = [NewConnection(st, pi) EXCEPT !.tap = TRUE, !.sock = TRUE]

LEMMA NewRec ==
    ASSUME NEW st \in States, NEW pi \in Picos, NEW r, IsNew(r, st, pi)
    PROVE  /\ r \in ConnRec /\ r.queue = <<>> /\ r.came = <<>> /\ r.handed = <<>> /\ ~r.freed
           /\ r.pico = pi /\ r.state = st
<1>1. PICK b \in BOOLEAN :
        r = [state |-> st, pico |-> pi, sock |-> b, tap |-> b, closed |-> FALSE, freed |-> FALSE,
             queue |-> <<>>, came |-> <<>>, handed |-> <<>>]
  BY DEF IsNew, NewConnection
<1>2. <<>> \in Seq(Nat) OBVIOUS
<1>3. r \in ConnRec BY <1>1, <1>2 DEF ConnRec
<1> QED BY <1>1, <1>3

LEMMA ReturnCalm ==
    ASSUME ThreadTypes, NEW t \in Threads, Return(t), pc[t].op \notin Held
    PROVE  PcCalm
  BY GoesIs, ReturnGoes, IdleType DEF PcCalm, ThreadTypes, Goes

LEMMA ProvisionGrows ==
    ASSUME ApiInv, NEW pi \in Picos, pi \notin {"connecting", "listening"}, Provision(pi),
           Len(conn) < app.conns, UNCHANGED <<app, fdmap, tapConns, succeeded>>
    PROVE  \E r : Grows(r, "conn")
<1>0. /\ Objects /\ ThreadTypes /\ AcceptFifo /\ Len(conn) \in Nat
      /\ app.conns <= MaxConns /\ app.conns \in Nat
      /\ app.unset \subseteq States
  BY CallsTyped, MadeIds DEF ApiInv, ApiFifo, Base
<1>1. PICK st \in app.unset :
        /\ conn' = Append(conn, NewConnection(st, pi))
        /\ unmap' = [unmap EXCEPT ![Len(conn) + 1] = "conn"]
        /\ fds' = fds \union {Len(conn) + 1}
        /\ Report(Len(conn) + 1, st, "unset")
  BY DEF Provision
<1> DEFINE r == NewConnection(st, pi)
<1>3. conn' = Append(conn, r) /\ IsNew(r, st, pi) /\ st \in States
  BY <1>0, <1>1 DEF IsNew
<1> HIDE DEF r
<1>2. /\ r \in ConnRec /\ r.queue = <<>> /\ r.came = <<>> /\ r.handed = <<>> /\ ~r.freed
      /\ r.pico = pi /\ r.state = st
  BY <1>3, NewRec
<1>4. /\ conn' \in Seq(ConnRec) /\ Len(conn') = Len(conn) + 1 /\ conn'[Len(conn) + 1] = r
      /\ \A i \in 1 .. Len(conn) : conn'[i] = conn[i]
  BY <1>0, <1>2, <1>3, AppendProperties DEF Objects
<1>5. New <= MaxConns /\ Made \subseteq Made' /\ New \in Made' BY <1>0, <1>4, ApiAssumption DEF New, Made
<1>6. ASSUME NEW f \in Made
      PROVE  /\ conn'[f] = conn[f] /\ conn'[f].queue \in Seq(Made')
             /\ conn'[f].handed \o conn'[f].queue = conn'[f].came
  <2>1. conn'[f] = conn[f] BY <1>4 DEF Made
  <2>2. conn[f].queue \in Seq(Made') BY <1>0, <1>5, SeqMonotonic DEF Objects
  <2>3. DOMAIN conn = Made BY <1>0, LenProperties DEF Objects, Made
  <2> QED BY <1>0, <2>1, <2>2, <2>3 DEF AcceptFifo
<1>7. tapConns' \in Seq(Made') BY <1>0, <1>5, SeqMonotonic DEF Objects
<1>8. fds' \subseteq Made' BY <1>0, <1>1, <1>5 DEF ThreadTypes, New
<1> QED BY <1>1, <1>2, <1>4, <1>5, <1>6, <1>7, <1>8 DEF Grows, New, Report

LEMMA SocketKeeps ==
    ASSUME ApiInv, NEW t \in Threads, zts_socket(t), UNCHANGED app
    PROVE  ApiInv'
<1>0. ThreadTypes /\ pc[t].op = "socket" /\ Return(t)
  BY DEF zts_socket, Locked, At, ApiInv, ApiFifo, Base
<1>1. PICK p \in pico_Socket :
        IF p = "null" THEN UNCHANGED <<unmap, conn, fds, reported>> ELSE Provision(p)
  BY DEF zts_socket
<1>2. CASE p = "null"
  <2>1. Goes(t, Idle) BY <1>0, ReturnGoes
  <2> QED BY <1>0, <1>1, <1>2, <2>1, IdleType, OnlyPc DEF zts_socket, Held, maps, history
<1>3. CASE p # "null"
  <2>1. p \in Picos /\ p \notin {"connecting", "listening"} BY <1>1, <1>3 DEF pico_Socket, Picos
  <2>2. PICK r : Grows(r, "conn") BY <1>1, <1>3, <2>1, ProvisionGrows DEF zts_socket
  <2>3. PcCalm BY <1>0, ReturnCalm DEF Held
  <2> QED BY <2>2, <2>3, GrowKeeps DEF zts_socket
<1> QED BY <1>2, <1>3

LEMMA RawKeeps ==
    ASSUME ApiInv, NEW t \in Threads, zts_socket_raw(t), UNCHANGED app
    PROVE  ApiInv'
<1>0. ThreadTypes /\ pc[t].op = "raw" /\ Return(t) /\ lock = NoOne
  BY DEF zts_socket_raw, Locked, At, ApiInv, ApiFifo, Base
<1>1. PICK r : Grows(r, "conn") BY ProvisionGrows DEF zts_socket_raw, Picos
<1>2. PcCalm BY <1>0, ReturnCalm DEF Held
<1> QED BY <1>0, <1>1, <1>2, GrowKeeps

LEMMA EvConnAcceptKeeps ==
    ASSUME ApiInv, NEW l \in Made, EvConnAccept(l), UNCHANGED app
    PROVE  ApiInv'
<1>0. /\ Objects /\ ThreadTypes /\ AcceptFifo /\ MapTypes /\ Len(conn) \in Nat
      /\ app.conns <= MaxConns /\ app.conns \in Nat
      /\ app.unset \subseteq States /\ conn[l] \in ConnRec
  BY CallsTyped, MadeIds, ConnType DEF ApiInv, ApiFifo, Base
<1> DEFINE q == Append(conn[l].queue, New)
           c == Append(conn[l].came, New)
           b == [conn[l] EXCEPT !.queue = q, !.came = c]
           base == [conn EXCEPT ![l] = b]
<1>1. PICK st \in app.unset :
        /\ conn' = Append(base, [NewConnection(st, "connected") EXCEPT !.tap = TRUE, !.sock = TRUE])
        /\ Report(New, st, "unset")
  BY DEF EvConnAccept, New
<1> DEFINE r == [NewConnection(st, "connected") EXCEPT !.tap = TRUE, !.sock = TRUE]
<1>2. conn' = Append(base, r) /\ IsNew(r, st, "connected") /\ st \in States /\ "connected" \in Picos
  BY <1>0, <1>1 DEF IsNew, Picos
<1> HIDE DEF r
<1>3. /\ r \in ConnRec /\ r.queue = <<>> /\ r.came = <<>> /\ r.handed = <<>> /\ ~r.freed
      /\ r.pico = "connected" /\ r.state = st
  BY <1>2, NewRec
<1>4. /\ New \in Nat /\ conn[l].queue \in Seq(Nat) /\ conn[l].came \in Seq(Nat)
      /\ conn[l].handed \in Seq(Nat) /\ conn[l].queue \in Seq(Made)
  BY <1>0 DEF New, ConnRec, Objects
<1>5. q \in Seq(Nat) /\ c \in Seq(Nat) BY <1>4, AppendProperties
<1>6. b \in ConnRec BY <1>0, <1>5 DEF ConnRec
<1>7. /\ b.state = conn[l].state /\ b.pico = conn[l].pico /\ b.queue = q /\ b.came = c
      /\ b.handed = conn[l].handed /\ (b.freed => conn[l].freed)
  BY <1>0 DEF ConnRec
<1> HIDE DEF b
<1>8. /\ base \in Seq(ConnRec) /\ Len(base) = Len(conn)
      /\ \A j \in 1 .. Len(conn) : base[j] = IF j = l THEN b ELSE conn[j]
  <2>1. conn \in Seq(ConnRec) /\ l \in 1 .. Len(conn) BY <1>0 DEF Objects, Made
  <2> QED BY <1>6, <2>1, ExceptSeq
<1> HIDE DEF base
<1>9. /\ conn' \in Seq(ConnRec) /\ Len(conn') = New /\ conn'[New] = r
      /\ \A i \in 1 .. Len(conn) : conn'[i] = base[i]
  BY <1>2, <1>3, <1>8, AppendProperties DEF New
<1>10. \A f \in Made : conn'[f] = IF f = l THEN b ELSE conn[f] BY <1>8, <1>9 DEF Made
<1>11. New <= MaxConns /\ Made \subseteq Made' /\ New \in Made'
  BY <1>0, <1>9, ApiAssumption DEF New, Made, EvConnAccept
<1>12. q \in Seq(Made') /\ Len(q) = Len(conn[l].queue) + 1 /\ q[Len(conn[l].queue) + 1] = New
       /\ \A i \in 1 .. Len(conn[l].queue) : q[i] = conn[l].queue[i]
  <2>1. conn[l].queue \in Seq(Made') BY <1>4, <1>11, SeqMonotonic
  <2> QED BY <1>11, <2>1, AppendProperties
<1>13. conn[l].handed \o q = c
  <2>1. conn[l].handed \o conn[l].queue = conn[l].came
    <3>1. DOMAIN conn = Made BY <1>0, LenProperties DEF Objects, Made
    <3> QED BY <1>0, <3>1 DEF AcceptFifo
  <2>2. JoinLast(conn[l].handed, conn[l].queue, New) BY <1>4, JoinQueue
  <2> QED BY <2>1, <2>2 DEF JoinLast
<1> HIDE DEF c, q
<1>14. ASSUME NEW f \in Made
       PROVE  /\ conn'[f].state = conn[f].state /\ conn'[f].pico = conn[f].pico
              /\ conn'[f].freed => conn[f].freed
              /\ conn'[f].queue \in Seq(Made')
              /\ conn'[f].handed \o conn'[f].queue = conn'[f].came
  <2>1. CASE f = l BY <2>1, <1>7, <1>10, <1>12, <1>13
  <2>2. CASE f # l
    <3>1. conn'[f] = conn[f] BY <2>2, <1>10
    <3>2. conn[f].queue \in Seq(Made') BY <1>0, <1>11, SeqMonotonic DEF Objects
    <3>3. DOMAIN conn = Made BY <1>0, LenProperties DEF Objects, Made
    <3> QED BY <1>0, <3>1, <3>2, <3>3 DEF AcceptFifo
  <2> QED BY <2>1, <2>2
<1>15. ASSUME NEW f \in Made, NEW i \in DOMAIN conn'[f].queue
       PROVE  \/ conn'[f].queue[i] = New
              \/ \E j \in DOMAIN conn[f].queue : conn'[f].queue[i] = conn[f].queue[j]
  <2>1. CASE f = l
    <3>1. conn'[f].queue = q BY <2>1, <1>7, <1>10
    <3>2. DOMAIN q = 1 .. Len(q) BY <1>12, LenProperties
    <3>3. DOMAIN conn[l].queue = 1 .. Len(conn[l].queue) /\ Len(conn[l].queue) \in Nat
      BY <1>4, LenProperties
    <3>4. i \in 1 .. Len(conn[l].queue) + 1 BY <3>1, <3>2, <1>12
    <3>5. i = Len(conn[l].queue) + 1 \/ i \in 1 .. Len(conn[l].queue) BY <3>3, <3>4
    <3> QED BY <2>1, <3>1, <3>3, <3>5, <1>12
  <2>2. CASE f # l BY <2>2, <1>10
  <2> QED BY <2>1, <2>2
<1>16. unmap' = [unmap EXCEPT ![New] = "absent"] /\ fdmap' = fdmap
  <2>1. New \in Ids /\ New > Len(conn) BY <1>0, <1>11, ApiAssumption DEF New, Ids
  <2>2. unmap[New] = "absent" BY <1>0, <2>1 DEF MapTypes
  <2> QED BY <1>0, <2>1, <2>2 DEF EvConnAccept, maps, MapTypes
<1>17. tapConns' \in Seq(Made')
  <2>1. tapConns \in Seq(Made') BY <1>0, <1>11, SeqMonotonic DEF Objects
  <2>2. tapConns' = Append(tapConns, New) BY DEF EvConnAccept, New
  <2> QED BY <1>11, <2>1, <2>2, AppendProperties
<1>18. fds' \subseteq Made' BY <1>0, <1>11 DEF ThreadTypes, EvConnAccept
<1>19. Grows(r, "absent")
  <2>1. UNCHANGED <<app, succeeded>> BY DEF EvConnAccept
  <2>2. reported' = reported \union
                      (IF r.state = "UNHANDLED_CONNECTED" THEN {<<New, "unset">>} ELSE {})
    BY <1>1, <1>3 DEF Report
  <2> QED BY <1>3, <1>9, <1>11, <1>14, <1>15, <1>16, <1>17, <1>18, <2>1, <2>2 DEF Grows
<1>20. PcCalm /\ lock' = lock BY <1>0 DEF PcCalm, ThreadTypes, EvConnAccept
<1> QED BY <1>19, <1>20, GrowKeeps

-----------------------------------------------------------------------------
\* At first there are no Connections.
LEMMA ApiInit == Init => ApiInv
<1> SUFFICES ASSUME Init PROVE ApiInv OBVIOUS
<1>1. Len(conn) = 0 /\ conn = <<>> /\ DOMAIN conn = {} BY DEF Init
<1>2. Made = {} BY <1>1 DEF Made
<1>3. Objects BY <1>1, <1>2, ApiAssumption DEF Objects, Init
<1>4. MapTypes BY DEF MapTypes, Init
<1>5. pc = [t \in Threads |-> Idle] BY DEF Init
<1>6. ThreadTypes BY <1>2, <1>5, IdleType DEF ThreadTypes, Init
<1>7. History BY <1>2, FS_EmptySet DEF History, Init
<1>8. AcceptFifo BY <1>1 DEF AcceptFifo
<1>9. Holders BY <1>5, IdleType DEF Holders
<1>10. Paid
  <2>1. Unhandled = {} BY <1>2 DEF Unhandled
  <2> QED BY <2>1, FS_EmptySet DEF Paid, Init
<1>11. app \in Apps BY DEF Init
<1> QED BY <1>2, <1>3, <1>4, <1>6, <1>7, <1>8, <1>9, <1>10, <1>11
        DEF ApiInv, ApiFifo, Base, Obeys, Keeps

\* Each step keeps it: one action after the other.
LEMMA ApiStep == ApiInv /\ [Next]_vars => ApiInv'
<1> SUFFICES ASSUME ApiInv, [Next]_vars PROVE ApiInv' OBVIOUS
<1>1. CASE UNCHANGED vars
  <2> USE <1>1 DEF vars, maps, history
  <2>1. Base' /\ AcceptFifo' /\ Made' = Made
    BY DEF ApiInv, ApiFifo, Base, Objects, MapTypes, ThreadTypes, History, AcceptFifo, Made
  <2>2. Keeps => Keeps' BY <2>1 DEF Keeps, Holders, OneMap, Queued
  <2>3. Paid => Paid' BY <2>1 DEF Paid, Unhandled
  <2>4. (\A c \in Made : Fresh(c)) => (\A c \in Made' : Fresh(c)') BY <2>1 DEF Fresh
  <2> QED BY <2>1, <2>2, <2>3, <2>4 DEF ApiInv, ApiFifo, Obeys
<1>2. ASSUME NEW t \in Threads, Enter(t), UNCHANGED app PROVE ApiInv' BY <1>2, EnterKeeps
<1>3. ASSUME NEW t \in Threads, Run(t), UNCHANGED app PROVE ApiInv'
  <2>1. CASE zts_socket(t) BY <1>3, <2>1, SocketKeeps
  <2>2. CASE zts_socket_raw(t) BY <1>3, <2>2, RawKeeps
  <2>3. CASE ConnectFails(t) BY <1>3, <2>3, ConnectFailsKeeps
  <2>4. CASE zts_connect(t) BY <1>3, <2>4, ConnectKeeps
  <2>5. CASE ConnectGivesToTap(t) BY <1>3, <2>5, ConnectGivesKeeps
  <2>6. CASE ConnectScan(t) BY <1>3, <2>6, ScanKeeps
  <2>7. CASE zts_bind(t) BY <1>3, <2>7, BindKeeps
  <2>8. CASE ListenFails(t) BY <1>3, <2>8, ListenFailsKeeps
  <2>9. CASE zts_listen(t) BY <1>3, <2>9, ListenKeeps
  <2>10. CASE ListenSetsState(t) BY <1>3, <2>10, ListenSetsKeeps
  <2>11. CASE AcceptFails(t) BY <1>3, <2>11, AcceptFailsKeeps
  <2>12. CASE zts_accept(t) BY <1>3, <2>12, AcceptKeeps
  <2>13. CASE AcceptPoll(t) BY <1>3, <2>13, AcceptPollKeeps
  <2>14. CASE CloseCrashes(t) BY <1>3, <2>14, CrashKeeps DEF CloseCrashes
  <2>15. CASE zts_close(t) BY <1>3, <2>15, CloseKeeps
  <2>16. CASE zts_shutdown(t) BY <1>3, <2>16, ShutdownKeeps
  <2>17. CASE zts_get_pico_socket(t) BY <1>3, <2>17, GetPicoSocketKeeps
  <2>18. CASE zts_nsockets(t) BY <1>3, <2>18, NsocketsKeeps
  <2> QED BY <1>3, <2>1, <2>2, <2>3, <2>4, <2>5, <2>6, <2>7, <2>8, <2>9, <2>10, <2>11, <2>12,
             <2>13, <2>14, <2>15, <2>16, <2>17, <2>18 DEF Run
<1>4. ASSUME NEW c \in DOMAIN conn, Callback(c), UNCHANGED app PROVE ApiInv'
  <2>0. c \in Made BY <1>4, LenProperties DEF ApiInv, ApiFifo, Base, Objects, Made
  <2>1. CASE EvConn(c) BY <1>4, <2>0, <2>1, EvConnKeeps
  <2>2. CASE EvConnAccept(c) BY <1>4, <2>0, <2>2, EvConnAcceptKeeps
  <2>3. CASE EvConnEarly(c) BY <1>4, <2>0, <2>3, EvConnEarlyKeeps
  <2>4. CASE EvRefused(c) BY <1>4, <2>0, <2>4, EvRefusedKeeps
  <2>5. CASE EvErr(c) BY <1>4, <2>0, <2>5, EvErrKeeps
  <2>6. CASE EvClose(c) BY <1>4, <2>0, <2>6, EvCloseKeeps
  <2> QED BY <1>4, <2>1, <2>2, <2>3, <2>4, <2>5, <2>6 DEF Callback
<1> QED BY <1>1, <1>2, <1>3, <1>4 DEF Next

LEMMA ApiAlways == Spec => []ApiInv
  BY ApiInit, ApiStep, PTL DEF Spec

\* Whatever calls of however many threads race, with whatever callbacks: as long as
\* zts_nsockets is not called, a descriptor's Connection is in one of unmap and
\* fdmap at most, and a deleted one in neither.
THEOREM ApiMaps == Spec => []MapsConsistent
<1>1. ApiInv => MapsConsistent
  <2> SUFFICES ASSUME ApiInv, "nsockets" \notin app.calls, NEW f \in DOMAIN conn PROVE OneMap(f)
    BY DEF MapsConsistent, OneMap
  <2>1. f \in Made BY LenProperties DEF ApiInv, ApiFifo, Base, Objects, Made
  <2> QED BY <2>1, Obeying
<1> QED BY <1>1, ApiAlways, PTL

\* zts_accept hands out every connection the callback queued once and in order, for
\* any number of accepting threads, also of applications that call zts_nsockets.
THEOREM ApiFifoOrder == Spec => []AcceptFifo
<1>1. ApiInv => AcceptFifo BY DEF ApiInv, ApiFifo
<1> QED BY <1>1, ApiAlways, PTL

\* There are never more zts_connects that returned 0 than connections reported, as
\* long as zts_nsockets is not called.
THEOREM ApiConnects == Spec => []ConnectsCounted
<1>1. ApiInv => ConnectsCounted
  <2> SUFFICES ASSUME ApiInv, "nsockets" \notin app.calls
               PROVE  Cardinality(succeeded) <= Cardinality(reported)
    BY DEF ConnectsCounted
  <2>1. Paid /\ Objects /\ History BY DEF ApiInv, Obeys, ApiFifo, Base
  <2> QED BY <2>1, CountTypes DEF Paid
<1> QED BY <1>1, ApiAlways, PTL
=============================================================================
