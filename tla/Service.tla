------------------------------ MODULE Service ------------------------------
(* The life of the service and of the taps (libzt.cpp, SocketTap.cpp): an     *)
(* application starts the service, waits for it, joins a network and stops    *)
(* it; the service's thread runs instances of OneService one after the other  *)
(* and puts aside an identity that collided; each tap has a thread. The       *)
(* process may die at any point and be started again: only files survive. A   *)
(* call through zt1Service after its delete is undefined: that the process    *)
(* dies is always possible (Restart), otherwise such a call has no effect.    *)
(* Any thread of the application may start or stop the service, also at once. *)
(* Where two starts make two services the model ends: what two services do to *)
(* each other's globals is not followed.                                      *)
EXTENDS Naturals, Sequences, FiniteSets

CONSTANTS
    Callers,    \* the application's threads, which start and stop the service
    Starts,     \* bound: calls of zts_start and zts_simple_start in a process
    Instances,  \* bound: instances of OneService in a process
    MaxIds,     \* bound: identities generated
    Restarts    \* bound: times the process is started again

ASSUME ServiceAssumption ==
    {Starts, Instances, MaxIds} \subseteq Nat \ {0} /\ Restarts \in Nat

VARIABLES
    disk,    \* what identity.secret and identity.secret.saved_after_collision
             \* hold (0: nothing), and conf: the network's .conf is there
    hist,    \* history: the last identity that collided (0: none, or saving it
             \* failed), whether a .conf could not be written, whether starts
             \* overlapped, whether the network may stay away, restarts
    gen,     \* identities generated
    proc,    \* the globals picostack, homeDir (given), zt1Service; calls of
             \* zts_start; over: it called through a null pointer and died, or
             \* it has two services
    node,    \* the last instance: phase, joined, terminate() called, tap made
    thr,     \* the threads in zts_start_service: pc and oldid
    main,    \* the callers in zts_simple_start: pc and number of the call
    stop,    \* the callers in zts_stop: pc and the index of dismantleTaps
    vtaps,   \* the vector of taps, each named by the instance that made it
    lock,    \* holder of _vtaps_lock
    tap      \* the taps; dels counts deletes by dismantleTaps

files == <<disk, hist, gen>>
threads == <<thr, main>>
taps == <<stop, vtaps, lock, tap>>
vars == <<files, proc, node, threads, taps>>

NoNode == [n |-> 0, phase |-> "none", joined |-> FALSE, term |-> FALSE, tapped |-> FALSE]
NoCall == [pc |-> "idle", call |-> 0]
NoTap == [state |-> "none", run |-> FALSE, loop |-> FALSE, dels |-> 0]

\* The memory of a new process.
NewProcess ==
    [proc |-> [over |-> FALSE, picostack |-> FALSE, home |-> FALSE, zt1 |-> 0, calls |-> 0],
     thr |-> [i \in 1..Starts |-> [pc |-> "none", old |-> 0]],
     main |-> [c \in Callers |-> NoCall],
     stop |-> [c \in Callers |-> [pc |-> "idle", i |-> 1]],
     tap |-> [k \in 1..Instances |-> NoTap]]

Init ==
    /\ disk = [secret |-> 0, saved |-> 0, conf |-> FALSE]
    /\ hist = [collided |-> 0, unwritten |-> FALSE, overlap |-> FALSE, excuse |-> FALSE,
               restarts |-> 0]
    /\ gen = 0
    /\ proc = NewProcess.proc /\ node = NoNode
    /\ thr = NewProcess.thr /\ main = NewProcess.main /\ stop = NewProcess.stop
    /\ vtaps = <<>> /\ lock = {} /\ tap = NewProcess.tap

-----------------------------------------------------------------------------
\* Starting the service.

\* A thread is in one call at a time.
Idle(c) == main[c].pc = "idle" /\ stop[c].pc = "idle"

\* A mutated test, which looks at zt1Service only.
NotYetService == proc.zt1 = 0

\* What zts_start tests before it starts anything.
NotStarted == proc.zt1 = 0 /\ ~proc.picostack

\* zts_start is called by itself or by zts_simple_start, which waits after it.
AfterStart == {[NoCall EXCEPT !.pc = next] : next \in {"idle", "wait_running"}}

\* zts_start up to its tests. No lock is held: another thread may have passed
\* them and not have set picostack yet.
StartTests(c) ==
    /\ Idle(c) /\ proc.calls < Starts
    /\ proc' = [proc EXCEPT !.calls = @ + 1]
    /\ \E after \in AfterStart : main' = [main EXCEPT ![c] =
         IF NotStarted THEN [pc |-> "start", call |-> proc.calls + 1] ELSE after]
    /\ hist' = [hist EXCEPT !.overlap = @ \/ \E d \in Callers : main[d].pc = "start"]
    /\ UNCHANGED <<disk, gen, node, thr, taps>>

\* The rest of zts_start: picostack, homeDir (where a path is given) and the
\* service's thread. One step: only that thread, which may be late, reads homeDir.
zts_start(c) ==
    \E given \in BOOLEAN, after \in AfterStart :
        /\ main[c].pc = "start"
        /\ proc' = [proc EXCEPT !.picostack = TRUE, !.home = given \/ @,
                                !.over = proc.picostack]
        /\ thr' = [thr EXCEPT ![main[c].call].pc = "begin"]
        /\ main' = [main EXCEPT ![c] = after]
        /\ UNCHANGED <<files, node, taps>>

zts_running == proc.zt1 # 0 /\ node.phase = "online"

WaitRunning(c) ==
    /\ main[c].pc = "wait_running" /\ zts_running
    /\ main' = [main EXCEPT ![c].pc = "join"]
    /\ UNCHANGED <<files, proc, node, thr, taps>>

\* A mutated zts_join, which leaves no .conf behind.
JoinKeepsNoConf(c) ==
    /\ main[c].pc = "join"
    /\ main' = [main EXCEPT ![c].pc = IF proc.zt1 # 0 THEN "join_service" ELSE "wait_addr"]
    /\ hist' = [hist EXCEPT !.excuse = @ \/ proc.zt1 = 0]
    /\ UNCHANGED <<disk, gen, proc, node, thr, taps>>

\* zts_join up to the .conf file. Where mkdir or writeFile fails, that is logged
\* and the join goes on. Without a service it does nothing, and zts_simple_start
\* does not notice.
zts_join(c) ==
    \E fails \in BOOLEAN :
        /\ main[c].pc = "join"
        /\ disk' = [disk EXCEPT !.conf = @ \/ (proc.zt1 # 0 /\ ~fails)]
        /\ main' = [main EXCEPT ![c].pc = IF proc.zt1 # 0 THEN "join_service" ELSE "wait_addr"]
        /\ hist' = [hist EXCEPT !.excuse = @ \/ proc.zt1 = 0,
                                !.unwritten = @ \/ (proc.zt1 # 0 /\ fails /\ ~disk.conf)]
        /\ UNCHANGED <<gen, proc, node, thr, taps>>

\* zt1Service->join(nwid): the pointer is read again and may be null by now.
JoinService(c) ==
    /\ main[c].pc = "join_service"
    /\ proc' = [proc EXCEPT !.over = proc.zt1 = 0]
    /\ node' = [node EXCEPT !.joined = TRUE]
    /\ main' = [main EXCEPT ![c].pc = "wait_addr"]
    /\ UNCHANGED <<files, thr, taps>>

\* zts_has_address: getTapByNWID looks through vtaps under the lock. A tap that
\* is there has its address here; TapAddrs has what addIp does.
WaitAddr(c) ==
    /\ main[c].pc = "wait_addr" /\ lock = {}
    /\ \E i \in DOMAIN vtaps : tap[vtaps[i]].state = "live"
    /\ main' = [main EXCEPT ![c].pc = "idle"]
    /\ UNCHANGED <<files, proc, node, thr, taps>>

\* It may read a tap that the service has deleted and take what it finds there
\* for an address.
WaitAddrFreed(c) ==
    /\ main[c].pc = "wait_addr" /\ lock = {}
    /\ \E i \in DOMAIN vtaps : tap[vtaps[i]].state = "freed"
    /\ main' = [main EXCEPT ![c].pc = "idle"]
    /\ UNCHANGED <<files, proc, node, thr, taps>>

-----------------------------------------------------------------------------
\* zts_start_service.

At(i, pc) == thr[i].pc = pc
Goto(i, pc) == thr' = [thr EXCEPT ![i].pc = pc]

Begin(i) ==
    /\ At(i, "begin")
    /\ proc' = [proc EXCEPT !.zt1 = 0]
    /\ Goto(i, IF proc.home THEN "new" ELSE "ended")
    /\ UNCHANGED <<files, node, main, taps>>

\* newInstance. The service joins the networks that have a .conf; one whose
\* .conf could not be written stays away from now on.
NewInstance(i) ==
    /\ At(i, "new") /\ node.n < Instances
    /\ node' = [NoNode EXCEPT !.n = node.n + 1, !.phase = "starting", !.joined = disk.conf]
    /\ proc' = [proc EXCEPT !.zt1 = node.n + 1]
    /\ hist' = [hist EXCEPT !.excuse = @ \/ (hist.unwritten /\ ~disk.conf)]
    /\ Goto(i, "run")
    /\ UNCHANGED <<disk, gen, main, taps>>

\* run(): the node reads its identity; without one it generates and writes one.
\* Then it comes online.
NodeStarts(i) ==
    /\ At(i, "run") /\ node.phase = "starting"
    /\ gen' = IF disk.secret = 0 THEN gen + 1 ELSE gen
    /\ disk' = [disk EXCEPT !.secret = IF @ = 0 THEN gen + 1 ELSE @]
    /\ node' = [node EXCEPT !.phase = "online"]
    /\ UNCHANGED <<hist, proc, threads, taps>>

\* What run() does to its tap before it returns.
TapDropped == [k \in DOMAIN tap |->
    IF k = node.n /\ tap[k].state = "live"
    THEN [tap[k] EXCEPT !.state = "freed", !.run = FALSE, !.loop = FALSE] ELSE tap[k]]

\* run() returns ONE_IDENTITY_COLLISION: another node has this address.
Collision(i) ==
    /\ At(i, "run") /\ node.phase = "online"
    /\ node.n < Instances /\ gen < MaxIds
    /\ hist' = [hist EXCEPT !.collided = disk.secret]
    /\ node' = [node EXCEPT !.phase = "collided"]
    /\ tap' = TapDropped
    /\ Goto(i, "collided")
    /\ UNCHANGED <<disk, gen, proc, main, stop, vtaps, lock>>

\* A mutated switch, in which only an error leaves the loop.
AfterRunRestarts(error) == IF error THEN "delete" ELSE "new"

\* Where ONE_NORMAL_TERMINATION and ONE_UNRECOVERABLE_ERROR lead.
AfterRun(error) == "delete"

RunReturns(i, error) ==
    /\ At(i, "run")
    /\ error \/ node.term
    /\ node' = [node EXCEPT !.phase = "returned"]
    /\ hist' = [hist EXCEPT !.excuse = TRUE]
    /\ tap' = TapDropped
    /\ Goto(i, AfterRun(error))
    /\ UNCHANGED <<disk, gen, proc, main, stop, vtaps, lock>>

\* delete zt1Service, and only then the pointer.
DeleteInstance(i) ==
    /\ At(i, "collided") \/ At(i, "delete")
    /\ node' = [node EXCEPT !.phase = "deleted"]
    /\ Goto(i, IF At(i, "collided") THEN "collided_null" ELSE "delete_null")
    /\ UNCHANGED <<files, proc, main, taps>>

\* A mutated order: the secret goes before it is saved.
SecretFirst == <<"rm_secret", "empty", "write", "new">>

\* After a collision: writeFile empties the file and writes oldid, then the two
\* removals (identity.public, which the node writes again, is not kept here),
\* then the next instance.
SaveOrder == <<"empty", "write", "rm_secret", "new">>

\* The pointer; after a collision also oldid is read.
NullInstance(i) ==
    /\ At(i, "collided_null") \/ At(i, "delete_null")
    /\ proc' = [proc EXCEPT !.zt1 = 0]
    /\ thr' = [thr EXCEPT ![i] =
         [pc |-> IF At(i, "delete_null") THEN "ended"
                 ELSE IF disk.secret = 0 THEN "new" ELSE SaveOrder[1],
          old |-> IF At(i, "delete_null") THEN 0 ELSE disk.secret]]
    /\ UNCHANGED <<files, node, main, taps>>

\* The results of writeFile and rm are not looked at.
SaveOldId(i) ==
    \E s \in 1..Len(SaveOrder) - 1, fails \in BOOLEAN :
        LET pc == SaveOrder[s]
        IN  /\ At(i, pc)
            /\ disk' = CASE pc = "empty" /\ ~fails -> [disk EXCEPT !.saved = 0]
                         [] pc = "write" /\ ~fails -> [disk EXCEPT !.saved = thr[i].old]
                         [] pc = "rm_secret" /\ ~fails -> [disk EXCEPT !.secret = 0]
                         [] OTHER -> disk
            /\ hist' = [hist EXCEPT !.collided = IF fails /\ pc \in {"empty", "write"} THEN 0 ELSE @,
                                    !.excuse = @ \/ (fails /\ pc = "rm_secret")]
            /\ LET next == SaveOrder[IF pc = "empty" /\ fails THEN s + 2 ELSE s + 1]
               IN  thr' = [thr EXCEPT ![i] = [pc |-> next, old |-> IF next = "new" THEN 0 ELSE @.old]]
            /\ UNCHANGED <<gen, proc, node, main, taps>>

-----------------------------------------------------------------------------
\* Taps.

\* SocketTap::SocketTap, called by the service for a network it has joined:
\* vtaps grows without _vtaps_lock, and the thread starts.
SocketTap(i) ==
    /\ At(i, "run") /\ node.phase = "online" /\ node.joined /\ ~node.tapped
    /\ tap' = [tap EXCEPT ![node.n] = [@ EXCEPT !.state = "live", !.run = TRUE, !.loop = TRUE]]
    /\ vtaps' = Append(vtaps, node.n)
    /\ node' = [node EXCEPT !.tapped = TRUE]
    /\ UNCHANGED <<files, proc, threads, stop, lock>>

\* threadMain: pico_loop ends when it finds _run unset after a turn.
threadMain(k) ==
    /\ tap[k].loop /\ ~tap[k].run
    /\ tap' = [tap EXCEPT ![k].loop = FALSE]
    /\ UNCHANGED <<files, proc, node, threads, stop, vtaps, lock>>

-----------------------------------------------------------------------------
\* zts_stop.

StopTests(c) ==
    /\ Idle(c) /\ proc.zt1 # 0
    /\ stop' = [stop EXCEPT ![c].pc = "terminate"]
    /\ hist' = [hist EXCEPT !.excuse = TRUE]
    /\ UNCHANGED <<disk, gen, proc, node, threads, vtaps, lock, tap>>

\* terminate(): the pointer is read again and may be null by now.
Terminate(c) ==
    /\ stop[c].pc = "terminate"
    /\ proc' = [proc EXCEPT !.over = proc.zt1 = 0]
    /\ node' = [node EXCEPT !.term = node.phase \in {"starting", "online"}]
    /\ stop' = [stop EXCEPT ![c].pc = "lock"]
    /\ UNCHANGED <<files, threads, vtaps, lock, tap>>

\* A mutated dismantleTaps, without the lock.
DismantleUnlocked(c) ==
    /\ stop[c].pc = "lock"
    /\ stop' = [stop EXCEPT ![c].pc = "dismantle"]
    /\ UNCHANGED <<files, proc, node, threads, vtaps, lock, tap>>

\* dismantleTaps.
DismantleLocks(c) ==
    /\ stop[c].pc = "lock" /\ lock = {}
    /\ lock' = {c}
    /\ stop' = [stop EXCEPT ![c].pc = "dismantle"]
    /\ UNCHANGED <<files, proc, node, threads, vtaps, tap>>

\* A mutated destructor, which leaves _run set.
DtorKeepsRunning(t) == [t EXCEPT !.dels = @ + 1]

\* SocketTap::~SocketTap up to Thread::join.
DtorBegins(t) == [t EXCEPT !.run = FALSE, !.dels = @ + 1]

DeleteBegins(c) ==
    /\ stop[c].pc = "dismantle" /\ stop[c].i <= Len(vtaps)
    /\ tap' = [tap EXCEPT ![vtaps[stop[c].i]] = DtorBegins(@)]
    /\ stop' = [stop EXCEPT ![c].pc = "join"]
    /\ UNCHANGED <<files, proc, node, threads, vtaps, lock>>

\* Thread::join has returned, and the rest of the destructor.
DeleteEnds(c) ==
    /\ stop[c].pc = "join" /\ stop[c].i <= Len(vtaps) /\ ~tap[vtaps[stop[c].i]].loop
    /\ tap' = [tap EXCEPT ![vtaps[stop[c].i]].state = "freed"]
    /\ stop' = [stop EXCEPT ![c] = [pc |-> "dismantle", i |-> @.i + 1]]
    /\ UNCHANGED <<files, proc, node, threads, vtaps, lock>>

DismantleEnds(c) ==
    /\ stop[c].pc = "dismantle" /\ stop[c].i > Len(vtaps)
    /\ vtaps' = <<>>
    /\ lock' = {}
    /\ stop' = [stop EXCEPT ![c] = [pc |-> "idle", i |-> 1]]
    /\ UNCHANGED <<files, proc, node, threads, tap>>

-----------------------------------------------------------------------------
\* The process dies, or the application is left, and is started again.
Restart ==
    /\ hist.restarts < Restarts
    /\ hist' = [hist EXCEPT !.restarts = @ + 1, !.excuse = FALSE, !.unwritten = FALSE,
                            !.overlap = FALSE]
    /\ proc' = NewProcess.proc /\ node' = NoNode
    /\ thr' = NewProcess.thr /\ main' = NewProcess.main /\ stop' = NewProcess.stop
    /\ vtaps' = <<>> /\ lock' = {} /\ tap' = NewProcess.tap
    /\ UNCHANGED <<disk, gen>>

zts_simple_start(c) ==
    zts_start(c) \/ WaitRunning(c) \/ zts_join(c) \/ JoinService(c) \/ WaitAddr(c)

ServiceThread(i) ==
    \/ Begin(i) \/ NewInstance(i) \/ NodeStarts(i) \/ RunReturns(i, FALSE)
    \/ DeleteInstance(i) \/ NullInstance(i) \/ SaveOldId(i)
    \/ SocketTap(i)

zts_stop(c) ==
    Terminate(c) \/ DismantleLocks(c) \/ DeleteBegins(c) \/ DeleteEnds(c) \/ DismantleEnds(c)

\* What a process does while it lives and has one service.
Step ==
    \/ \E c \in Callers :
          StartTests(c) \/ zts_simple_start(c) \/ WaitAddrFreed(c)
    \/ \E i \in 1..Starts : ServiceThread(i) \/ Collision(i) \/ RunReturns(i, TRUE)
    \/ \E k \in 1..Instances : threadMain(k)
    \/ \E c \in Callers : StopTests(c) \/ zts_stop(c)

Next == (~proc.over /\ Step) \/ Restart

\* Every thread inside a call or a loop is scheduled again; the node comes
\* online, makes its tap and obeys terminate(). Calls, collisions, errors
\* and the death of the process are not fair.
Fairness ==
    /\ \A c \in Callers : WF_vars(~proc.over /\ zts_simple_start(c))
    /\ \A i \in 1..Starts : WF_vars(~proc.over /\ ServiceThread(i))
    /\ \A k \in 1..Instances : WF_vars(~proc.over /\ threadMain(k))
    /\ \A c \in Callers : WF_vars(~proc.over /\ zts_stop(c))

Spec == Init /\ [][Next]_vars /\ Fairness

-----------------------------------------------------------------------------
\* Properties.

\* zts_start may be called again at any moment, also before the service's
\* thread has set zt1Service and while a collision has reset it: there is a
\* second thread in zts_start_service only if two threads were in zts_start at
\* once, between its tests and picostack (libzt.cpp 116-132).
OneService ==
    ~hist.overlap => Cardinality({i \in 1..Starts : thr[i].pc \notin {"none", "ended"}}) <= 1

\* Wherever the process dies, the last identity that collided is still on disk,
\* under its own name or saved, unless the saving itself failed (libzt.cpp
\* 1836-1850). Of the ones before it nothing is said: the next collision writes
\* over the saved file.
IdentityKept ==
    hist.collided # 0 => hist.collided \in {disk.secret, disk.saved}

\* However many threads stop the service, dismantleTaps deletes a tap once, and
\* no thread loops on a tap that is deleted (libzt.cpp 1778-1784, SocketTap.cpp
\* 107-114).
TapsDismantled ==
    \A k \in DOMAIN tap : tap[k].dels <= 1 /\ (tap[k].state = "freed" => ~tap[k].loop)

\* zts_simple_start returns, with restarts after collisions in between, unless
\* there is no home, the service was stopped or has failed, an old identity could
\* not be removed, zts_join found no service, or it could not write the .conf and
\* another instance came after it (libzt.cpp 134-163).
SimpleStartReturns ==
    \A c \in Callers : (main[c].pc # "idle")
            ~> (main[c].pc = "idle" \/ hist.excuse \/ ~proc.home \/ proc.over)

\* zts_stop returns: the threads it joins end and the lock comes free
\* (libzt.cpp 144-149).
StopReturns ==
    \A c \in Callers : (stop[c].pc # "idle") ~> (stop[c].pc = "idle" \/ proc.over)

\* An instance that was told to terminate is the last one, unless it had
\* collided when it returned (libzt.cpp 1829-1853).
StopEnds ==
    (node.term /\ node.phase \in {"starting", "online"})
            ~> \/ proc.over \/ node.phase = "collided"
               \/ \A i \in 1..Starts : thr[i].pc \in {"none", "ended"}
=============================================================================
