---------------------------- MODULE MCSocketApi ----------------------------
(***************************************************************************)
(* SocketApi for TLC: the applications considered.  Their threads run the   *)
(* same code.                                                               *)
(***************************************************************************)
EXTENDS SocketApi, TLC

ThreadSymmetry == Permutations(Threads)

\* Three threads on one descriptor, every call that keeps to the lock.
MapsApp ==
    [calls |-> {"socket", "raw", "connect", "bind", "listen", "accept", "close",
                "shutdown", "get_pico_socket"},
     threads |-> 3, timersRunOut |-> TRUE, unset |-> {"NONE"}, conns |-> 1, tap |-> 2]

\* Two threads that connect, with states that may be unset.
ConnectApp ==
    [calls |-> {"socket", "connect"}, threads |-> 2, timersRunOut |-> FALSE,
     unset |-> {"NONE", "UNHANDLED_CONNECTED"}, conns |-> 2, tap |-> 1]

\* Two threads that listen, accept and close.
AcceptApp ==
    [calls |-> {"socket", "bind", "listen", "accept", "close"}, threads |-> 2,
     timersRunOut |-> FALSE, unset |-> {"NONE"}, conns |-> 3, tap |-> 1]

\* The same with zts_nsockets, which breaks the lock.
NsocketsApp ==
    [AcceptApp EXCEPT !.calls = (@ \ {"close"}) \union {"nsockets"}]

AllApps == {MapsApp, ConnectApp, AcceptApp, NsocketsApp}

\* One thread that connects, its states set.
OneConnect == {[ConnectApp EXCEPT !.unset = {"NONE"}, !.threads = 1, !.conns = 1]}
=============================================================================
