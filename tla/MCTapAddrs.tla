----------------------------- MODULE MCTapAddrs -----------------------------
(***************************************************************************)
(* TapAddrs for TLC.  Addresses 1, 3 and 5 share a group, as IPv6 addresses *)
(* with the same last 24 bits do; the groups are not in address order.      *)
(***************************************************************************)
EXTENDS TapAddrs

MCAddrs == 1 .. 5
MCGroupOf == [a \in MCAddrs |-> <<10, 30, 10, 20, 10>>[a]]
=============================================================================
