------------------------------ MODULE TapAddrs ------------------------------
(***************************************************************************)
(* The addresses of a SocketTap and the multicast groups it reports to the  *)
(* ZeroTier service, picoTCP build: addIp, removeIp and scanMulticastGroups *)
(* of src/SocketTap.cpp, which the service's thread calls.  Addresses and   *)
(* groups are numbers, ordered as the code's operator< orders them.         *)
(***************************************************************************)
EXTENDS Integers, Sequences

CONSTANTS
    Addrs,      \* the addresses the service assigns
    GroupOf,    \* deriveMulticastGroupForAddressResolution, a function
    MaxIps      \* bound: the length of _ips

ASSUME AddrsAssumption ==
    /\ Addrs \subseteq Nat /\ MaxIps \in Nat
    /\ GroupOf \in [Addrs -> Nat]

VARIABLES
    ips,        \* _ips
    groups,     \* _multicastGroups
    known,      \* the groups the service is subscribed to, by what scans report
    scanned     \* no address was added or removed since the last scan

addrsVars == <<ips, groups, known, scanned>>

RangeOf(s) == {s[i] : i \in DOMAIN s}

\* How many elements of a sorted vector come before x.
Place(s, x) ==
    CHOOSE n \in 0 .. Len(s) :
        (\A i \in 1 .. n : s[i] <= x) /\ (\A i \in n + 1 .. Len(s) : s[i] > x)

\* push_back and std::sort of a sorted vector.
SortIn(s, x) ==
    LET n == Place(s, x)
    IN  [i \in 1 .. Len(s) + 1 |-> IF i <= n THEN s[i] ELSE IF i = n + 1 THEN x ELSE s[i - 1]]

\* std::sort.
Sort(s) ==
    LET sorted[i \in 0 .. Len(s)] ==
            IF i = 0 THEN <<>> ELSE SortIn(sorted[i - 1], s[i])
    IN  sorted[Len(s)]

\* One turn of std::unique: what differs from the last that was kept is moved behind it.
UniqueTurn(r, i) ==
    IF r.last > 0 /\ r.s[r.last] = r.s[i] THEN r
    ELSE [last |-> r.last + 1, s |-> [r.s EXCEPT ![r.last + 1] = r.s[i]]]

\* std::unique, without the erase that should follow: the first of each run of
\* equals moves to the front, the tail keeps what it had.
unique(s) ==
    LET r[i \in 0 .. Len(s)] ==
            IF i = 0 THEN [last |-> 0, s |-> s] ELSE UniqueTurn(r[i - 1], i)
    IN  r[Len(s)].s

\* One turn of std::lower_bound.
LowerTurn(s, x, r) ==
    LET half == r.len \div 2
    IN  IF r.len = 0 THEN r
        ELSE IF s[r.first + half + 1] < x
             THEN [first |-> r.first + half + 1, len |-> r.len - half - 1]
             ELSE [first |-> r.first, len |-> half]

\* std::binary_search: it relies on s being sorted.
binary_search(s, x) ==
    LET r[i \in 0 .. Len(s)] ==
            IF i = 0 THEN [first |-> 0, len |-> Len(s)] ELSE LowerTurn(s, x, r[i - 1])
        at == r[Len(s)].first
    IN  at < Len(s) /\ ~(x < s[at + 1])

AddrsInit ==
    /\ ips = <<>> /\ groups = <<>> /\ known = {}
    /\ scanned = TRUE

-----------------------------------------------------------------------------
\* pico_init_interface adds an address it does not know.
pico_init_interface(ip) == IF ip \in RangeOf(ips) THEN ips ELSE SortIn(ips, ip)

\* addIp adds it, again, whatever pico_init_interface did.
addIp(ip) ==
    /\ Len(pico_init_interface(ip)) < MaxIps
    /\ ips' = SortIn(pico_init_interface(ip), ip)
    /\ scanned' = FALSE
    /\ UNCHANGED <<groups, known>>

\* removeIp erases the first entry for the address, if there is one.
removeIp(ip) ==
    /\ ip \in RangeOf(ips)
    /\ \E i \in DOMAIN ips :
        /\ ips[i] = ip /\ \A j \in 1 .. i - 1 : ips[j] # ip
        /\ ips' = SubSeq(ips, 1, i - 1) \o SubSeq(ips, i + 1, Len(ips))
    /\ scanned' = FALSE
    /\ UNCHANGED <<groups, known>>

\* A mutated derivation, which keeps the groups in the order of the addresses.
NewGroupsUnsorted == unique([i \in DOMAIN ips |-> GroupOf[ips[i]]])

newGroups == unique(Sort([i \in DOMAIN ips |-> GroupOf[ips[i]]]))

\* The service subscribes to what is added and leaves what is removed.
scanMulticastGroups ==
    LET added == {g \in RangeOf(newGroups) : ~binary_search(groups, g)}
        removed == {g \in RangeOf(groups) : ~binary_search(newGroups, g)}
    IN  /\ groups' = newGroups
        /\ known' = (known \union added) \ removed
        /\ scanned' = TRUE
        /\ UNCHANGED ips

AddrsNext == scanMulticastGroups \/ \E ip \in Addrs : addIp(ip) \/ removeIp(ip)

AddrsSpec == AddrsInit /\ [][AddrsNext]_addrsVars

-----------------------------------------------------------------------------
\* After a scan the service is subscribed to the groups of the tap's addresses,
\* although scanMulticastGroups searches vectors that std::unique left unsorted.
SubscribedExact == scanned => known = {GroupOf[ip] : ip \in RangeOf(ips)}
=============================================================================
