# A TLA+ development for libzt

libzt puts a user-space TCP/IP stack behind a socket API: an application calls
`zts_socket`, `zts_connect`, `zts_write`... and its traffic goes through a
ZeroTier virtual network. The code of the library proper is in `src/` (about
4700 lines); the stacks (`ext/picotcp`, `ext/lwip`) are vendored and the
ZeroTier service (`zto`) is a submodule whose directory is empty at this commit.
The modules here model the picoTCP build, which is the default, and of picoTCP
itself what every connection goes through: TCP, the life of its sockets, the
timers.

Paths below are relative to the repository; line numbers are in `PROJECT.json`
under `map`, definition by definition.

## 1. The system

Three kinds of threads meet in a process:

| thread | runs | touches |
|---|---|---|
| application threads | the `zts_*` calls of `libzt.cpp` | `unmap`, `fdmap`, `Connection`, `tap->_Connections` |
| the tap's thread (one per network) | `SocketTap::threadMain` -> `pico_loop`: `Phy::poll`, then `pico_stack_tick`, for ever; handlers `phyOnUnix*` and the stack's callback `pico_cb_socket_activity` | `TXbuf`, `RXbuf`, `Connection::state`, `_AcceptedConnections`, the frame buffer |
| the service's thread | `zts_start_service`: instances of `OneService` until one ends; `SocketTap::put`, `addIp`, `removeIp`, `scanMulticastGroups` | `zt1Service`, the identity files, `vtaps`, the frame buffer, `_ips`, `_multicastGroups` |

A socket is a `Connection`: a socketpair (`app_fd` for the application, `sdk_fd`
for the library), a `pico_socket`, two `RingBuffer`s and a state. It is
*unassigned* (in `unmap`) until a connect or a bind chooses a tap, then
*assigned* (in `fdmap`, with the tap).

### Inventory

| part | state | operations | what is hard | what makes it correct | module |
|---|---|---|---|---|---|
| `RingBuffer.hpp` | array, `begin`, `end`, `wrap` | `write`, `read`, `produce`, `consume`, `count`, `getFree`, `get_buf` | two chunks at the end of the array; empty and full look alike | it is a bounded FIFO queue | `RingBuffer`, `RingBufferSpec`, `BoundedFifo` |
| transmit path | socketpair, `TXbuf`, the stack's queue, pending `EV_WR` | `zts_write`, `phyOnUnixData`/`pico_Write`, `pico_cb_tcp_write`, `zts_close`'s wait | partial writes, lost wake-ups, a close that races with everything | bytes arrive in order, once, in the end | `StreamTx` |
| receive path | stack data, `RXbuf`, socketpair | `pico_cb_tcp_read`, `phyOnUnixWritable`/`pico_Read`, `zts_read` | short sends, a full buffer | the application reads what was sent | `StreamRx` |
| frame buffer | `pico_frame_rxbuf`, its fill level | `put`/`pico_rx`, `pico_eth_poll` | several frames per poll, flush, overrun | frames stay whole and in order | `FrameBuffer` |
| socket multiplexer | the maps, the lock, connection states, accept queues | nine calls, six callback events | several threads on one descriptor, calls that wait, early returns | no map leads to a deleted object, every report completes one call, accepts are in order | `SocketApi` |
| tap addresses | `_ips`, `_multicastGroups` | `addIp`, `removeIp`, `scanMulticastGroups` | searches of vectors left unsorted | subscriptions match the addresses | `TapAddrs` |
| service life cycle | `zt1Service`, `picostack`, identity files, `.conf` file | `zts_start`, `zts_simple_start`, `zts_join`, `zts_stop`, `zts_start_service` | a thread that deletes what others test, collisions, crashes between file operations | one service, no identity lost, start and stop return | `Service` |
| life of a tap | `vtaps`, its lock, running flag, thread | constructor, destructor, `threadMain`, `dismantleTaps` | several threads that stop, destructors that wait for threads | a tap is deleted once, after its thread | `Service` |
| picoTCP: data transfer | `tcpq_out`, `tcpq_in`, `snd_nxt`, windows, timer | push, output, ack, retransmission, data in, read | loss, duplicates, reordering, wrap of the sequence numbers, full queues | the stream arrives exactly; what the peer lacks can be sent again | `PicoTcp` |
| picoTCP: life of sockets | socket state, backlog, four timers, references | the handlers of `tcp_fsm`, connect, listen, accept, close, deletion, collection | any segment at any time, timers racing each other and the application | backlog exact, sockets freed once and in the end | `PicoConn` |
| picoTCP: timers | heap in blocks, clock | `heap_insert`, `heap_peek`, `pico_timer_add`, `pico_timer_cancel`, `pico_check_timers` | callbacks and other threads that change the heap under the loop, wrap of the clock | no timer lost, early or twice | `PicoTimers` |
| queries, pass-through calls, bindings, logging, `pico_eth_send` | none of their own | | | | not modelled |
| lwIP driver | | mostly unimplemented stubs | | | not modelled |

They interact like this:

    zts_write -> socketpair -> Phy -> phyOnUnixData -> TXbuf -> pico_socket_write
                                        TXbuf <- pico_cb_tcp_write <- EV_WR
    EV_RD -> pico_cb_tcp_read -> RXbuf -> Phy::streamSend -> socketpair -> zts_read
    service -> SocketTap::put -> frame buffer -> pico_eth_poll -> stack
    EV_CONN/FIN/ERR/CLOSE -> Connection::state, accept queue <- zts_connect, zts_accept
    pico_tcp_push -> tcpq_out -> network -> tcpq_in -> pico_tcp_read; acks back
    OneService -> SocketTap (vtaps) <- zts_has_address, zts_stop

`PROJECT.json` lists under `hazards` what is hard to test in this code, with the
properties that would catch it and a note where there is none yet.

## 2. Modules

**`RingBuffer`** is the class as operators on a record. `Contents` is the queue
it holds. `RawRead` and `RawStore` model reading and storing through `get_buf()`,
which knows nothing of the end of the array: bytes read behind it are *foreign*,
bytes stored behind it are not in the array.

**`RingBufferSpec`** calls the methods in any order and with any argument up to
`MaxLen`, **`BoundedFifo`** is the queue users take it for; the refinement maps
`fifo` to `Contents(rb)` and compares the results of calls too, through the
history variable `call`.

**`StreamTx`** extends `RingBuffer`. The application writes into the socketpair
(`zts_write`) and closes (`zts_close`, `CloseReadsEnd`, `CloseReadsBegin`,
`TapClose`); the unlocked `TXbuf->count()` in the wait loop is two reads with
other threads' steps between them, and another thread may still write while the
close waits. `closer.due` is history: how many bytes were on `TXbuf` or sent when
the close read `end`. The tap's thread takes data
(`phyOnUnixData` with `pico_Write`) and is called back (`EvWr` with
`pico_cb_tcp_write`); both are under `_tx_m`, so each is one step. The stack
takes any part of an offer that fits and at least a byte when its queue is empty,
raises `EV_WR` with every acknowledgement and withdraws it when a segment finds
no room (`pico_tcp_push`). It may stall (`Stalls`), as the run `tcp_stall` shows that
it can with a peer that lives: `stalled` says that no acknowledgement need come. Byte
*i* of the stream is the number *i*. The connection is established when the model
starts.

**`StreamRx`** is the other direction, one turn of `pico_cb_tcp_read`'s loop per
step. A turn with `RXbuf` full on entry reads an uninitialized `r`: the loop ends
or spins, a nondeterministic choice. `short` records the first departures from
the normal case, so that the properties can say exactly until when they hold.

**`FrameBuffer`** keeps the buffer cell by cell: the size field and the memory
moves are what can go wrong. A cell stands for some bytes; the size field is one
cell. Both operations run under `_pico_frame_rxbuf_m`, one step each. `kept` is
history: the numbers of the frames no flush has thrown away. A frame stored behind the
end of the array ends the model.

**`SocketApi`** is the multiplexer. A call is entered (`Enter`), takes
`_multiplexer_lock`, and runs to its end or to the next point where another
thread can see it half done: `zts_connect` between the stack's start and giving
the Connection to the tap, and in its unlocked wait; `zts_listen` between the
stack's listen and the state; `zts_accept` in its locked wait. A Connection and
its `app_fd` share a number, and numbers are not reused. Null entries that
`operator[]` of `std::map` inserts are modelled. A use of a null or unset pointer
ends the process (`crashed`). One tap; stream sockets; `zts_close`'s wait, which
`StreamTx` has in detail, is part of the locked step.

**`TapAddrs`** has the vectors of `SocketTap` with `std::sort`, `std::unique`
(without the erase that should follow) and `std::binary_search` as algorithms: the
last two are loops, `UniqueTurn` and `LowerTurn` are one turn of each.

**`PicoTcp`** is one direction of an established connection: the sending socket
with `tcpq_out`, the stack's queue `tcp_out`, the receiving socket with `tcpq_in`,
and a network that loses, repeats and reorders frames and acks. A byte is its
position in the stream and a segment has a sequence number of limited width, so
that comparisons meet the wrap. Everything that moves `snd_nxt` is there: the loop
of `pico_tcp_output` with right sizing and the full window, `process_out`, the
timeout with its blackout, fast recovery, the way back to look-ahead. SACK options
are a choice of their effects. `shed` is history: what `tcp_split_segment` sent
without keeping it. Each loop of the code is a recursive function over the number of
its turns (`OutputTurn`, `ScrollTurn`, `ReleaseTurn`, `ReadTurn`). A read that begins
behind the end of the first segment (the code's "FATAL TCP ERR") ends the model.

**`PicoConn`** has the table `tcp_fsm` and every handler in it for a listening
socket, its children and connecting sockets, with libzt's callback for each event.
A handler gives the set of outcomes for a socket and a segment; what it compares
with the socket's sequence numbers is a field of the segment, and any segment may
arrive at any time until the peers fall silent. Whether a write leaves the
retransmission timer armed is a choice: `pico_tcp_output` arms it only for a segment at
`snd_nxt`, which `PicoTcp` follows; every ack arms it (`pico_tcp.c` 2253). The timers (connect retry,
retransmission, linger, collection) fire in any order. A use of freed memory ends
the model (`bad`), and the properties say which uses can happen.

**`PicoTimers`** is the heap of `heap.h` with its blocks cell by cell, and the
timers on it. `pico_check_timers` is one step per turn, and a callback is two, with
additions and cancels by the callback or another thread in between. `set`, a bag of
expiry times, is what the application of the timers expects the heap to hold.

**`Service`** runs the service's thread, the application's threads, any of which starts,
waits, joins or stops, and the taps' threads. `zts_start` tests (`StartTests`) and then
sets `picostack` and makes the thread (`zts_start`) in two steps, as nothing locks it:
two callers may both pass the tests. If both then make a service the model ends, because
what two services do to each other's globals is not followed. The arguments of a start
are chosen where they are first used. `zt1Service` is read and
written where the code does so, without a lock; the object and the pointer go at
different moments. Files survive a `Restart`, which may come at any step. What
`OneService::run` does (generate an identity, come online, make and delete taps,
collide, fail, obey `terminate`) is modelled from how `libzt.cpp` uses it.

The modules meet at these places: `StreamTx` and `StreamRx` take the stack as a
queue that takes part of an offer, and may stall, and as a source of bytes. `PicoTcp`
shows that the bytes come out in order and where the queue stalls; that the two views
fit together is an argument, not a checked refinement. `SocketApi` takes the events in any order `PicoConn` can give them;
`WaitAddr` of `Service` stands for `TapAddrs`.

`MCSocketApi` and `MCTapAddrs` hold what the configurations need (a symmetry set,
a table of groups). The modules whose names end in `Proofs` hold the proofs, one
module per component; `TapProofs` has those of `FrameBuffer`, `TapAddrs` and `PicoTcp`,
which share their lemmas about loops. Definitions whose comment begins with
"A mutated" are plausible wrong versions of the definition that follows; no
specification uses them, they show that the properties can fail.

## 3. Runs

Passing runs:

| run | configuration | shows |
|---|---|---|
| `ring_fifo` | `RingBuffer.cfg` | `RingInv`; `FifoSpec`: the ring implements the queue |
| `tx` | `StreamTx.cfg` | `NothingLost`, `RightOrForeign`, `NotStranded`, `NeverShort`, `CloseDrained`, `TypeOK`, and under fairness `EveryByteSent` and `CloseReturns` |
| `rx` | `StreamRx.cfg` | `ExactUntilShort`, `NumberKept`, `TypeOK` |
| `frames` | `FrameBuffer.cfg` | `FramesIntact`, `TotExact` and, under fairness, `EveryFrameHandled` |
| `api` | `SocketApi.cfg` | `MapsConsistent`, `ConnectsCounted`, `AcceptFifo`: several applications, each a set of calls for two or three threads on shared descriptors, with timers running out, states that start as garbage, the listening socket closed under accepting threads and `zts_nsockets` breaking the lock |
| `tap_groups` | `TapAddrs.cfg` | `SubscribedExact` |
| `tcp` | `PicoTcp.cfg` | `StreamExact`, `Retained`, `SizeExact`, `TypeOK` |
| `tcp_conn` | `PicoConn.cfg` | `PendingExact`, `ConnsAccepted`, `MemoryKept`, `FinOnce` and, under fairness, `Freed` |
| `timers` | `PicoTimers.cfg` | `HeapInBounds`, `HeapOrdered`, `RefsExact`, `NeverEarly` and, under fairness, `Called` |
| `service` | `Service.cfg` | `OneService`, `IdentityKept`, `TapsDismantled` and, under fairness, `SimpleStartReturns`, `StopReturns`, `StopEnds` |

Runs that end in a violation: each property states what a comment, a header or a
test of the repository says, and the code does otherwise. `PROJECT.json` quotes
the line under `findings`.

| run | property | what happens |
|---|---|---|
| `api_refused` | `RefusedReturns` | a refused connect never returns |
| `tcp_stall` | `NeverStalled` | after a blackout `snd_nxt` stays behind what is acked, and later segments are never sent |

The stall takes three segments: a timeout, then the late ack of the first, which
sets `snd_nxt` back to the second (`pico_tcp.c` 2112), then the ack of the second,
which was in flight all the time. Now `tcpq_out` is empty and `snd_nxt` names a
segment that is gone. `pico_tcp_output` looks for a segment at `snd_nxt` only, and
the timer, finding nothing to send, is not set again.

### Bounds, and why they are enough

- Rings of 3 or 4 cells: contents wrap at every position, calls can be longer
  than the ring, and 5 or 8 stream bytes go around at least once; for `StreamTx`
  that lets the ring go around between the two reads of `zts_close`. `WriteMax` and
  `StackCap` below the ring's size make partial writes and a full stack queue
  happen; `PipeCap` = 2 with `ReadMax` = 2 makes short sends happen. The proofs of
  section 4 cover all sizes for the ring and both paths.
- `FrameBuffer`: 7 cells and frames of 2 and 3 cells, 6 frames: exact fit, flush
  with several frames waiting, polls of one and of two frames, overrun. Both
  invariants are proved for all sizes.
- `SocketApi`: the applications of `MCSocketApi` (`AllApps`) differ in what they let
  happen, and the initial state chooses one. For the maps,
  three threads on one descriptor are one more than any step's two parties. For
  connects, two Connections let one be mistaken for the other. For accepts, three
  Connections are a listening one and two that queue up behind it. `MaxTap` bounds
  `zts_bind`'s repeated registration of the same Connection; `EvConnEarly` is
  taken once per Connection, because a second time changes nothing. Thread symmetry
  is used in safety runs only. The three invariants are proved for any number of
  threads and Connections and any set of calls.
- `TapAddrs`: five addresses with three groups, up to seven entries, so that
  `std::unique` leaves tails of different lengths. That the searches are right all
  the same is no accident: on a sorted vector after `std::unique` without erase,
  the places where "element < x" changes are places that hold x. Section 4 has the
  proof, for any addresses and groups.
- `PicoTcp`: sequence numbers modulo 16 and a stream that crosses zero. It is shorter
  than half of them: the code's streams may be longer, and there it is assumed that a
  segment does not stay in the network while half of the 2^32 numbers pass; two segments of two bytes and a window
  of three, so that a segment is split, the window fills and closes, segments
  overlap and reads end inside one. Two frames and one ack in the network, each of
  which may stay for ever, are the fewest that can overtake each other. The stall
  needs three segments and no wrap, so it has a configuration of its own. The four
  invariants are proved for all of these bounds.
- `PicoConn`: two sockets, one of which may be a client; backlogs of one and two;
  a count that wraps at 4. Two children are enough for one to be accepted in place of
  the other, and for one to keep the port alive while the other is deleted twice.
  Retries are bounded by 0 and 1, because each retry is like the one before. The four
  invariants are proved for all of these bounds.
- `PicoTimers`: two blocks of three cells, so that the heap has an inner cell with one
  and with two children, a block is filled, the next begun, and the heap becomes full;
  a clock that wraps during the run. The four invariants are proved for all sizes.
- `Service`: two threads that start and stop, two calls that start, two instances (one
  collision and the instance after it), two identities and one restart. Two callers are
  enough for starts that overlap, for a stop during a start and for two stops. `OneService`,
  `IdentityKept` and `TapsDismantled` are proved for all of these bounds.
- Deadlock is not checked where the model ends because a bound is reached or the
  process has ended; `RingBuffer.cfg` checks it.

### Fairness

- The tap's thread loops over `Phy::poll` and `pico_stack_tick` for as long as the
  tap runs (`pico_loop`): weak fairness of `phyOnUnixData`, `EvWr` and `Poll`.
- A thread inside a call is scheduled again: weak fairness of the steps of
  `zts_close` and of `Run(t)`. Entering a call is never fair.
- `Acked` is fair while the stack has not stalled: `EveryByteSent` is about a connection
  whose peer lives; for one that does not, the stack closes the socket, which the
  property allows. It also allows a stall that never ends, which is what the run
  `tcp_stall` finds. The property does not depend on the application doing anything.
- `PicoConn` and `PicoTimers`: the same loop goes through all sockets and all due
  timers, so each timer and each socket's turn is weakly fair on its own, and
  callbacks return. Segments, application calls and the silence of the peers are not
  fair; `Freed` begins when the peers are silent.
- `Service`: each thread inside a call or loop is weakly fair; so are the node's coming
  online, its making a tap for a joined network and its end after `terminate`, which
  are the service's own promises. Calls, collisions, errors and crashes are not.

## 4. Proofs

`tlapm` checks every theorem for all values of the constants that meet the named
assumptions (`SizeAssumption`, `MaxLenAssumption`, `TxAssumption`, `RxAssumption`,
`ApiAssumption`, `ConnAssumption`, `TimersAssumption`, `ServiceAssumption`,
`FrameAssumption`, `AddrsAssumption`, `TcpAssumption`): positive
sizes and bounds, finite sets of sockets and backlogs below the width of the counter
that holds them, blocks of at least two cells, frames no larger than their buffer, a
stream shorter than half the sequence numbers and a segment smaller than `tcpq_in`, and,
for the streams through a ring, elements that are the byte numbers. Each inductive invariant below was checked by TLC on its component's
run before it was proved.

**`RingBufferProofs`.** `RingCorrect` (`RingSpec => []RingInv`): `RingInv` is
inductive as it stands. `RingImplementsFifo` (`RingSpec => FifoSpec`): each method,
under `RingInv`, changes `Contents` as the queue operation does. The work is in
the lemmas before it: `AdvanceValue` (two chunks are one step modulo the size),
`CountCases`, `WriteMemory` (which cells a write changes), then what `write`,
`produce`, `consume` and `read` do to the contents. These lemmas are about one
call and are cited again for both paths; `RawReadContents` says for the transmit path
that what is read through `get_buf()` is right or foreign.

**`StreamTxProofs`.** The properties are not inductive by themselves. `TxInv`
adds to them `QueueExact`, which is `NothingLost` element by element and in
lengths, the form the steps can use; `TriesLeft`, that a counting close has tries
left; and that data is dropped only on a closed socket. The last is what makes
`RightOrForeign` inductive: after a drop `QueueExact` says nothing about `TXbuf`,
but the stack takes no byte any more either. Each action preserves `TxInv`
(`TxWriteStep`, `TxPhyStep`, `TxEvWrStep`, `TxControlStep`); `OfferStep` is what
`pico_Write` and `pico_cb_tcp_write` share. From it follow `TxTypeCorrect`,
`TxNeverShort`, `TxNothingLost`, `TxRightOrForeign` and `TxNotStranded`.

`TxCloseDrained` needs one more idea. `zts_close` reads `end`, and later `begin`
and `wrap`; `CloseDrained` says that it is not fooled when they agree although the
ring has moved in between. `CloseSeen` is the reason: as long as some of the bytes
counted at the first read are not sent, the index held by `zts_close` is exactly
that many places behind `begin` (`Place`), fewer than `Size` and so not `begin`
itself. `DrainInv` joins the two and is inductive on top of `TxInv` (`DrainStep`,
with `OfferMoves` for what an offer does to `begin`).

**`PicoTimersProofs`.** `TimersInBounds` (`Spec => []HeapInBounds`).
`HeapInBounds` speaks of the cells up to `n`; it is not inductive, because
`heap_insert` reuses cells without asking while `n < size`. `BoundsInv` adds that
the cells below `size` are allocated and `n <= size`. The one step that allocates is
`heap_increase_size`: `IncreaseBounds` shows that the block of cell `n`, allocated
anew with `(n + 1) % Epb` elements or a whole block, still has every cell below `n`
and now `n` too, and that other blocks are left alone. `TimersInv` adds that the heap
is not empty while a callback runs, on which the removal after it relies.

`TimersOrdered`, `TimersExact` and `TimersNotEarly` rest on `OrderInv`. Its first part,
`HeapOK`, is about the heap alone: inside its blocks and ordered. The cells an element
passes on its way up (`UpPath`) or down (`DownPath`) are a recursive function of the
cell it has reached, so that the proofs need induction over numbers; it is had through
sets, a set of numbers that is not empty having a least element (`LeastNat`,
`SetInduction`). By it such a set of cells is a `Way`: it has one end, and every other
cell of it leads to the next. Sifting moves each element of the way one cell on and puts
the new one at the end; `UpOrdered` and `DownOrdered` show that the result is ordered, and
`SiftedCount`, by a bijection between cells, that each timer has as many references as
before, which is what `RefsExact` compares with `set`. The second
part, `Running`, says what holds until a misuse: the counts agree, the timer whose
callback runs is still the first of the heap and has expired (whatever the callback
adds is later), and each reference is on time (`OnTime`): its expiry is counted from a
moment the clock was at zero, and if that is not the present round, the reference is
not taken for expired before its time either. This last is why nothing is called early
when the clock wraps, even between reading `pico_tick` and comparing with it.

**`ServiceProofs`.** `ServiceOnce` and `ServiceKeepsIdentity`. That there is one thread
unless starts overlapped rests on `StartInv`: as long as no caller has entered
`zts_start` while another was between the tests and `picostack`, there is one caller at
most at that place, and what it has tested still holds when it makes the thread
(`TestsStep`, `StartStep`). `IdentityKept` depends
on where the thread is between copying and removing, and on there being no second
thread at the files. So `ServiceInv` says that before `picostack` is set no thread of
the service exists and that a process which goes on has one at most (`ThreadInv`), and
what the thread knows at each line of the saving (`Saving`): until the copy is written the
identity is under its own name, and at the removal the copy holds it, unless writing
failed. It is about the last identity that collided; a second collision writes over the
saved file of the first. A restart ends the threads and leaves the files, which is why
`IdentityKept` itself is a conjunct. `ServiceStep` and `SaveStep` are the thread's
steps, `Untouched` covers the steps that touch neither threads nor identities.

`ServiceTaps` has an invariant of its own, `TapsInv`. `dismantleTaps` deletes the taps
of `vtaps` one by one under `_vtaps_lock`, and clears `vtaps` at the end. So a tap that
is listed and was deleted is behind the place the thread with the lock has reached
(`Deleted`), a thread in the loop has the lock and no other is there (`Holder`), no tap
is listed twice (`Entries`), and one that is not made yet is untouched (`EachTap`).

**`StreamRxProofs`.** `RxTypeCorrect`, `RxExactUntilShort`, `RxNumberKept`. The three
properties together are inductive (`RxInv`). The step that matters is a turn of
`pico_cb_tcp_read` (`RxTurnStep`): the bytes are stored through `get_buf()`, at `begin`,
while `produce` moves `end`. `Received` says that on an empty ring the two agree as long
as the array does not end inside the read, and `MoveFront` that what a send takes from
the front of the ring and appends to the socketpair leaves the two together as they were.

**`SocketApiProofs`.** `ApiFifoOrder` needs only that the objects are where they should
be (`Base`): it holds for all calls. `ApiMaps` and `ApiConnects` hold as long as nobody
calls `zts_nsockets`, and there `Obeys` says why. A thread that is half done in a locked
call has the lock (`Holders`); a Connection is in one map at most (`OneMap`), and one that
waits to be accepted was never in `unmap` (`Queued`), so that the `zts_close` of an
unassigned descriptor cannot delete it. For the connects, `Paid` is the account: connects
that succeeded and Connections that can still let one succeed are together no more than
the reports. A report for a Connection that was reported before would break it; `Fresh`
rules that out: a Connection is connected once, because `zts_connect` has taken it out
of `unmap` before another call gets the lock. The attempt to prove `ConnectsCounted`
for all calls failed at exactly this place. `zts_nsockets` unlocks `_multiplexer_lock`
while a connect is half done, another thread connects the same descriptor again, and
what is reported of one Connection lets two calls succeed; TLC confirms it with three
threads. The property therefore has the same condition as `MapsConsistent`.

**`PicoConnProofs`.** `ConnPending`, `ConnAccepted`, `ConnMemory`, `ConnFinOnce`. `ConnInv`
is the three invariants about several sockets and `Good` of each one. `Good` says: a
socket is in the tree exactly while it has a state, and then it is neither freed nor
being collected (`InTree`); whose it is and which states it can be in (`Owned`); it is
collected once unless `tcp_deltcb` came late (`CollectedOnce`); no FIN was sent before it
leaves `ESTABLISHED` or `CLOSE_WAIT`, and a second one needs `remote_closed`
(`FinsCounted`); and the application holds a deleted socket it was not told of only after
a connect that timed out (`ToldOfEnd`). Each handler of `tcp_fsm` is shown to give
outcomes as promised (`Comes`): a kept outcome makes no pending socket established
(`Quiet`), a deleting one has told libzt of the end, and only `tcp_first_ack` reports a
connection. `Rows` shows that the table calls each handler only in states it can take,
`ByFlagsComes` that the promise survives an acknowledgement, data and a FIN in one
segment. Then the counts: a step changes one socket, and `PendingIn` and `NewIn`
(pending, pending and established) stay, gain one (`CountMore`, `CountMissed`) or lose
one (`CountLess`). `AcceptKeeps` is the interesting case: the socket accepted may be
another than the one established, but one goes for one that comes. The counter is a
number modulo `PendMod`; it does not wrap because it is exact and not zero when it goes
down (`OneLessIs`).

**`TapProofs`**, loops. `PicoTcp`, `FrameBuffer` and `TapAddrs` have their loops as
recursive functions of the number of turns. That such a function exists, and that what
every turn keeps holds after the last one, is induction over that number; as in
`PicoTimersProofs` it is had from the least element of a set of numbers. `LoopExists` and
`LoopKeeps` say it once, for sets of states `S[k]` that depend on the turn;
`RepeatExists` and `RepeatKeeps` for one set.

`FramesCorrect`, `TotCorrect`. `FrameInv` says where the buffered frames lie: there is a
function `ends` from the number of frames polled to the number kept, such that each frame
begins where the one before ends, cell by cell (`Lies`), the last ends at
`pico_frame_rxbuf_tot`, and the first at cell 0. It stops at the first overrun. A turn of
`pico_eth_poll` takes the first frame away and moves `ends` down by its size
(`PollOneKeeps`): this needs that the `memmove` reaches every cell of the frames that
stay. `StoreLayout` adds one frame at the end. `FramesIntact` says nothing of what is in the
buffer, and `TotExact` only where the size fields are, so neither is inductive.

`SubscribedCorrect`. `TapInv` says that `_ips` is sorted, that `_multicastGroups` is a
vector `std::sort` and `std::unique` made (`Uniqued`), and that the service knows its
elements. `Uniqued(u)` means: there are a sorted `s` and a number `d` such that the first
`d` elements of `u` are the different elements of `s` in order and the others are as in `s`
(`Fronted`, `Holds`; `UniqueTurnKeeps`). `SearchExact` is the interesting lemma: on such a
vector, although it is not sorted, `std::binary_search` finds exactly the elements.
`Searches` is the invariant of `std::lower_bound`: if `x` is in `u`, it is among the places
from `first` to one behind `first + len`. When the middle is in the tail and less than `x`,
the places of `x` in the tail come later; when it is not less, `x` is at a place of the
front before the middle or at the middle itself (`LowerTurnKeeps`).

`StreamCorrect`, `SizeCorrect`, `RetainedCorrect`, `TcpTypeCorrect`. `TcpInv` joins
`TypeOK` with: what is in `tcpq_out`, `tcp_out` and the network is part of the stream
and numbered as its position says (`SenderInv`); so is what is in `tcpq_in`, and what was
read is the stream up to `rcv_processed` (`ReceiverInv`); no ack is ahead of `rcv_nxt`
(`AckInv`); and whatever is not received is held or shed (`RetainedInv`). `CompareExact`
shows that `pico_seq_compare` gives the distance of two positions also across zero; it needs
the stream to be shorter than half the sequence numbers. `Keeps` is what every step of the
sender promises: it sends only parts of the stream and leaves in `tcpq_out` what it held,
but for what it shed. It is shown for `tcp_split_segment`, a turn and the loop of
`pico_tcp_output`, the recovery and the congestion control, and then used by each action
(`SenderStep`). A read keeps `Reading`: what it has returned begins at the position where
it began, and `rcv_processed` is as far (`ReadTurnKeeps`). `ReleaseUntil` shows that
`release_until` only removes segments, and not that it removes all that are read: it does
not, see section 5. `SizeExact` counts bytes as a set of pairs, so that taking and
discarding segments adds and subtracts (`SumParts`).

Every invariant of a passing run, and the refinement, is proved. The liveness properties
(`EveryByteSent`, `CloseReturns`, `EveryFrameHandled`, `Freed`, `Called`,
`SimpleStartReturns`, `StopReturns`, `StopEnds`) are only model-checked: temporal reasoning
under fairness is out of the prover's reach.

## 5. Limits

### What the model reaches and no run asserts

Some early returns and missing checks are reached by one or two calls. They are in
the modules as the code has them, the properties of section 3 hold in spite of
them or say until when they hold, and a run that only replays them would add
nothing:

- `zts_close` waits for `TXbuf` (`libzt.cpp` 1061), not for bytes that are still in
  the socketpair, although it says it waits "for write operations" (1059).
- `pico_Read` has no code outside comments (`picoTCP.cpp` 692), so that what a short
  send left on `RXbuf` goes out only when more data arrives; `SocketTap.hpp` 242
  says `Read` moves data from the RX buffer to the application.
- A frame of the ether type the loop at `picoTCP.cpp` 456 tests for throws all
  waiting frames away when there is no room for it; the comment at 443 says each
  frame is enqueued.
- `zts_bind` registers a Connection with the tap before it knows the outcome
  (`libzt.cpp` 679). When bind fails, `zts_close` deletes the Connection (1031)
  and the tap's vector still leads to it.
- `zts_nsockets` unlocks where it should lock (`libzt.cpp` 1700). With it among the
  calls neither `MapsConsistent` nor `ConnectsCounted` holds, which is why they are
  stated for the applications of `api` that do not call it; `AcceptFifo` holds for all. It
  also counts the null entries that searches with `operator[]` leave (1701).
- Out of timers, `zts_socket` tests a pointer that was never set (`libzt.cpp` 402).
- `zts_listen` (`libzt.cpp` 744) and `zts_socket` for raw sockets (398) return with
  `_multiplexer_lock` held.
- A connect without a route moves the descriptor to `fdmap` without a tap
  (`libzt.cpp` 561); a later close uses the null pointer.
- A blocking `zts_accept` sleeps with `_multiplexer_lock` held (`libzt.cpp` 823).
- An address is entered by `pico_init_interface` (`picoTCP.cpp` 90) and again by
  `addIp` (`SocketTap.cpp` 156); `removeIp` removes one entry.
- Once `TXbuf` has wrapped, `pico_Write` (`picoTCP.cpp` 819) and `pico_cb_tcp_write`
  (278) hand the stack bytes from behind its array; `RightOrForeign` says that these
  are the only wrong ones. `selftest.cpp` 392 expects the stream intact.
- After a short send, `pico_cb_tcp_read` receives over the unsent head of `RXbuf`
  (`picoTCP.cpp` 170); `ExactUntilShort` says until when the stream is right.
- A blocking `zts_connect` takes the first report it finds in the tap's vector
  (`libzt.cpp` 597), its own or another's; `ConnectsCounted` says that no report
  serves two calls.
- With `RXbuf` full, a turn of `pico_cb_tcp_read` may change nothing and repeat for
  ever (`picoTCP.cpp` 195).
- `pico_Listen` looks at `err` where the stack reports in `pico_err` (`picoTCP.cpp` 659).
- `picostack` is never reset: after `zts_stop` the service cannot be started again
  (`libzt.cpp` 119). With an empty `homeDir` the thread ends (1815) and
  `zts_simple_start` waits for ever, as it does when `zts_join` finds no service
  because a collision has just reset `zt1Service` (152). `zts_join` goes on when `mkdir`
  or `writeFile` fails, for `handle_general_failure` does not end the process (154 to 161): the service
  joins, but the instance after a collision finds no `.conf`, and the wait for an address
  has no end. These are the exceptions of `SimpleStartReturns`.
- Two threads in `zts_start` at once can both find `picostack` unset, and each makes a
  service (`libzt.cpp` 116 to 132): the exception of `OneService`.
- The second collision in a home directory writes over the identity that the first one
  saved (`libzt.cpp` 1843): `IdentityKept` is about the last.
- `zts_stop` does nothing while `zt1Service` is null after a collision, and a
  `terminate` that meets a collision is lost (`libzt.cpp` 145, 1836): the exception of
  `StopEnds`.
- `zts_join` and `zts_stop` test `zt1Service` and read it again (`libzt.cpp` 152, 162;
  145, 146).
- The constructor of `SocketTap` appends to `vtaps` without the lock, and the destructor
  leaves the entry there (`SocketTap.cpp` 95, 107): a tap the service has deleted is
  still found by `getTapByNWID` and deleted again by `dismantleTaps`.
- `identity.secret` is removed without looking whether it was saved (`libzt.cpp` 1843):
  the exception of `IdentityKept`. `identity.public` goes last; a crash before leaves an
  identity that `zts_get_device_id` reports and the node has given up.
- `tcp_split_segment` sends the head of a segment without keeping it, and cuts to the
  whole window instead of what is left of it (`pico_tcp.c` 2853): the exception of
  `Retained`.
- `release_until` follows the segments from the first on and stops where none begins at
  the end of the last it released, so that a shorter segment that lies inside another one
  can stay behind `rcv_processed` (`pico_tcp.c` 357). The next read then computes a length
  below zero and prints "FATAL TCP ERR: in_frame_off > f->payload_len" (1126): `rx.fatal`.
  The overlap comes from `tcp_split_segment`, so it takes a closing window, a segment that
  was split twice and a read that ends inside it; the attempt to prove that it cannot happen
  showed it, and TLC reaches it with three-byte segments and a window of four (18 steps).
  `StreamExact` and `SizeExact` hold up to that read.
- The linger time, 3 in `libzt.h` 145 with the comment "s", is passed as milliseconds
  (`picoTCP.cpp` 350, 547). A linger timer therefore fires before the collection of a
  socket that was deleted otherwise, deletes it again and has it freed twice if its
  port has other sockets: the exceptions of `PendingExact` and `MemoryKept`.
- A connect that times out is reported with `PICO_SOCK_EV_ERR` only, so that `zts_close`
  goes through a `pico_socket` that was freed (`picoTCP.cpp` 847): the other exception of
  `MemoryKept`.
- A connection established before `pico_Listen` has set `LISTENING`, or after the
  listening socket was closed, is never accepted: the exception of `ConnsAccepted`.
  Children keep a pointer to the listening socket after it is freed.
- `remote_closed` is never reset, so that each read after the peer's FIN closes again:
  the exception of `FinOnce`.
- A socket that is closed with data to send and has no timer any more sends neither the
  data nor the FIN (`pico_tcp.c` 2984) and is never freed: its data was given up in
  `CLOSE_WAIT` (1952), or its sender had stalled and `pico_tcp_output`, finding no segment
  at `snd_nxt`, armed nothing (2926). This is the exception of `Freed`.
- When the 32-bit clock wraps, timers set before are not called for another 49 days
  (`pico_stack.c` 605): the exception of `Called`. A callback that cancels its own timer
  frees it twice; the code does so only when timers have run out.
- `Connection` objects are never deleted after the stack has closed them: the call of
  `Housekeeping` is a comment (`picoTCP.cpp` 141).

### Not modelled

- Time. `usleep`, timeouts and round-trip estimates are counts of turns or choices;
  the order of timers that are set at different moments is left open.
- Datagram and raw sockets' data; `pico_cb_udp_read` has no code outside comments.
- Several networks, and with them the global `picodev` their taps share.
- What two services in one process do, after two threads called `zts_start` at the same
  moment: `Service` shows that this happens and ends there.
- The data race on `tap->_Connections`, which grows under `_multiplexer_lock` in
  one place and under `_tcpconns_m` in another: each access is one step. The same is
  true of application threads that enter the stack while the tap's thread runs it,
  except in `PicoTimers`.
- What memory that was overrun, freed or never set contains, beyond "the process
  ends", "foreign byte" or a choice from the few values that matter.
- The rest of the vendored stacks. `ext/lwip` is not in the default build, and libzt's
  lwIP driver is mostly stubs; of `ext/picotcp`, the IP layers, UDP and the application
  protocols (DHCP, DNS, mDNS, SNTP, PPP, OLSR...) are not used by libzt or are used
  through one call. They are more than nine tenths of the lines under `src/`, so that
  the share of lines the map covers stays small although the library's own core and
  the TCP below it are modelled.
- Everything marked `not_modelled` in `PROJECT.json`: formatting, queries, calls that
  pass a descriptor on, bindings, logging, examples.

## 6. Plan

Done, in this order: `RingBuffer` with its abstract queue and proofs; `StreamTx`
with its proofs (`TxCloseDrained` last); `StreamRx`; `FrameBuffer`; `SocketApi`;
`TapAddrs`; `PicoTcp`; `PicoTimers` with `TimersInBounds`; `PicoConn`; `Service` with
its first proofs; then the proofs of the other invariants of `PicoTimers` and `Service`
and of all those of `StreamRx`, `SocketApi` and `PicoConn`; last those of `FrameBuffer`,
`TapAddrs` and `PicoTcp`.

Next:

1. A composition of `SocketApi` with the streams: what the transmit path does to a
   Connection that a close takes apart.
2. The parts of the lwIP driver that are implemented.
