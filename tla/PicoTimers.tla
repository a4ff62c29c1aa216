----------------------------- MODULE PicoTimers -----------------------------
(***************************************************************************)
(* The timers of picoTCP (ext/picotcp/stack/pico_stack.c) and the heap they *)
(* are kept in (ext/picotcp/include/heap.h).                                *)
(*                                                                         *)
(* The heap is an array from 1 on, cut into blocks that are allocated as it *)
(* grows.  Time is read from a counter of limited width                     *)
(* (PICO_TIME_MS of pico_posix.h), expiry times are wider and do not wrap.  *)
(* Callbacks add and cancel timers; so do application threads, which enter  *)
(* the stack through pico_socket_open and the like without a lock, here     *)
(* between any two heap operations.                                         *)
(***************************************************************************)
EXTENDS Integers, FiniteSetsExt

CONSTANTS
    Epb,        \* elements_per_block
    Blocks,     \* MAX_BLOCK_COUNT
    ClockMod,   \* 2^32 in the code
    Start,      \* the time when the stack is started
    TimeMax,    \* bound: the time
    Delays      \* delays timers are added with

ASSUME TimersAssumption ==
    /\ {Epb, Blocks, ClockMod, Start} \subseteq Nat \ {0} /\ TimeMax \in Nat
    /\ IsFiniteSet(Delays) /\ Delays \subseteq Nat /\ 1 < Epb

VARIABLES
    heap,       \* Timers
    now,        \* the time, before it is cut to the clock's width
    pico_tick,  \* the time pico_check_timers works with
    pc,         \* where pico_check_timers is: "idle", "loop" or "callback"
    t,          \* the timer whose callback runs
    set,        \* history: how many timers are set for a time
    early,      \* history: some callback was called before its time
    misused     \* history: see Misuse

vars == <<heap, now, pico_tick, pc, t, set, early, misused>>

NULL == 0
Dues == 1 .. TimeMax + Max(Delays)
PICO_TIME_MS == now % ClockMod
Cells == 0 .. Epb * Blocks - 1
Zero == [expire |-> 0, tmr |-> NULL]

Init ==
    /\ heap = [size |-> 0, n |-> 0, cells |-> [i \in Cells |-> Zero],
               alloc |-> [b \in 0 .. Blocks - 1 |-> 0]]
    /\ now = Start /\ pico_tick = 0 /\ pc = "idle" /\ t = NULL
    /\ set = [d \in Dues |-> 0] /\ early = FALSE /\ misused = FALSE

-----------------------------------------------------------------------------
\* The heap.

\* A mutated heap_increase_size, which allocates room for n elements: the array
\* begins at 1.
IncreaseFromZero(h) ==
    LET b == h.n \div Epb
        elements == h.n % Epb
    IN  [h EXCEPT !.size = @ + 1, !.alloc[b] = IF elements = 0 THEN Epb ELSE elements,
                  !.cells = [i \in Cells |-> IF i \div Epb = b /\ i >= h.n THEN Zero
                                                ELSE h.cells[i]]]

\* The block of element n is allocated anew, one element larger.
heap_increase_size(h) ==
    LET b == h.n \div Epb
        elements == (h.n + 1) % Epb
    IN  [h EXCEPT !.size = @ + 1, !.alloc[b] = IF elements = 0 THEN Epb ELSE elements,
                  !.cells = [i \in Cells |-> IF i \div Epb = b /\ i >= h.n THEN Zero
                                                ELSE h.cells[i]]]

\* The cells an element passes on its way up from cell n, the last one included.
UpPath(h, el) ==
    LET path[i \in 1 .. h.n] ==
            IF i > 1 /\ h.cells[i \div 2].expire > el.expire
            THEN {i} \union path[i \div 2] ELSE {i}
    IN  path[h.n]

SiftUp(h, el) ==
    LET path == UpPath(h, el)
    IN  [h EXCEPT !.cells = [i \in Cells |-> IF i = Min(path) THEN el
                                             ELSE IF i \in path THEN @[i \div 2] ELSE @[i]]]

Full(h) == h.n + 1 >= h.size /\ h.n + 2 > Epb * Blocks

\* It fails, and changes nothing, when a full heap would have to grow.
heap_insert(h, el) ==
    LET more == [h EXCEPT !.n = @ + 1]
    IN  SiftUp(IF more.n >= h.size THEN heap_increase_size(more) ELSE more, el)

Child(h, i) ==
    IF 2 * i # h.n /\ h.cells[2 * i + 1].expire < h.cells[2 * i].expire
    THEN 2 * i + 1 ELSE 2 * i

\* The cells the last element passes on its way down from the top.
DownPath(h, last) ==
    LET path[i \in 1 .. h.n + 1] ==
            IF 2 * i <= h.n /\ last.expire > h.cells[Child(h, i)].expire
            THEN {i} \union path[Child(h, i)] ELSE {i}
    IN  path[1]

\* A mutated heap_peek, which does not compare the children.
PeekLeft(h) ==
    LET less == [h EXCEPT !.n = @ - 1]
        last == h.cells[h.n]
        path == LET p[i \in 1 .. h.n] ==
                        IF 2 * i <= less.n /\ last.expire > h.cells[2 * i].expire
                        THEN {i} \union p[2 * i] ELSE {i}
                IN  p[1]
    IN  [less EXCEPT !.cells = [i \in Cells |-> IF i = h.n THEN Zero ELSE IF i = Max(path) THEN last
                                                ELSE IF i \in path THEN @[2 * i]
                                                ELSE @[i]]]

\* The cells after the last element has gone down from the top.  A cell behind the
\* last one is not read any more.
SiftDown(h, last) ==
    LET path == DownPath(h, last)
    IN  [i \in Cells |-> IF i = h.n + 1 THEN Zero ELSE IF i = Max(path) THEN last
                         ELSE IF i \in path THEN h.cells[Child(h, i)] ELSE h.cells[i]]

\* The first element is removed.
heap_peek(h) ==
    [h EXCEPT !.n = @ - 1, !.cells = SiftDown([h EXCEPT !.n = @ - 1], h.cells[h.n])]

-----------------------------------------------------------------------------
\* The timers.

\* A timer is freed.
Free(x) == set' = [set EXCEPT ![x] = @ - 1]

\* What the properties except: a callback cancels its own timer, or a timer is added
\* when the clock has wrapped since pico_check_timers read it.
Misuse(case) == misused' = (misused \/ (pc # "idle" /\ case))

\* pico_timer_add and pico_timer_ref_add: without room the timer is freed again.
pico_timer_add ==
    /\ ~Full(heap)
    /\ \E d \in Delays :
        /\ heap' = heap_insert(heap, [expire |-> PICO_TIME_MS + d, tmr |-> now + d])
        /\ set' = [set EXCEPT ![now + d] = @ + 1]
    /\ Misuse(PICO_TIME_MS < pico_tick)
    /\ UNCHANGED <<now, pico_tick, pc, t, early>>

\* A mutated cancel, which forgets to clear the reference.
CancelKeepsRef(i) ==
    /\ i <= heap.n /\ heap.cells[i].tmr # NULL
    /\ Free(heap.cells[i].tmr)
    /\ Misuse(i = 1 /\ pc = "callback")
    /\ UNCHANGED <<heap, now, pico_tick, pc, t, early>>

\* The reference with the given id is in cell i.  Its timer is freed; the reference
\* stays in the heap and leads nowhere.  The id of a timer that has been called is
\* not found.
pico_timer_cancel(i) ==
    /\ i <= heap.n /\ heap.cells[i].tmr # NULL
    /\ heap' = [heap EXCEPT !.cells[i].tmr = NULL]
    /\ Free(heap.cells[i].tmr)
    /\ Misuse(i = 1 /\ pc = "callback")
    /\ UNCHANGED <<now, pico_tick, pc, t, early>>

\* pico_check_timers begins.
pico_check_timers ==
    /\ pc = "idle"
    /\ pico_tick' = PICO_TIME_MS
    /\ pc' = "loop"
    /\ UNCHANGED <<heap, now, t, set, early, misused>>

\* A mutated test, which calls a timer one tick before its time.
ExpiredEarly(ref) == ref.expire <= pico_tick + 1

\* A mutated test, which waits one tick more.
ExpiredLate(ref) == ref.expire + 1 < pico_tick

Expired(ref) == ref.expire < pico_tick

\* Its loop ends.
CheckEnds ==
    /\ pc = "loop" /\ (heap.n = 0 \/ ~Expired(heap.cells[1]))
    /\ pc' = "idle"
    /\ UNCHANGED <<heap, now, pico_tick, t, set, early, misused>>

\* A timer is called, and the callback takes a while.
CheckCalls ==
    /\ pc = "loop" /\ heap.n > 0 /\ Expired(heap.cells[1]) /\ heap.cells[1].tmr # NULL
    /\ t' = heap.cells[1].tmr /\ pc' = "callback"
    /\ early' = (early \/ now <= t')
    /\ UNCHANGED <<heap, now, pico_tick, set, misused>>

\* A cancelled one is only removed.
CheckSkips ==
    /\ pc = "loop" /\ heap.n > 0 /\ Expired(heap.cells[1]) /\ heap.cells[1].tmr = NULL
    /\ heap' = heap_peek(heap)
    /\ UNCHANGED <<now, pico_tick, pc, t, set, early, misused>>

\* The callback returns: the timer is freed and the first reference removed.
CheckFrees ==
    /\ pc = "callback"
    /\ Free(t) /\ t' = NULL
    /\ heap' = heap_peek(heap)
    /\ pc' = "loop"
    /\ UNCHANGED <<now, pico_tick, early, misused>>

Tick == now < TimeMax /\ now' = now + 1
        /\ UNCHANGED <<heap, pico_tick, pc, t, set, early, misused>>

\* What freed memory does is left open: the model ends at a misuse.
Next ==
  /\ ~misused
  /\ \/ pico_timer_add \/ (\E i \in Cells \ {0} : pico_timer_cancel(i))
     \/ pico_check_timers \/ CheckEnds \/ CheckCalls \/ CheckSkips \/ CheckFrees
     \/ Tick

\* The stack's loop checks the timers for ever, and callbacks return.
Fairness ==
    WF_vars(~misused /\ (pico_check_timers \/ CheckEnds \/ CheckCalls \/ CheckSkips
                          \/ CheckFrees))

Spec == Init /\ [][Next]_vars /\ Fairness

-----------------------------------------------------------------------------
Allocated(i) == i % Epb < heap.alloc[i \div Epb]

\* Every cell that the loops of heap_insert and heap_peek reach, cell 0 included, is
\* inside a block that heap_increase_size has allocated, although size and n drift
\* apart when elements are removed and a block is only as long as it has to be.
HeapInBounds == heap.n > 0 => \A i \in 0 .. heap.n : i \in Cells /\ Allocated(i)

\* The reference that expires first is at the top of every subtree: the loop of
\* pico_check_timers may stop at the first one that has not expired.
HeapOrdered ==
    \A i \in 2 .. heap.n : heap.cells[i \div 2].expire <= heap.cells[i].expire

\* The heap leads to every timer that is set, once, and to none that was freed: no
\* timer is lost or called twice, a cancelled one is not called, and nothing is
\* freed twice, whatever callbacks and application threads add and cancel.
RefsExact ==
    ~misused =>
        /\ \A d \in Dues : set[d] = Cardinality({i \in 1 .. heap.n : heap.cells[i].tmr = d})
        /\ pc = "callback" => heap.n > 0 /\ heap.cells[1].tmr = t

\* No callback is called before its time, before and after the clock wraps.
NeverEarly == ~early

\* Again and again no timer is overdue, until the clock wraps: pico_check_timers calls
\* every timer whose time has come, however many its callbacks add.  With the clock
\* back at zero an expiry time from before is not reached.
Called == []<>(now >= ClockMod \/ misused \/ \A d \in Dues : d < now => set[d] = 0)
=============================================================================
