--------------------------- MODULE ServiceProofs ---------------------------
(* One service's thread unless starts overlap, no identity lost and no tap   *)
(* deleted twice, for any number of calls, callers, instances and restarts of *)
(* the process. That the files are right rests on there being one thread,    *)
(* which rests on picostack; that the taps are, on _vtaps_lock and on vtaps  *)
(* listing a tap once.                                                       *)
EXTENDS Service, FiniteSetTheorems, TLAPS

\* Where a caller can be in zts_simple_start.
Calls == [pc : {"idle", "start", "wait_running", "join", "join_service", "wait_addr"}, call : Nat]

\* The fields of the records, and the types the steps compute with.
Shapes ==
    /\ main \in [Callers -> Calls]
    /\ \A c \in Callers : main[c].pc = "start" => main[c].call \in 1..Starts
    /\ proc = [over |-> proc.over, picostack |-> proc.picostack, home |-> proc.home,
               zt1 |-> proc.zt1, calls |-> proc.calls]
    /\ proc.calls \in Nat
    /\ gen \in Nat /\ disk.secret \in Nat
    /\ disk = [secret |-> disk.secret, saved |-> disk.saved, conf |-> disk.conf]
    /\ hist = [collided |-> hist.collided, unwritten |-> hist.unwritten, overlap |-> hist.overlap,
               excuse |-> hist.excuse, restarts |-> hist.restarts]

\* Where a thread of the service can be.
Lines == {"none", "begin", "new", "run", "collided", "collided_null", "delete", "delete_null",
          "empty", "write", "rm_secret", "ended"}

ThreadType == [1..Starts -> [pc : Lines, old : Nat]]

\* There is at most one thread of the service.
Alone == \A i, j \in 1..Starts : (thr[i].pc # "none" /\ thr[j].pc # "none") => i = j

\* picostack, once set, is never reset: before it is set there is no thread of
\* the service, and while the process goes on there is no second one.
ThreadInv ==
    /\ ~proc.picostack => \A i \in 1..Starts : thr[i].pc = "none"
    /\ ~proc.over => Alone

\* While no two starts have overlapped, one caller at most is between the tests
\* and picostack, and what it has tested still holds.
StartInv ==
    ~hist.overlap =>
        /\ Alone
        /\ \A c \in Callers : main[c].pc = "start" => ~proc.picostack
        /\ \A c, d \in Callers : (main[c].pc = "start" /\ main[d].pc = "start") => c = d

\* What a thread knows of the files at each line of the saving.
Saving(t) ==
    /\ t.pc \in {"collided", "collided_null", "empty", "write"} => hist.collided = disk.secret
    /\ t.pc \in {"empty", "write"} => t.old = disk.secret
    /\ t.pc = "rm_secret" => hist.collided \in {0, disk.saved}

ServiceInv ==
    /\ Shapes
    /\ thr \in ThreadType
    /\ ThreadInv
    /\ StartInv
    /\ \A i \in 1..Starts : Saving(thr[i])
    /\ IdentityKept

\* Thread i alone has moved.
Moved(i) == thr' \in ThreadType /\ \A j \in 1..Starts \ {i} : thr'[j] = thr[j]

\* Nobody has come to the line after the tests of zts_start.
NoneStarts ==
    /\ hist'.overlap = hist.overlap /\ proc'.picostack = proc.picostack
    /\ \A c \in Callers : main'[c].pc = "start" => main[c].pc = "start"

\* At first there is no thread and no identity.
LEMMA ServiceInit == Init => ServiceInv
<1> SUFFICES ASSUME Init PROVE ServiceInv OBVIOUS
<1>1. thr \in ThreadType /\ \A i \in 1..Starts : thr[i].pc = "none"
  BY DEF Init, NewProcess, ThreadType, Lines
<1>2. main \in [Callers -> Calls] /\ \A c \in Callers : main[c].pc = "idle"
  BY DEF Init, NewProcess, NoCall, Calls
<1>3. Shapes /\ IdentityKept BY <1>2 DEF Init, NewProcess, Shapes, IdentityKept
<1> QED BY <1>1, <1>2, <1>3 DEF ServiceInv, ThreadInv, StartInv, Alone, Saving

\* A step that touches neither threads nor identities.
LEMMA Untouched ==
    ASSUME ServiceInv, Shapes', thr' = thr, NoneStarts, proc.over => proc'.over,
           disk'.secret = disk.secret, disk'.saved = disk.saved,
           hist'.collided = hist.collided
    PROVE  ServiceInv'
<1>1. thr' \in ThreadType /\ (Alone' <=> Alone) BY DEF ServiceInv, Alone
<1>2. ThreadInv' BY <1>1 DEF ServiceInv, ThreadInv, NoneStarts
<1>3. StartInv' BY <1>1 DEF ServiceInv, StartInv, NoneStarts
<1>4. (\A i \in 1..Starts : Saving(thr[i])') /\ IdentityKept'
  BY DEF ServiceInv, Saving, IdentityKept
<1> QED BY <1>1, <1>2, <1>3, <1>4 DEF ServiceInv

\* The thread of the service goes on: it is the only one, so nothing has to be
\* shown of another.
LEMMA Advance ==
    ASSUME ServiceInv, ~proc.over, NEW i \in 1..Starts, thr[i].pc # "none", Moved(i),
           NoneStarts, Shapes', IdentityKept', Saving(thr[i])'
    PROVE  ServiceInv'
<1>1. \A j \in 1..Starts \ {i} : thr'[j].pc = "none"
  BY DEF ServiceInv, ThreadInv, Alone, Moved
<1>2. Alone' BY <1>1 DEF Alone
<1>3. ThreadInv' BY <1>1, <1>2 DEF ServiceInv, ThreadInv, NoneStarts
<1>4. StartInv' BY <1>2 DEF ServiceInv, StartInv, NoneStarts
<1>5. ASSUME NEW j \in 1..Starts PROVE Saving(thr[j])'
  <2>1. CASE j = i BY <2>1
  <2>2. CASE j # i BY <1>1, <2>2 DEF Saving
  <2> QED BY <2>1, <2>2
<1> QED BY <1>3, <1>4, <1>5 DEF ServiceInv, Moved

\* A thread goes on to line p, with what it has read or with o.
LEMMA MoveType ==
    ASSUME thr \in ThreadType, NEW i \in 1..Starts, NEW p \in Lines, NEW o \in Nat,
           thr' = [thr EXCEPT ![i] = [pc |-> p, old |-> o]]
    PROVE  Moved(i) /\ thr'[i].pc = p /\ thr'[i].old = o
  BY DEF ThreadType, Moved

\* The same for a step that only changes the line.
LEMMA GotoType ==
    ASSUME thr \in ThreadType, NEW i \in 1..Starts, NEW p \in Lines, Goto(i, p)
    PROVE  Moved(i) /\ thr'[i].pc = p /\ thr'[i].old = thr[i].old
<1>1. thr[i] \in [pc : Lines, old : Nat] BY DEF ThreadType
<1>2. [thr[i] EXCEPT !.pc = p] \in [pc : Lines, old : Nat] BY <1>1
<1>3. thr' = [thr EXCEPT ![i] = [thr[i] EXCEPT !.pc = p]] BY DEF Goto
<1> QED BY <1>1, <1>2, <1>3 DEF ThreadType, Moved

\* A caller goes on to line p.
LEMMA MainType ==
    ASSUME main \in [Callers -> Calls], NEW c \in Callers, NEW r \in Calls,
           main' = [main EXCEPT ![c] = r]
    PROVE  /\ main' \in [Callers -> Calls] /\ main'[c] = r
           /\ \A d \in Callers : d # c => main'[d] = main[d]
OBVIOUS

\* A caller leaves zts_start.
LEMMA AfterType ==
    ASSUME NEW after \in AfterStart
    PROVE  after \in Calls /\ after.pc # "start"
BY DEF AfterStart, NoCall, Calls

\* The tests of zts_start: they are passed only while picostack is not set, and
\* who passes them while another has is recorded.
LEMMA TestsStep ==
    ASSUME ServiceInv, NEW c \in Callers, StartTests(c)
    PROVE  ServiceInv'
<1>1. PICK after \in AfterStart : main' = [main EXCEPT ![c] =
         IF NotStarted THEN [pc |-> "start", call |-> proc.calls + 1] ELSE after]
  BY DEF StartTests
<1>2. /\ disk' = disk /\ gen' = gen /\ thr' = thr /\ proc.calls < Starts
      /\ proc' = [proc EXCEPT !.calls = @ + 1]
      /\ hist' = [hist EXCEPT !.overlap = @ \/ \E d \in Callers : main[d].pc = "start"]
  BY DEF StartTests
<1>3. Shapes BY DEF ServiceInv
<1> DEFINE r == IF NotStarted THEN [pc |-> "start", call |-> proc.calls + 1] ELSE after
<1>4. /\ r \in Calls /\ (r.pc = "start" => NotStarted /\ r.call \in 1..Starts)
  <2>1. proc.calls + 1 \in Nat /\ proc.calls + 1 \in 1..Starts
    BY <1>2, <1>3, ServiceAssumption DEF Shapes
  <2> QED BY <2>1, AfterType DEF Calls
<1>5. main' = [main EXCEPT ![c] = r] BY <1>1
<1> HIDE DEF r
<1>6. /\ main' \in [Callers -> Calls] /\ main'[c] = r
      /\ \A d \in Callers : d # c => main'[d] = main[d]
  BY <1>3, <1>4, <1>5, MainType DEF Shapes
<1>7. /\ proc'.over = proc.over /\ proc'.picostack = proc.picostack
      /\ proc'.calls = proc.calls + 1
      /\ proc' = [over |-> proc'.over, picostack |-> proc'.picostack, home |-> proc'.home,
                  zt1 |-> proc'.zt1, calls |-> proc'.calls]
  BY <1>2, <1>3 DEF Shapes
<1>8. /\ hist'.collided = hist.collided
      /\ hist'.overlap = (hist.overlap \/ \E d \in Callers : main[d].pc = "start")
      /\ hist' = [collided |-> hist'.collided, unwritten |-> hist'.unwritten,
                  overlap |-> hist'.overlap, excuse |-> hist'.excuse,
                  restarts |-> hist'.restarts]
  BY <1>2, <1>3 DEF Shapes
<1>9. Shapes'
  <2>1. \A d \in Callers : main'[d].pc = "start" => main'[d].call \in 1..Starts
    BY <1>3, <1>4, <1>6 DEF Shapes
  <2>2. proc'.calls \in Nat BY <1>3, <1>7 DEF Shapes
  <2> QED BY <1>2, <1>3, <1>6, <1>7, <1>8, <2>1, <2>2 DEF Shapes
<1>10. Alone' <=> Alone BY <1>2 DEF Alone
<1>11. ThreadInv' BY <1>2, <1>7, <1>10 DEF ServiceInv, ThreadInv
<1>12. StartInv'
  <2> SUFFICES ASSUME ~hist'.overlap
               PROVE  /\ Alone'
                      /\ \A d \in Callers : main'[d].pc = "start" => ~proc'.picostack
                      /\ \A d, e \in Callers :
                            (main'[d].pc = "start" /\ main'[e].pc = "start") => d = e
    BY DEF StartInv
  <2>1. ~hist.overlap /\ \A d \in Callers : main[d].pc # "start" BY <1>8
  <2>2. \A d \in Callers : main'[d].pc = "start" => d = c BY <1>6, <2>1
  <2>3. main'[c].pc = "start" => ~proc'.picostack BY <1>4, <1>6, <1>7 DEF NotStarted
  <2> QED BY <1>10, <2>1, <2>2, <2>3 DEF ServiceInv, StartInv
<1>13. (\A i \in 1..Starts : Saving(thr[i])') /\ IdentityKept'
  BY <1>2, <1>8 DEF ServiceInv, Saving, IdentityKept
<1> QED BY <1>2, <1>9, <1>11, <1>12, <1>13 DEF ServiceInv

\* The step that decides: unless starts have overlapped zts_start makes a thread
\* only where there is none.
LEMMA StartStep ==
    ASSUME ServiceInv, NEW c \in Callers, zts_start(c)
    PROVE  ServiceInv'
<1>1. PICK given \in BOOLEAN, after \in AfterStart : zts_start(c)!(given, after)
  BY DEF zts_start
<1>2. /\ main[c].pc = "start" /\ disk' = disk /\ gen' = gen /\ hist' = hist
      /\ proc' = [proc EXCEPT !.picostack = TRUE, !.home = given \/ @, !.over = proc.picostack]
      /\ thr' = [thr EXCEPT ![main[c].call].pc = "begin"] /\ main' = [main EXCEPT ![c] = after]
  BY <1>1 DEF files
<1>3. Shapes /\ thr \in ThreadType BY DEF ServiceInv
<1>4. PICK k \in 1..Starts : k = main[c].call BY <1>2, <1>3 DEF Shapes
<1>5. Goto(k, "begin") BY <1>2, <1>4 DEF Goto
<1>6. Moved(k) /\ thr'[k].pc = "begin" BY <1>3, <1>5, GotoType DEF Lines
<1>7. after \in Calls /\ after.pc # "start" BY AfterType
<1>8. /\ main' \in [Callers -> Calls] /\ main'[c] = after
      /\ \A d \in Callers : d # c => main'[d] = main[d]
  BY <1>2, <1>3, <1>7, MainType DEF Shapes
<1>9. /\ proc'.picostack /\ proc'.over = proc.picostack /\ proc'.calls = proc.calls
      /\ proc' = [over |-> proc'.over, picostack |-> proc'.picostack, home |-> proc'.home,
                  zt1 |-> proc'.zt1, calls |-> proc'.calls]
  BY <1>2, <1>3 DEF Shapes
<1>10. Shapes'
  <2>1. \A d \in Callers : main'[d].pc = "start" => main'[d].call \in 1..Starts
    BY <1>3, <1>7, <1>8 DEF Shapes
  <2> QED BY <1>2, <1>3, <1>8, <1>9, <2>1 DEF Shapes
<1>11. ~proc.picostack => Alone'
  BY <1>6 DEF ServiceInv, ThreadInv, Alone, Moved
<1>12. ThreadInv' BY <1>9, <1>11 DEF ThreadInv
<1>13. StartInv'
  <2> SUFFICES ASSUME ~hist'.overlap
               PROVE  Alone' /\ \A d \in Callers : main'[d].pc # "start"
    BY DEF StartInv
  <2>1. ~hist.overlap BY <1>2
  <2>2. ~proc.picostack BY <1>2, <2>1 DEF ServiceInv, StartInv
  <2>3. \A d \in Callers : main[d].pc = "start" => d = c BY <1>2, <2>1 DEF ServiceInv, StartInv
  <2> QED BY <1>7, <1>8, <1>11, <2>2, <2>3
<1>14. \A j \in 1..Starts : Saving(thr[j])'
  <2>1. Saving(thr[k])' BY <1>6 DEF Saving
  <2>2. \A j \in 1..Starts : j # k => Saving(thr[j])'
    BY <1>2, <1>6 DEF ServiceInv, Saving, Moved
  <2> QED BY <2>1, <2>2
<1>15. IdentityKept' BY <1>2 DEF ServiceInv, IdentityKept
<1> QED BY <1>6, <1>10, <1>12, <1>13, <1>14, <1>15 DEF ServiceInv, Moved

\* A caller goes on behind zts_start.
LEMMA MainMoves ==
    ASSUME ServiceInv, NEW c \in Callers,
           NEW p \in {"idle", "wait_running", "join", "join_service", "wait_addr"},
           main' = [main EXCEPT ![c].pc = p]
    PROVE  /\ main' \in [Callers -> Calls]
           /\ \A d \in Callers : main'[d].pc = "start" =>
                 main[d].pc = "start" /\ main'[d].call \in 1..Starts
<1>1. main \in [Callers -> Calls] /\ main[c] \in Calls BY DEF ServiceInv, Shapes
<1> DEFINE r == [main[c] EXCEPT !.pc = p]
<1>2. r \in Calls /\ r.pc # "start" BY <1>1 DEF Calls
<1>3. main' = [main EXCEPT ![c] = r] OBVIOUS
<1> HIDE DEF r
<1>4. /\ main' \in [Callers -> Calls] /\ main'[c] = r
      /\ \A d \in Callers : d # c => main'[d] = main[d]
  BY <1>1, <1>2, <1>3, MainType
<1> QED BY <1>2, <1>4 DEF ServiceInv, Shapes

\* The waits and the join of zts_simple_start.
LEMMA WaitStep ==
    ASSUME ServiceInv, ~proc.over, NEW c \in Callers,
           WaitRunning(c) \/ zts_join(c) \/ JoinService(c) \/ WaitAddr(c) \/ WaitAddrFreed(c)
    PROVE  ServiceInv'
<1>1. Shapes BY DEF ServiceInv
<1>2. PICK p \in {"idle", "wait_running", "join", "join_service", "wait_addr"} :
         main' = [main EXCEPT ![c].pc = p]
  <2>1. CASE zts_join(c)
    <3>1. CASE proc.zt1 # 0 BY <2>1, <3>1 DEF zts_join
    <3>2. CASE proc.zt1 = 0 BY <2>1, <3>2 DEF zts_join
    <3> QED BY <3>1, <3>2
  <2>2. CASE WaitRunning(c) \/ JoinService(c) \/ WaitAddr(c) \/ WaitAddrFreed(c)
    BY <2>2 DEF WaitRunning, JoinService, WaitAddr, WaitAddrFreed
  <2> QED BY <2>1, <2>2
<1>3. /\ main' \in [Callers -> Calls]
      /\ \A d \in Callers : main'[d].pc = "start" =>
            main[d].pc = "start" /\ main'[d].call \in 1..Starts
  BY <1>2, MainMoves
<1>4. thr' = thr /\ gen' = gen
  BY DEF WaitRunning, zts_join, JoinService, WaitAddr, WaitAddrFreed, files
<1>5. /\ proc' = [over |-> proc'.over, picostack |-> proc.picostack, home |-> proc.home,
                  zt1 |-> proc.zt1, calls |-> proc.calls]
  <2>1. CASE JoinService(c) BY <1>1, <2>1 DEF JoinService, Shapes
  <2>2. CASE proc' = proc BY <1>1, <2>2 DEF Shapes
  <2> QED BY <2>1, <2>2 DEF WaitRunning, zts_join, JoinService, WaitAddr, WaitAddrFreed
<1>6. /\ disk' = [secret |-> disk.secret, saved |-> disk.saved, conf |-> disk'.conf]
      /\ hist' = [collided |-> hist.collided, unwritten |-> hist'.unwritten,
                  overlap |-> hist.overlap, excuse |-> hist'.excuse, restarts |-> hist.restarts]
  <2>1. CASE zts_join(c) BY <1>1, <2>1 DEF zts_join, Shapes
  <2>2. CASE disk' = disk /\ hist' = hist BY <1>1, <2>2 DEF Shapes
  <2> QED BY <2>1, <2>2 DEF WaitRunning, JoinService, WaitAddr, WaitAddrFreed, files
<1>7. /\ proc'.picostack = proc.picostack /\ proc'.calls = proc.calls
      /\ disk'.secret = disk.secret /\ disk'.saved = disk.saved
      /\ hist'.collided = hist.collided /\ hist'.overlap = hist.overlap
  BY <1>5, <1>6
<1>8. Shapes'
  <2>1. proc' = [over |-> proc'.over, picostack |-> proc'.picostack, home |-> proc'.home,
                 zt1 |-> proc'.zt1, calls |-> proc'.calls]
    BY <1>5
  <2>2. /\ disk' = [secret |-> disk'.secret, saved |-> disk'.saved, conf |-> disk'.conf]
        /\ hist' = [collided |-> hist'.collided, unwritten |-> hist'.unwritten,
                    overlap |-> hist'.overlap, excuse |-> hist'.excuse,
                    restarts |-> hist'.restarts]
    BY <1>6
  <2> QED BY <1>1, <1>3, <1>4, <1>7, <2>1, <2>2 DEF Shapes
<1>9. NoneStarts BY <1>3, <1>7 DEF NoneStarts
<1> QED BY <1>4, <1>7, <1>8, <1>9, Untouched

\* The lines that save an identity.
LEMMA SaveStep ==
    ASSUME ServiceInv, ~proc.over, NEW i \in 1..Starts, SaveOldId(i)
    PROVE  ServiceInv'
<1>1. PICK s \in 1..3, fails \in BOOLEAN : SaveOldId(i)!(s, fails)
  <2>1. Len(SaveOrder) - 1 = 3 BY DEF SaveOrder
  <2> QED BY <2>1 DEF SaveOldId
<1>2. thr[i].old \in Nat BY DEF ServiceInv, ThreadType
<1>3. thr \in ThreadType /\ Saving(thr[i]) /\ Shapes /\ IdentityKept BY DEF ServiceInv
<1>4. proc' = proc /\ gen' = gen /\ main' = main BY <1>1
<1>5. CASE s = 1
  <2>1. thr[i].pc = "empty" BY <1>1, <1>5 DEF SaveOrder, At
  <2>2. /\ disk' = IF fails THEN disk ELSE [disk EXCEPT !.saved = 0]
        /\ hist' = [hist EXCEPT !.collided = IF fails THEN 0 ELSE @, !.excuse = @ \/ FALSE]
        /\ thr' = [thr EXCEPT ![i] = [pc |-> IF fails THEN "rm_secret" ELSE "write",
                                     old |-> thr[i].old]]
    <3>1. CASE fails BY <1>1, <1>5, <3>1 DEF SaveOrder, At, ServiceInv, ThreadType
    <3>2. CASE ~fails BY <1>1, <1>5, <3>2 DEF SaveOrder, At, ServiceInv, ThreadType
    <3> QED BY <3>1, <3>2
  <2>3. Shapes' /\ NoneStarts BY <1>3, <1>4, <2>2 DEF Shapes, NoneStarts
  <2>4. /\ hist'.collided = (IF fails THEN 0 ELSE disk'.secret) /\ thr[i].old = disk'.secret
    BY <1>3, <2>1, <2>2 DEF Saving, Shapes
  <2>5. IdentityKept' BY <2>4 DEF IdentityKept
  <2>6. Moved(i) /\ thr'[i].pc = (IF fails THEN "rm_secret" ELSE "write") /\ thr'[i].old = thr[i].old
    <3> DEFINE p == IF fails THEN "rm_secret" ELSE "write"
    <3>1. p \in Lines BY DEF Lines
    <3>2. thr' = [thr EXCEPT ![i] = [pc |-> p, old |-> thr[i].old]] BY <2>2
    <3> HIDE DEF p
    <3>3. Moved(i) /\ thr'[i].pc = p /\ thr'[i].old = thr[i].old
      BY <1>2, <1>3, <3>1, <3>2, MoveType
    <3> QED BY <3>3 DEF p
  <2>7. Saving(thr[i])' BY <2>4, <2>6 DEF Saving
  <2> QED BY <1>4, <2>1, <2>3, <2>5, <2>6, <2>7, Advance
<1>6. CASE s = 2
  <2>1. thr[i].pc = "write" BY <1>1, <1>6 DEF SaveOrder, At
  <2>2. /\ disk' = IF fails THEN disk ELSE [disk EXCEPT !.saved = thr[i].old]
        /\ hist' = [hist EXCEPT !.collided = IF fails THEN 0 ELSE @, !.excuse = @ \/ FALSE]
        /\ thr' = [thr EXCEPT ![i] = [pc |-> "rm_secret", old |-> thr[i].old]]
    BY <1>1, <1>6 DEF SaveOrder, At, ServiceInv, ThreadType
  <2>3. Shapes' /\ NoneStarts BY <1>3, <1>4, <2>2 DEF Shapes, NoneStarts
  <2>4. hist'.collided = IF fails THEN 0 ELSE disk'.saved
    BY <1>3, <2>1, <2>2 DEF Saving, Shapes
  <2>5. IdentityKept' BY <2>4 DEF IdentityKept
  <2>6. Moved(i) /\ thr'[i].pc = "rm_secret" BY <1>2, <1>3, <2>2, MoveType DEF Lines
  <2>7. Saving(thr[i])' BY <2>4, <2>6 DEF Saving
  <2> QED BY <1>4, <2>1, <2>3, <2>5, <2>6, <2>7, Advance
<1>7. CASE s = 3
  <2>1. thr[i].pc = "rm_secret" BY <1>1, <1>7 DEF SaveOrder, At
  <2>2. /\ disk' = IF fails THEN disk ELSE [disk EXCEPT !.secret = 0]
        /\ hist' = [hist EXCEPT !.collided = @, !.excuse = @ \/ fails]
        /\ thr' = [thr EXCEPT ![i] = [pc |-> "new", old |-> 0]]
    BY <1>1, <1>7 DEF SaveOrder, At, ServiceInv, ThreadType
  <2>3. Shapes' /\ NoneStarts BY <1>3, <1>4, <2>2 DEF Shapes, NoneStarts
  <2>4. hist'.collided \in {0, disk'.saved}
    BY <1>3, <2>1, <2>2 DEF Saving, Shapes
  <2>5. IdentityKept' BY <2>4 DEF IdentityKept
  <2>6. Moved(i) /\ thr'[i].pc = "new" BY <1>3, <2>2, MoveType DEF Lines
  <2>7. Saving(thr[i])' BY <2>6 DEF Saving
  <2> QED BY <1>4, <2>1, <2>3, <2>5, <2>6, <2>7, Advance
<1> QED BY <1>5, <1>6, <1>7

\* The other steps of the service's thread.
LEMMA ServiceStep ==
    ASSUME ServiceInv, ~proc.over, NEW i \in 1..Starts,
           ServiceThread(i) \/ Collision(i) \/ RunReturns(i, TRUE)
    PROVE  ServiceInv'
<1>1. thr \in ThreadType /\ Shapes /\ IdentityKept /\ Saving(thr[i]) BY DEF ServiceInv
<1>2. CASE Begin(i)
  <2>1. Shapes' /\ IdentityKept' /\ NoneStarts
    BY <1>1, <1>2 DEF Begin, Shapes, IdentityKept, NoneStarts, files
  <2>2. CASE proc.home
    <3>1. Goto(i, "new") BY <1>2, <2>2 DEF Begin
    <3>2. Moved(i) /\ thr'[i].pc = "new" BY <1>1, <3>1, GotoType DEF Lines
    <3>3. Saving(thr[i])' BY <3>2 DEF Saving
    <3> QED BY <3>2, <3>3, <1>2, <2>1, Advance DEF Begin, At
  <2>3. CASE ~proc.home
    <3>1. Goto(i, "ended") BY <1>2, <2>3 DEF Begin
    <3>2. Moved(i) /\ thr'[i].pc = "ended" BY <1>1, <3>1, GotoType DEF Lines
    <3>3. Saving(thr[i])' BY <3>2 DEF Saving
    <3> QED BY <3>2, <3>3, <1>2, <2>1, Advance DEF Begin, At
  <2> QED BY <2>2, <2>3
<1>3. CASE NewInstance(i)
  <2>1. Shapes' /\ IdentityKept' /\ NoneStarts
    BY <1>1, <1>3 DEF NewInstance, Shapes, IdentityKept, NoneStarts
  <2>2. Moved(i) /\ thr'[i].pc = "run" BY <1>1, <1>3, GotoType DEF NewInstance, Lines
  <2>3. Saving(thr[i])' BY <2>2 DEF Saving
  <2> QED BY <2>2, <2>3, <1>3, <2>1, Advance DEF NewInstance, At
<1>4. CASE NodeStarts(i)
  <2>1. /\ thr[i].pc = "run" /\ thr' = thr /\ proc' = proc /\ hist' = hist
        /\ Shapes' /\ IdentityKept' /\ NoneStarts
    BY <1>1, <1>4 DEF NodeStarts, At, Shapes, IdentityKept, NoneStarts, threads
  <2>2. Moved(i) BY <1>1, <2>1 DEF Moved
  <2>3. Saving(thr[i])' BY <2>1 DEF Saving
  <2> QED BY <2>1, <2>2, <2>3, Advance
<1>5. CASE RunReturns(i, TRUE) \/ RunReturns(i, FALSE)
  <2>1. Shapes' /\ IdentityKept' /\ NoneStarts /\ Goto(i, "delete") /\ thr[i].pc = "run"
    BY <1>1, <1>5 DEF RunReturns, AfterRun, Shapes, IdentityKept, NoneStarts, At
  <2>2. Moved(i) /\ thr'[i].pc = "delete" BY <1>1, <2>1, GotoType DEF Lines
  <2>3. Saving(thr[i])' BY <2>2 DEF Saving
  <2> QED BY <2>2, <2>3, <2>1, Advance
<1>6. CASE DeleteInstance(i)
  <2>1. Shapes' /\ IdentityKept' /\ NoneStarts /\ hist' = hist /\ disk' = disk
    BY <1>1, <1>6 DEF DeleteInstance, Shapes, IdentityKept, NoneStarts, files
  <2>2. CASE thr[i].pc = "collided"
    <3>1. Goto(i, "collided_null") BY <1>6, <2>2 DEF DeleteInstance, At
    <3>2. hist'.collided = disk'.secret BY <1>1, <2>1, <2>2 DEF Saving
    <3>3. Moved(i) /\ thr'[i].pc = "collided_null" BY <1>1, <3>1, GotoType DEF Lines
    <3>4. Saving(thr[i])' BY <3>3, <3>2 DEF Saving
    <3> QED BY <3>3, <3>4, <2>1, <2>2, Advance
  <2>3. CASE thr[i].pc # "collided"
    <3>1. Goto(i, "delete_null") /\ thr[i].pc = "delete" BY <1>6, <2>3 DEF DeleteInstance, At
    <3>2. Moved(i) /\ thr'[i].pc = "delete_null" BY <1>1, <3>1, GotoType DEF Lines
    <3>3. Saving(thr[i])' BY <3>2 DEF Saving
    <3> QED BY <3>2, <3>3, <2>1, <3>1, Advance
  <2> QED BY <2>2, <2>3
<1>7. CASE NullInstance(i)
  <2>1. Shapes' /\ IdentityKept' /\ NoneStarts /\ hist' = hist /\ disk' = disk
    BY <1>1, <1>7 DEF NullInstance, Shapes, IdentityKept, NoneStarts, files
  <2>2. CASE thr[i].pc = "delete_null"
    <3>1. thr' = [thr EXCEPT ![i] = [pc |-> "ended", old |-> 0]]
      BY <1>7, <2>2 DEF NullInstance, At
    <3>2. Moved(i) /\ thr'[i].pc = "ended" BY <1>1, <3>1, MoveType DEF Lines
    <3>3. Saving(thr[i])' BY <3>2 DEF Saving
    <3> QED BY <3>2, <3>3, <2>1, <2>2, Advance
  <2>3. CASE thr[i].pc = "collided_null" /\ disk.secret = 0
    <3>1. thr' = [thr EXCEPT ![i] = [pc |-> "new", old |-> 0]]
      BY <1>7, <2>3 DEF NullInstance, At
    <3>2. Moved(i) /\ thr'[i].pc = "new" BY <1>1, <3>1, MoveType DEF Lines
    <3>3. Saving(thr[i])' BY <3>2 DEF Saving
    <3> QED BY <3>2, <3>3, <2>1, <2>3, Advance
  <2>4. CASE thr[i].pc = "collided_null" /\ disk.secret # 0
    <3>1. thr' = [thr EXCEPT ![i] = [pc |-> "empty", old |-> disk.secret]]
      BY <1>7, <2>4 DEF NullInstance, At, SaveOrder
    <3>2. hist'.collided = disk'.secret BY <1>1, <2>1, <2>4 DEF Saving
    <3>3. disk.secret \in Nat BY <1>1 DEF Shapes
    <3>4. Moved(i) /\ thr'[i].pc = "empty" /\ thr'[i].old = disk.secret BY <1>1, <3>1, <3>3, MoveType DEF Lines
    <3>5. Saving(thr[i])' BY <2>1, <3>2, <3>4 DEF Saving
    <3> QED BY <2>1, <2>4, <3>4, <3>5, Advance
  <2> QED BY <1>7, <2>2, <2>3, <2>4 DEF NullInstance, At
<1>8. CASE SaveOldId(i) BY <1>8, SaveStep
<1>9. CASE SocketTap(i) BY <1>1, <1>9, Untouched DEF SocketTap, Shapes, NoneStarts, files, threads
<1>10. CASE Collision(i)
  <2>1. /\ Shapes' /\ NoneStarts /\ disk' = disk /\ hist'.collided = disk.secret
        /\ Goto(i, "collided") /\ thr[i].pc = "run"
    BY <1>1, <1>10 DEF Collision, Shapes, NoneStarts, At
  <2>2. IdentityKept' BY <2>1 DEF IdentityKept
  <2>3. Moved(i) /\ thr'[i].pc = "collided" BY <1>1, <2>1, GotoType DEF Lines
  <2>4. Saving(thr[i])' BY <2>3, <2>1 DEF Saving
  <2> QED BY <2>3, <2>4, <2>1, <2>2, Advance
<1> QED
  BY <1>2, <1>3, <1>4, <1>5, <1>6, <1>7, <1>8, <1>9, <1>10 DEF ServiceThread

\* Stopping, the taps' threads and a new process.
LEMMA OtherStep ==
    ASSUME ServiceInv,
           \/ ~proc.over /\ \E k \in 1..Instances : threadMain(k)
           \/ ~proc.over /\ \E c \in Callers : StopTests(c) \/ zts_stop(c)
           \/ Restart
           \/ UNCHANGED vars
    PROVE  ServiceInv'
<1> USE DEF ServiceInv, Shapes, NoneStarts, files, threads
<1>1. CASE ~proc.over /\ \E k \in 1..Instances : threadMain(k) BY <1>1, Untouched DEF threadMain
<1>2. CASE ~proc.over /\ \E c \in Callers : StopTests(c) BY <1>2, Untouched DEF StopTests
<1>3. CASE ~proc.over /\ \E c \in Callers : zts_stop(c)
  <2>1. PICK c \in Callers : zts_stop(c) BY <1>3
  <2>2. CASE Terminate(c) BY <1>3, <2>2, Untouched DEF Terminate
  <2>3. CASE DismantleLocks(c) BY <1>3, <2>3, Untouched DEF DismantleLocks
  <2>4. CASE DeleteBegins(c) BY <1>3, <2>4, Untouched DEF DeleteBegins
  <2>5. CASE DeleteEnds(c) BY <1>3, <2>5, Untouched DEF DeleteEnds
  <2>6. CASE DismantleEnds(c) BY <1>3, <2>6, Untouched DEF DismantleEnds
  <2> QED BY <2>1, <2>2, <2>3, <2>4, <2>5, <2>6 DEF zts_stop
<1>4. CASE Restart
  <2>1. thr' \in ThreadType /\ \A i \in 1..Starts : thr'[i].pc = "none"
    BY <1>4 DEF Restart, NewProcess, ThreadType, Lines
  <2>2. main' \in [Callers -> Calls] /\ \A c \in Callers : main'[c].pc = "idle"
    BY <1>4 DEF Restart, NewProcess, NoCall, Calls
  <2>3. Shapes' /\ IdentityKept' BY <1>4, <2>2 DEF Restart, NewProcess, IdentityKept
  <2> QED BY <2>1, <2>2, <2>3 DEF ThreadInv, StartInv, Alone, Saving
<1>5. CASE UNCHANGED vars BY <1>5, Untouched DEF vars
<1> QED BY <1>1, <1>2, <1>3, <1>4, <1>5

\* Every step keeps the invariant.
LEMMA ServiceNext == ServiceInv /\ [Next]_vars => ServiceInv'
<1> SUFFICES ASSUME ServiceInv, [Next]_vars PROVE ServiceInv' OBVIOUS
<1>1. CASE ~proc.over /\ Step
  BY <1>1, TestsStep, StartStep, WaitStep, ServiceStep, OtherStep DEF Step, zts_simple_start
<1>2. CASE Restart \/ UNCHANGED vars BY <1>2, OtherStep
<1> QED BY <1>1, <1>2 DEF Next

\* The strengthening of the two properties below.
THEOREM ServiceCorrect == Spec => []ServiceInv
  BY ServiceInit, ServiceNext, PTL DEF Spec

\* However often, by however many threads and whenever zts_start is called, there
\* is a second thread in zts_start_service only if two callers were between its
\* tests and picostack at once, which no lock prevents.
THEOREM ServiceOnce == Spec => []OneService
<1>1. ServiceInv => OneService
  <2> SUFFICES ASSUME ServiceInv, ~hist.overlap
               PROVE  Cardinality({i \in 1..Starts : thr[i].pc \notin {"none", "ended"}}) <= 1
    BY DEF OneService
  <2> DEFINE S == {i \in 1..Starts : thr[i].pc \notin {"none", "ended"}}
  <2>1. CASE S = {} BY <2>1, FS_EmptySet
  <2>2. CASE S # {}
    <3>1. PICK i \in S : TRUE BY <2>2
    <3>2. S = {i} BY <3>1 DEF ServiceInv, StartInv, Alone
    <3>3. Cardinality({i}) = 1 BY FS_Singleton
    <3>4. Cardinality(S) = 1 BY <3>2, <3>3
    <3> QED BY <3>4
  <2> QED BY <2>1, <2>2
<1> QED BY <1>1, ServiceCorrect, PTL

\* Wherever the process dies, the last identity that collided is on disk, under
\* its own name or saved, unless writing it failed.
THEOREM ServiceKeepsIdentity == Spec => []IdentityKept
<1>1. ServiceInv => IdentityKept BY DEF ServiceInv
<1> QED BY <1>1, ServiceCorrect, PTL

-----------------------------------------------------------------------------
\* The taps.

\* A tap.
TapType == [state : {"none", "live", "freed"}, run : BOOLEAN, loop : BOOLEAN, dels : Nat]

\* The instance has not made tap k yet.
Unmade(k) == k > node.n \/ (k = node.n /\ ~node.tapped)

\* Thread c is in dismantleTaps.
Dismantles(c) == stop[c].pc \in {"dismantle", "join"}

\* Thread c has come past entry i of vtaps.
Past(c, i) == Dismantles(c) /\ (i < stop[c].i \/ (i = stop[c].i /\ stop[c].pc = "join"))

\* The threads that stop the service.
StopType ==
    [Callers -> [pc : {"idle", "terminate", "lock", "dismantle", "join"}, i : Nat \ {0}]]

\* The fields of the records and the types the steps compute with.
TapShapes ==
    /\ node = [n |-> node.n, phase |-> node.phase, joined |-> node.joined, term |-> node.term,
               tapped |-> node.tapped]
    /\ node.n \in 0..Instances /\ node.tapped \in BOOLEAN
    /\ node.phase \in {"starting", "online"} => node.n > 0
    /\ tap \in [1..Instances -> TapType]
    /\ stop \in StopType
    /\ vtaps \in Seq(1..Instances)

\* What is claimed of each tap; one that is not made yet is untouched.
EachTap ==
    \A k \in 1..Instances :
        /\ tap[k].dels <= 1 /\ (tap[k].state = "freed" => ~tap[k].loop)
        /\ Unmade(k) => tap[k] = NoTap

\* vtaps lists taps that were made, each once.
Entries ==
    /\ \A i \in 1..Len(vtaps) : ~Unmade(vtaps[i])
    /\ \A i, j \in 1..Len(vtaps) : vtaps[i] = vtaps[j] => i = j

\* An entry whose tap has been deleted is behind the thread that holds the lock.
Deleted == \A i \in 1..Len(vtaps) : tap[vtaps[i]].dels # 0 => \E c \in Callers : Past(c, i)

\* Who is in dismantleTaps has the lock, and who is not will begin with the first entry.
Holder == \A c \in Callers : IF Dismantles(c) THEN lock = {c} ELSE stop[c].i = 1

\* The inductive invariant of TapsDismantled.
TapsInv == TapShapes /\ EachTap /\ Entries /\ Deleted /\ Holder

\* Entries of vtaps are instances.
LEMMA EntryType ==
    ASSUME NEW S, NEW s \in Seq(S), NEW j \in 1..Len(s)
    PROVE  s[j] \in S
OBVIOUS

\* At first there is no tap.
LEMMA TapsFresh ==
    ASSUME node = NoNode, tap = NewProcess.tap, stop = NewProcess.stop, vtaps = <<>>
    PROVE  TapsInv
<1>1. /\ NewProcess.tap = [k \in 1..Instances |-> NoTap]
      /\ NewProcess.stop = [c \in Callers |-> [pc |-> "idle", i |-> 1]]
  BY DEF NewProcess
<1>2. NoTap \in TapType /\ NoTap.dels = 0 /\ NoTap.state = "none"
  BY DEF NoTap, TapType
<1>3. vtaps \in Seq(1..Instances) /\ Len(vtaps) = 0
  OBVIOUS
<1>4. node.n = 0 /\ node.tapped = FALSE /\ node.phase = "none" BY DEF NoNode
<1>5. TapShapes BY <1>1, <1>2, <1>3, <1>4, ServiceAssumption DEF TapShapes, StopType, NoNode
<1>6. EachTap BY <1>1, <1>2 DEF EachTap
<1>7. Entries /\ Deleted BY <1>3 DEF Entries, Deleted
<1>8. Holder BY <1>1 DEF Holder, Dismantles
<1> QED BY <1>5, <1>6, <1>7, <1>8 DEF TapsInv

\* A step that touches neither the taps nor what is known of them.
LEMMA TapsUntouched ==
    ASSUME TapsInv, UNCHANGED <<tap, stop, vtaps, lock>>,
           node' = [n |-> node.n, phase |-> node'.phase, joined |-> node'.joined,
                    term |-> node'.term, tapped |-> node.tapped],
           node'.phase \in {"starting", "online"} => node.phase \in {"starting", "online"}
    PROVE  TapsInv'
<1>1. node'.n = node.n /\ node'.tapped = node.tapped OBVIOUS
<1>2. \A k : Unmade(k)' <=> Unmade(k) BY <1>1 DEF Unmade
<1>3. TapShapes' BY <1>1 DEF TapsInv, TapShapes
<1>4. EachTap' /\ Entries' BY <1>2 DEF TapsInv, EachTap, Entries
<1>5. Deleted' /\ Holder' BY DEF TapsInv, Deleted, Holder, Past, Dismantles
<1> QED BY <1>3, <1>4, <1>5 DEF TapsInv

\* newInstance counts on, and its tap is not made yet.
LEMMA TapsNew ==
    ASSUME TapsInv, NEW i \in 1..Starts, NewInstance(i)
    PROVE  TapsInv'
<1>1. /\ node.n < Instances /\ UNCHANGED <<tap, stop, vtaps, lock>>
      /\ node' = [NoNode EXCEPT !.n = node.n + 1, !.phase = "starting", !.joined = disk.conf]
  BY DEF NewInstance, taps
<1>2. /\ node' = [n |-> node.n + 1, phase |-> "starting", joined |-> disk.conf, term |-> FALSE,
                  tapped |-> FALSE]
  BY <1>1 DEF NoNode
<1>3. node'.n = node.n + 1 /\ node'.tapped = FALSE /\ node.n \in Nat /\ Instances \in Nat
  BY <1>2, ServiceAssumption DEF TapsInv, TapShapes
<1>4. \A k \in 1..Instances : Unmade(k)' => Unmade(k) BY <1>3 DEF Unmade
<1>5. TapShapes'
  <2>1. node'.n \in 0..Instances /\ node'.n > 0
    BY <1>1, <1>3
  <2>2. node' = [n |-> node'.n, phase |-> node'.phase, joined |-> node'.joined, term |-> node'.term,
                 tapped |-> node'.tapped]
    BY <1>2
  <2> QED BY <1>1, <1>3, <2>1, <2>2 DEF TapsInv, TapShapes
<1>6. \A j \in 1..Len(vtaps) : vtaps[j] \in 1..Instances
  <2>1. vtaps \in Seq(1..Instances) BY DEF TapsInv, TapShapes
  <2> QED BY <2>1, EntryType
<1>7. EachTap' /\ Entries' BY <1>1, <1>4, <1>6 DEF TapsInv, EachTap, Entries
<1>8. Deleted' /\ Holder' BY <1>1 DEF TapsInv, Deleted, Holder, Past, Dismantles
<1> QED BY <1>5, <1>7, <1>8 DEF TapsInv

\* A tap that exists is changed so that no deleted one loops.
LEMMA TapChanged ==
    ASSUME TapsInv, UNCHANGED <<stop, vtaps, lock>>, node'.n = node.n, node'.tapped = node.tapped,
           TapShapes', NEW k \in 1..Instances, ~Unmade(k) \/ tap'[k] = tap[k],
           \A j \in 1..Instances : j # k => tap'[j] = tap[j],
           tap'[k].dels = tap[k].dels, tap'[k].state = "freed" => ~tap'[k].loop
    PROVE  TapsInv'
<1>1. \A j : Unmade(j)' <=> Unmade(j) BY DEF Unmade
<1>2. EachTap' BY <1>1 DEF TapsInv, EachTap
<1>3. Entries' BY <1>1 DEF TapsInv, Entries
<1>4. \A j \in 1..Len(vtaps) : vtaps[j] \in 1..Instances
  <2>1. vtaps \in Seq(1..Instances) BY DEF TapsInv, TapShapes
  <2> QED BY <2>1, EntryType
<1>5. \A j \in 1..Len(vtaps) : tap'[vtaps[j]].dels = tap[vtaps[j]].dels BY <1>4
<1>6. Deleted' BY <1>5 DEF TapsInv, Deleted, Past, Dismantles
<1>7. Holder' BY DEF TapsInv, Holder, Dismantles
<1> QED BY <1>2, <1>3, <1>6, <1>7 DEF TapsInv

\* run() frees the tap it has made.
LEMMA TapsDropped ==
    ASSUME TapsInv, tap' = TapDropped, UNCHANGED <<stop, vtaps, lock>>, NEW p,
           p \notin {"starting", "online"}, node' = [node EXCEPT !.phase = p]
    PROVE  TapsInv'
<1>1. node' = [n |-> node.n, phase |-> p, joined |-> node.joined, term |-> node.term,
               tapped |-> node.tapped]
  BY DEF TapsInv, TapShapes
<1>2. node'.n = node.n /\ node'.tapped = node.tapped /\ node'.phase = p BY <1>1
<1> DEFINE n == node.n
<1>3. CASE n \in 1..Instances /\ tap[n].state = "live"
  <2> DEFINE new == [tap[n] EXCEPT !.state = "freed", !.run = FALSE, !.loop = FALSE]
  <2>1. tap \in [1..Instances -> TapType] /\ tap[n] \in TapType
    BY <1>3 DEF TapsInv, TapShapes
  <2>2. new \in TapType /\ new.dels = tap[n].dels /\ ~new.loop BY <2>1 DEF TapType
  <2>3. tap' = [tap EXCEPT ![n] = new] BY <1>3, <2>1 DEF TapDropped
  <2> HIDE DEF new
  <2>4. /\ tap' \in [1..Instances -> TapType] /\ tap'[n] = new
        /\ \A j \in 1..Instances : j # n => tap'[j] = tap[j]
    BY <1>3, <2>1, <2>2, <2>3
  <2>5. TapShapes' BY <1>1, <1>2, <2>4 DEF TapsInv, TapShapes
  <2>6. ~Unmade(n) 
    <3>1. tap[n] # NoTap BY <1>3 DEF NoTap
    <3> QED BY <1>3, <3>1 DEF TapsInv, EachTap
  <2> QED BY <1>2, <1>3, <2>2, <2>4, <2>5, <2>6, TapChanged
<1>4. CASE ~(n \in 1..Instances /\ tap[n].state = "live")
  <2>1. tap' = tap
    <3>1. DOMAIN tap = 1..Instances /\ tap = [k \in 1..Instances |-> tap[k]]
      BY DEF TapsInv, TapShapes
    <3>2. \A k \in 1..Instances : ~(k = node.n /\ tap[k].state = "live") BY <1>4
    <3> QED BY <3>1, <3>2 DEF TapDropped
  <2> QED BY <1>1, <1>2, <2>1, TapsUntouched
<1> QED BY <1>3, <1>4

\* A new tap is one that was not made yet.
LEMMA TapsMade ==
    ASSUME TapsInv, NEW i \in 1..Starts, SocketTap(i)
    PROVE  TapsInv'
<1> DEFINE n == node.n
<1>1. /\ node.phase = "online" /\ ~node.tapped /\ UNCHANGED <<stop, lock>>
      /\ tap' = [tap EXCEPT ![n] = [@ EXCEPT !.state = "live", !.run = TRUE, !.loop = TRUE]]
      /\ vtaps' = Append(vtaps, n) /\ node' = [node EXCEPT !.tapped = TRUE]
  BY DEF SocketTap
<1>2. /\ n \in 1..Instances /\ tap \in [1..Instances -> TapType] /\ n \in Nat
      /\ vtaps \in Seq(1..Instances)
  BY <1>1 DEF TapsInv, TapShapes
<1>3. Unmade(n) /\ tap[n] = NoTap
  <2>1. Unmade(n) BY <1>1 DEF Unmade
  <2> QED BY <1>2, <2>1 DEF TapsInv, EachTap
<1> DEFINE new == [NoTap EXCEPT !.state = "live", !.run = TRUE, !.loop = TRUE]
<1>4. tap' = [tap EXCEPT ![n] = new]
  <2>1. tap' = [tap EXCEPT ![n] = [tap[n] EXCEPT !.state = "live", !.run = TRUE, !.loop = TRUE]]
    BY <1>1
  <2> QED BY <1>3, <2>1
<1>5. /\ node' = [n |-> n, phase |-> "online", joined |-> node.joined, term |-> node.term,
                  tapped |-> TRUE]
  BY <1>1 DEF TapsInv, TapShapes
<1>6. node'.n = n /\ node'.tapped = TRUE /\ node'.phase = "online" BY <1>5
<1>7. new \in TapType /\ new.dels = 0 /\ new.state = "live"
  <2>1. NoTap \in TapType /\ NoTap.dels = 0 BY DEF NoTap, TapType
  <2> QED BY <2>1 DEF TapType
<1>8. /\ Len(vtaps) \in Nat /\ Len(vtaps') = Len(vtaps) + 1 /\ vtaps' \in Seq(1..Instances)
      /\ vtaps'[Len(vtaps) + 1] = n
      /\ \A j \in 1..Len(vtaps) : vtaps'[j] = vtaps[j]
  BY <1>1, <1>2
<1> HIDE DEF n, new
<1>9. /\ tap' \in [1..Instances -> TapType] /\ tap'[n] = new
      /\ \A k \in 1..Instances : k # n => tap'[k] = tap[k]
  BY <1>2, <1>4, <1>7
<1>10. TapShapes' BY <1>1, <1>2, <1>5, <1>6, <1>8, <1>9 DEF TapsInv, TapShapes, n
<1>11. \A k \in 1..Instances : Unmade(k)' => Unmade(k) /\ k # n
  BY <1>2, <1>6 DEF Unmade, n
<1>12. EachTap'
  <2> SUFFICES ASSUME NEW k \in 1..Instances
               PROVE  /\ tap'[k].dels <= 1 /\ (tap'[k].state = "freed" => ~tap'[k].loop)
                      /\ Unmade(k)' => tap'[k] = NoTap
    BY DEF EachTap
  <2>1. CASE k = n BY <1>7, <1>9, <1>11, <2>1
  <2>2. CASE k # n BY <1>9, <1>11, <2>2 DEF TapsInv, EachTap
  <2> QED BY <2>1, <2>2
<1>13. \A j \in 1..Len(vtaps) : vtaps[j] \in 1..Instances /\ vtaps[j] # n
  <2>1. \A j \in 1..Len(vtaps) : vtaps[j] \in 1..Instances BY <1>2, EntryType
  <2> QED BY <1>3, <2>1 DEF TapsInv, Entries
<1>14. \A j \in 1..Len(vtaps') : j \in 1..Len(vtaps) \/ j = Len(vtaps) + 1 BY <1>8
<1>15. Entries'
  <2>1. ASSUME NEW j \in 1..Len(vtaps') PROVE ~Unmade(vtaps[j])'
    <3>1. CASE j \in 1..Len(vtaps)
      BY <1>8, <1>11, <1>13, <3>1 DEF TapsInv, Entries
    <3>2. CASE j = Len(vtaps) + 1 BY <1>2, <1>8, <1>11, <3>2
    <3> QED BY <1>14, <3>1, <3>2
  <2>2. ASSUME NEW j \in 1..Len(vtaps'), NEW k \in 1..Len(vtaps'), vtaps'[j] = vtaps'[k]
        PROVE  j = k
    BY <1>8, <1>13, <1>14, <2>2 DEF TapsInv, Entries
  <2> QED BY <2>1, <2>2 DEF Entries
<1>16. Deleted'
  <2> SUFFICES ASSUME NEW j \in 1..Len(vtaps'), tap'[vtaps'[j]].dels # 0
               PROVE  \E c \in Callers : Past(c, j)'
    BY DEF Deleted
  <2>1. j \in 1..Len(vtaps) BY <1>7, <1>8, <1>9, <1>14
  <2>2. tap[vtaps[j]].dels # 0 BY <1>8, <1>9, <1>13, <2>1
  <2> QED BY <1>1, <2>1, <2>2 DEF TapsInv, Deleted, Past, Dismantles
<1>17. Holder' BY <1>1 DEF TapsInv, Holder, Dismantles
<1> QED BY <1>10, <1>12, <1>15, <1>16, <1>17 DEF TapsInv

\* The thread of a tap ends: nobody deletes it before.
LEMMA TapsLoopEnds ==
    ASSUME TapsInv, NEW k \in 1..Instances, threadMain(k)
    PROVE  TapsInv'
<1>1. /\ tap[k].loop /\ tap' = [tap EXCEPT ![k].loop = FALSE]
      /\ UNCHANGED <<node, stop, vtaps, lock>>
  BY DEF threadMain
<1>2. TapShapes /\ tap \in [1..Instances -> TapType] /\ tap[k] \in TapType
  BY DEF TapsInv, TapShapes
<1> DEFINE new == [tap[k] EXCEPT !.loop = FALSE]
<1>3. new \in TapType /\ new.dels = tap[k].dels /\ ~new.loop BY <1>2 DEF TapType
<1>4. tap' = [tap EXCEPT ![k] = new] BY <1>1
<1> HIDE DEF new
<1>5. /\ tap' \in [1..Instances -> TapType] /\ tap'[k] = new
      /\ \A j \in 1..Instances : j # k => tap'[j] = tap[j]
  BY <1>2, <1>3, <1>4
<1>6. TapShapes' BY <1>1, <1>2, <1>5 DEF TapShapes
<1>7. ~Unmade(k)
  <2>1. tap[k] # NoTap BY <1>1 DEF NoTap
  <2> QED BY <2>1 DEF TapsInv, EachTap
<1> QED BY <1>1, <1>3, <1>5, <1>6, <1>7, TapChanged

\* One thread is in dismantleTaps.
LEMMA OneDismantles ==
    ASSUME TapsInv, NEW c \in Callers, NEW d \in Callers, Dismantles(c), Dismantles(d)
    PROVE  c = d
<1>1. lock = {c} /\ lock = {d} BY DEF TapsInv, Holder
<1> QED BY <1>1

\* A thread that stops goes on, outside dismantleTaps.
LEMMA TapsStopMoves ==
    ASSUME TapsInv, NEW c \in Callers, ~Dismantles(c), NEW p \in {"terminate", "lock"},
           stop' = [stop EXCEPT ![c].pc = p], UNCHANGED <<tap, vtaps, lock>>,
           node' = [n |-> node.n, phase |-> node.phase, joined |-> node'.joined,
                    term |-> node'.term, tapped |-> node.tapped]
    PROVE  TapsInv'
<1>1. node'.n = node.n /\ node'.tapped = node.tapped /\ node'.phase = node.phase OBVIOUS
<1>2. \A k : Unmade(k)' <=> Unmade(k) BY <1>1 DEF Unmade
<1>3. stop \in StopType
  BY DEF TapsInv, TapShapes
<1>4. /\ stop' \in StopType
      /\ stop'[c].pc = p /\ stop'[c].i = stop[c].i
      /\ \A d \in Callers : d # c => stop'[d] = stop[d]
  BY <1>3 DEF StopType
<1>5. TapShapes' BY <1>1, <1>4 DEF TapsInv, TapShapes
<1>6. EachTap' /\ Entries' BY <1>2 DEF TapsInv, EachTap, Entries
<1>7. \A d \in Callers : Dismantles(d)' <=> Dismantles(d)
  BY <1>4 DEF Dismantles
<1>8. \A d \in Callers : \A i \in Nat : Past(d, i) => Past(d, i)'
  BY <1>4, <1>7 DEF Past
<1>9. Deleted'
  <2> SUFFICES ASSUME NEW i \in 1..Len(vtaps), tap[vtaps[i]].dels # 0
               PROVE  \E d \in Callers : Past(d, i)'
    BY DEF Deleted
  <2>1. i \in Nat OBVIOUS
  <2> QED BY <1>8, <2>1 DEF TapsInv, Deleted
<1>10. Holder' BY <1>4, <1>7 DEF TapsInv, Holder
<1> QED BY <1>5, <1>6, <1>9, <1>10 DEF TapsInv

\* dismantleTaps begins: nobody is in it, so nothing in vtaps has been deleted.
LEMMA TapsLocked ==
    ASSUME TapsInv, NEW c \in Callers, DismantleLocks(c)
    PROVE  TapsInv'
<1>1. /\ stop[c].pc = "lock" /\ lock = {} /\ lock' = {c} /\ UNCHANGED <<node, vtaps, tap>>
      /\ stop' = [stop EXCEPT ![c].pc = "dismantle"]
  BY DEF DismantleLocks
<1>2. stop \in StopType
  BY DEF TapsInv, TapShapes
<1>3. /\ stop' \in StopType
      /\ stop'[c].pc = "dismantle" /\ stop'[c].i = stop[c].i
      /\ \A d \in Callers : d # c => stop'[d] = stop[d]
  BY <1>1, <1>2 DEF StopType
<1>4. \A d \in Callers : ~Dismantles(d) BY <1>1 DEF TapsInv, Holder
<1>5. \A i \in 1..Len(vtaps) : tap[vtaps[i]].dels = 0
  BY <1>4 DEF TapsInv, Deleted, Past
<1>6. TapShapes' BY <1>1, <1>3 DEF TapsInv, TapShapes
<1>7. EachTap' /\ Entries' BY <1>1 DEF TapsInv, EachTap, Entries, Unmade
<1>8. Deleted' BY <1>1, <1>5 DEF Deleted
<1>9. Holder' BY <1>1, <1>3, <1>4 DEF TapsInv, Holder, Dismantles
<1> QED BY <1>6, <1>7, <1>8, <1>9 DEF TapsInv

\* A delete begins, of a tap that this thread has not come to and no other will.
LEMMA TapsDeleteBegins ==
    ASSUME TapsInv, NEW c \in Callers, DeleteBegins(c)
    PROVE  TapsInv'
<1> DEFINE i == stop[c].i
           k == vtaps[i]
           new == DtorBegins(tap[k])
<1>1. /\ stop[c].pc = "dismantle" /\ i <= Len(vtaps) /\ UNCHANGED <<node, vtaps, lock>>
      /\ tap' = [tap EXCEPT ![k] = new]
      /\ stop' = [stop EXCEPT ![c].pc = "join"]
  BY DEF DeleteBegins
<1>2. /\ stop \in StopType /\ tap \in [1..Instances -> TapType] /\ vtaps \in Seq(1..Instances)
      /\ i \in Nat \ {0} /\ Len(vtaps) \in Nat
  BY DEF TapsInv, TapShapes, StopType
<1>3. i \in 1..Len(vtaps) /\ k \in 1..Instances
  <2>1. i \in 1..Len(vtaps) BY <1>1, <1>2
  <2> QED BY <1>2, <2>1, EntryType
<1>4. /\ stop' \in StopType /\ stop'[c].pc = "join" /\ stop'[c].i = i
      /\ \A d \in Callers : d # c => stop'[d] = stop[d]
  BY <1>1, <1>2 DEF StopType
<1>5. tap[k].dels = 0
  <2>1. ASSUME NEW d \in Callers, Past(d, i) PROVE FALSE
    <3>1. Dismantles(c) /\ Dismantles(d) BY <1>1, <2>1 DEF Dismantles, Past
    <3>2. c = d BY <3>1, OneDismantles
    <3> QED BY <1>1, <1>2, <2>1, <3>2 DEF Past
  <2> QED BY <1>3, <2>1 DEF TapsInv, Deleted
<1>6. tap[k] \in TapType BY <1>2, <1>3
<1>7. /\ new \in TapType /\ new.dels = 1 /\ new.state = tap[k].state
      /\ ~tap[k].loop => ~new.loop
  <2> DEFINE t == tap[k]
             r == [t EXCEPT !.run = FALSE]
  <2>1. /\ r \in TapType /\ r.dels = 0 /\ r.state = t.state /\ (~t.loop => ~r.loop)
    BY <1>5, <1>6 DEF TapType
  <2>2. new = [r EXCEPT !.dels = 1]
    BY <1>5, <1>6 DEF DtorBegins, TapType
  <2> HIDE DEF r, new
  <2> QED BY <2>1, <2>2 DEF TapType
<1> HIDE DEF new, k
<1>8. /\ tap' \in [1..Instances -> TapType] /\ tap'[k] = new
      /\ \A j \in 1..Instances : j # k => tap'[j] = tap[j]
  BY <1>1, <1>2, <1>3, <1>7
<1>9. TapShapes' BY <1>1, <1>4, <1>8 DEF TapsInv, TapShapes
<1>10. ~Unmade(k) BY <1>3 DEF TapsInv, Entries, k
<1>11. \A j : Unmade(j)' <=> Unmade(j) BY <1>1 DEF Unmade
<1>12. EachTap'
  <2> SUFFICES ASSUME NEW j \in 1..Instances
               PROVE  /\ tap'[j].dels <= 1 /\ (tap'[j].state = "freed" => ~tap'[j].loop)
                      /\ Unmade(j)' => tap'[j] = NoTap
    BY DEF EachTap
  <2>1. CASE j = k BY <1>3, <1>7, <1>8, <1>10, <1>11, <2>1 DEF TapsInv, EachTap
  <2>2. CASE j # k BY <1>8, <1>11, <2>2 DEF TapsInv, EachTap
  <2> QED BY <2>1, <2>2
<1>13. Entries' BY <1>1, <1>11 DEF TapsInv, Entries
<1>14. Deleted'
  <2> SUFFICES ASSUME NEW j \in 1..Len(vtaps), tap'[vtaps[j]].dels # 0
               PROVE  \E d \in Callers : Past(d, j)'
    BY <1>1 DEF Deleted
  <2>1. CASE j = i BY <1>4, <2>1 DEF Past, Dismantles
  <2>2. CASE j # i
    <3>1. vtaps[j] # k /\ vtaps[j] \in 1..Instances
      BY <1>2, <1>3, <2>2, EntryType DEF TapsInv, Entries, k
    <3>2. tap[vtaps[j]].dels # 0 BY <1>8, <3>1
    <3>3. PICK d \in Callers : Past(d, j) BY <3>2 DEF TapsInv, Deleted
    <3>4. Past(d, j)' BY <1>1, <1>4, <3>3 DEF Past, Dismantles
    <3> QED BY <3>4
  <2> QED BY <2>1, <2>2
<1>15. Holder' BY <1>1, <1>4 DEF TapsInv, Holder, Dismantles
<1> QED BY <1>9, <1>12, <1>13, <1>14, <1>15 DEF TapsInv

\* It ends when the tap's thread has.
LEMMA TapsDeleteEnds ==
    ASSUME TapsInv, NEW c \in Callers, DeleteEnds(c)
    PROVE  TapsInv'
<1> DEFINE i == stop[c].i
           k == vtaps[i]
           new == [tap[k] EXCEPT !.state = "freed"]
<1>1. /\ stop[c].pc = "join" /\ i <= Len(vtaps) /\ ~tap[k].loop /\ UNCHANGED <<node, vtaps, lock>>
      /\ tap' = [tap EXCEPT ![k] = new]
      /\ stop' = [stop EXCEPT ![c] = [pc |-> "dismantle", i |-> i + 1]]
  BY DEF DeleteEnds
<1>2. /\ stop \in StopType /\ tap \in [1..Instances -> TapType] /\ vtaps \in Seq(1..Instances)
      /\ i \in Nat \ {0} /\ Len(vtaps) \in Nat
  BY DEF TapsInv, TapShapes, StopType
<1>3. i \in 1..Len(vtaps) /\ k \in 1..Instances
  <2>1. i \in 1..Len(vtaps) BY <1>1, <1>2
  <2> QED BY <1>2, <2>1, EntryType
<1>4. /\ stop' \in StopType /\ stop'[c].pc = "dismantle" /\ stop'[c].i = i + 1
      /\ \A d \in Callers : d # c => stop'[d] = stop[d]
  BY <1>1, <1>2 DEF StopType
<1>6. tap[k] \in TapType BY <1>2, <1>3
<1>7. new \in TapType /\ new.dels = tap[k].dels /\ ~new.loop
  BY <1>1, <1>6 DEF TapType
<1> HIDE DEF new, k
<1>8. /\ tap' \in [1..Instances -> TapType] /\ tap'[k] = new
      /\ \A j \in 1..Instances : j # k => tap'[j] = tap[j]
  BY <1>1, <1>2, <1>3, <1>7
<1>9. TapShapes' BY <1>1, <1>4, <1>8 DEF TapsInv, TapShapes
<1>10. ~Unmade(k) BY <1>3 DEF TapsInv, Entries, k
<1>11. \A j : Unmade(j)' <=> Unmade(j) BY <1>1 DEF Unmade
<1>12. EachTap'
  <2> SUFFICES ASSUME NEW j \in 1..Instances
               PROVE  /\ tap'[j].dels <= 1 /\ (tap'[j].state = "freed" => ~tap'[j].loop)
                      /\ Unmade(j)' => tap'[j] = NoTap
    BY DEF EachTap
  <2>1. CASE j = k BY <1>3, <1>7, <1>8, <1>10, <1>11, <2>1 DEF TapsInv, EachTap
  <2>2. CASE j # k BY <1>8, <1>11, <2>2 DEF TapsInv, EachTap
  <2> QED BY <2>1, <2>2
<1>13. Entries' BY <1>1, <1>11 DEF TapsInv, Entries
<1>14. Deleted'
  <2> SUFFICES ASSUME NEW j \in 1..Len(vtaps), tap'[vtaps[j]].dels # 0
               PROVE  \E d \in Callers : Past(d, j)'
    BY <1>1 DEF Deleted
  <2>0. vtaps[j] \in 1..Instances BY <1>2, EntryType
  <2>1. vtaps[j] \in 1..Instances /\ j \in Nat BY <2>0
  <2>2. tap[vtaps[j]].dels # 0 BY <1>7, <1>8, <2>1
  <2>3. PICK d \in Callers : Past(d, j) BY <2>2 DEF TapsInv, Deleted
  <2>4. Past(d, j)' BY <1>1, <1>2, <1>4, <2>1, <2>3 DEF Past, Dismantles
  <2> QED BY <2>4
<1>15. Holder' BY <1>1, <1>4 DEF TapsInv, Holder, Dismantles
<1> QED BY <1>9, <1>12, <1>13, <1>14, <1>15 DEF TapsInv

\* dismantleTaps ends and empties vtaps.
LEMMA TapsDismantleEnds ==
    ASSUME TapsInv, NEW c \in Callers, DismantleEnds(c)
    PROVE  TapsInv'
<1>1. /\ stop[c].pc = "dismantle" /\ vtaps' = <<>> /\ UNCHANGED <<node, tap>>
      /\ stop' = [stop EXCEPT ![c] = [pc |-> "idle", i |-> 1]]
  BY DEF DismantleEnds
<1>2. stop \in StopType BY DEF TapsInv, TapShapes
<1>3. /\ stop' \in StopType /\ stop'[c].pc = "idle" /\ stop'[c].i = 1
      /\ \A d \in Callers : d # c => stop'[d] = stop[d]
  BY <1>1, <1>2 DEF StopType
<1>4. vtaps' \in Seq(1..Instances) /\ Len(vtaps') = 0 BY <1>1
<1>5. TapShapes' BY <1>1, <1>3, <1>4 DEF TapsInv, TapShapes
<1>6. EachTap' BY <1>1 DEF TapsInv, EachTap, Unmade
<1>7. Entries' /\ Deleted' BY <1>4 DEF Entries, Deleted
<1>8. ASSUME NEW d \in Callers PROVE ~Dismantles(d)' /\ stop'[d].i = 1
  <2>1. CASE d = c BY <1>3, <2>1 DEF Dismantles
  <2>2. CASE d # c
    <3>1. ~Dismantles(d)
      <4>1. Dismantles(c) BY <1>1 DEF Dismantles
      <4> QED BY <2>2, <4>1, OneDismantles
    <3> QED BY <1>3, <2>2, <3>1 DEF TapsInv, Holder, Dismantles
  <2> QED BY <2>1, <2>2
<1>9. Holder' BY <1>8 DEF Holder
<1> QED BY <1>5, <1>6, <1>7, <1>9 DEF TapsInv

\* Every step keeps the invariant of the taps.
LEMMA TapsNext == TapsInv /\ [Next]_vars => TapsInv'
<1> SUFFICES ASSUME TapsInv, [Next]_vars PROVE TapsInv' OBVIOUS
<1>1. node = [n |-> node.n, phase |-> node.phase, joined |-> node.joined, term |-> node.term,
              tapped |-> node.tapped]
  BY DEF TapsInv, TapShapes
<1>2. CASE node' = node /\ UNCHANGED <<tap, stop, vtaps, lock>>
  BY <1>1, <1>2, TapsUntouched
<1>3. CASE Restart
  <2>1. /\ node' = NoNode /\ tap' = NewProcess.tap /\ stop' = NewProcess.stop /\ vtaps' = <<>>
    BY <1>3 DEF Restart
  <2>2. /\ NewProcess.tap = [k \in 1..Instances |-> NoTap]
        /\ NewProcess.stop = [c \in Callers |-> [pc |-> "idle", i |-> 1]]
    BY DEF NewProcess
  <2>3. NoTap \in TapType /\ NoTap.dels = 0 /\ NoTap.state = "none" BY DEF NoTap, TapType
  <2>4. vtaps' \in Seq(1..Instances) /\ Len(vtaps') = 0 BY <2>1
  <2>5. node'.n = 0 /\ node'.tapped = FALSE /\ node'.phase = "none" BY <2>1 DEF NoNode
  <2>6. TapShapes'
    BY <2>1, <2>2, <2>3, <2>4, <2>5, ServiceAssumption DEF TapShapes, StopType, NoNode
  <2>7. EachTap' BY <2>1, <2>2, <2>3 DEF EachTap
  <2>8. Entries' /\ Deleted' BY <2>4 DEF Entries, Deleted
  <2>9. Holder' BY <2>1, <2>2 DEF Holder, Dismantles
  <2> QED BY <2>6, <2>7, <2>8, <2>9 DEF TapsInv
<1>5. ASSUME NEW c \in Callers, StartTests(c) \/ zts_simple_start(c) \/ WaitAddrFreed(c)
      PROVE  TapsInv'
  <2>1. CASE JoinService(c)
    <3>1. /\ node' = [node EXCEPT !.joined = TRUE] /\ UNCHANGED <<tap, stop, vtaps, lock>>
      BY <2>1 DEF JoinService, taps
    <3>2. node' = [n |-> node.n, phase |-> node.phase, joined |-> TRUE, term |-> node.term,
                   tapped |-> node.tapped]
      BY <1>1, <3>1
    <3> QED BY <3>1, <3>2, TapsUntouched
  <2>2. CASE \/ StartTests(c) \/ zts_start(c) \/ WaitRunning(c) \/ zts_join(c)
             \/ WaitAddr(c) \/ WaitAddrFreed(c)
    BY <1>2, <2>2 DEF StartTests, zts_start, WaitRunning, zts_join, WaitAddr, WaitAddrFreed, taps
  <2> QED BY <1>5, <2>1, <2>2 DEF zts_simple_start
<1>6. ASSUME NEW i \in 1..Starts, ServiceThread(i) \/ Collision(i) \/ RunReturns(i, TRUE)
      PROVE  TapsInv'
  <2>1. CASE Begin(i) \/ NullInstance(i) \/ SaveOldId(i)
    BY <1>2, <2>1 DEF Begin, NullInstance, SaveOldId, taps
  <2>2. CASE NewInstance(i) BY <2>2, TapsNew
  <2>3. CASE NodeStarts(i)
    <3>1. /\ node' = [node EXCEPT !.phase = "online"] /\ UNCHANGED <<tap, stop, vtaps, lock>>
          /\ node.phase = "starting"
      BY <2>3 DEF NodeStarts, taps
    <3>2. node' = [n |-> node.n, phase |-> "online", joined |-> node.joined, term |-> node.term,
                   tapped |-> node.tapped]
      BY <1>1, <3>1
    <3> QED BY <3>1, <3>2, TapsUntouched
  <2>4. CASE RunReturns(i, TRUE) \/ RunReturns(i, FALSE)
    BY <2>4, TapsDropped DEF RunReturns
  <2>5. CASE DeleteInstance(i)
    <3>1. /\ node' = [node EXCEPT !.phase = "deleted"] /\ UNCHANGED <<tap, stop, vtaps, lock>>
      BY <2>5 DEF DeleteInstance, taps
    <3>2. node' = [n |-> node.n, phase |-> "deleted", joined |-> node.joined, term |-> node.term,
                   tapped |-> node.tapped]
      BY <1>1, <3>1
    <3> QED BY <3>1, <3>2, TapsUntouched
  <2>6. CASE SocketTap(i) BY <2>6, TapsMade
  <2>7. CASE Collision(i) BY <2>7, TapsDropped DEF Collision
  <2> QED BY <1>6, <2>1, <2>2, <2>3, <2>4, <2>5, <2>6, <2>7 DEF ServiceThread
<1>7. ASSUME NEW c \in Callers, StopTests(c) \/ zts_stop(c) PROVE TapsInv'
  <2>1. CASE StopTests(c)
    <3>1. ~Dismantles(c) /\ UNCHANGED <<node, tap, vtaps, lock>>
          /\ stop' = [stop EXCEPT ![c].pc = "terminate"]
      BY <2>1 DEF StopTests, Idle, Dismantles
    <3> QED BY <1>1, <3>1, TapsStopMoves
  <2>2. CASE Terminate(c)
    <3>1. /\ ~Dismantles(c) /\ UNCHANGED <<tap, vtaps, lock>>
          /\ stop' = [stop EXCEPT ![c].pc = "lock"]
          /\ node' = [node EXCEPT !.term = node.phase \in {"starting", "online"}]
      BY <2>2 DEF Terminate, Dismantles
    <3>2. node' = [n |-> node.n, phase |-> node.phase, joined |-> node'.joined,
                   term |-> node'.term, tapped |-> node.tapped]
      BY <1>1, <3>1
    <3> QED BY <3>1, <3>2, TapsStopMoves
  <2> QED
    BY <1>7, <2>1, <2>2, TapsLocked, TapsDeleteBegins, TapsDeleteEnds, TapsDismantleEnds
    DEF zts_stop
<1>8. CASE UNCHANGED vars BY <1>2, <1>8 DEF vars, taps
<1> QED BY <1>3, <1>5, <1>6, <1>7, <1>8, TapsLoopEnds DEF Next, Step

\* However many threads stop the service and whatever the service's thread and the
\* process do meanwhile, dismantleTaps deletes a tap once, and no thread loops on a
\* tap that is deleted.
THEOREM ServiceTaps == Spec => []TapsDismantled
<1>1. Init => TapsInv BY TapsFresh DEF Init
<1>2. TapsInv => TapsDismantled
  BY DEF TapsInv, TapShapes, EachTap, TapsDismantled
<1> QED BY <1>1, <1>2, TapsNext, PTL DEF Spec
=============================================================================
