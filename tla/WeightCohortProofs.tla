------------------------- MODULE WeightCohortProofs -------------------------
(***************************************************************************)
(* The safety of WeightCohort for every cohort, cache size and number of   *)
(* operators: the initial states satisfy the inductive invariant           *)
(* (WeightCohortInv), every step is made of moves that keep it             *)
(* (WeightCohortMoves, WeightCohortCallbacks), and the properties follow.  *)
(***************************************************************************)
EXTENDS WeightCohortCallbacks

\* A leaf is tried with Zenon, then with SMT.
USE ZenonT(5), SMTT(20)

-----------------------------------------------------------------------------
(* Initial states. *)

LEMMA EmptyIs == Ids(<<>>) = {} /\ Distinct(<<>>) /\ \A k \in 1 .. Len(<<>>) : FALSE
<1>1. \A k \in 1 .. Len(<<>>) : FALSE
  OBVIOUS
<1> QED BY <1>1 DEF Ids, Distinct

LEMMA InitTyped == Init => Typed(mem, job, dest, server, scratch, net)
<1> SUFFICES ASSUME Init PROVE Typed(mem, job, dest, server, scratch, net)
  OBVIOUS
<1>1. /\ Count \in Nat \ {0} /\ Chunks \in Nat \ {0} /\ Sources \in Nat \ {0} /\ Epochs \in Nat \ {0}
  BY CohortAssumption
<1>2. /\ 0 \in Tiles /\ 0 \in 0 .. Epochs /\ 1 \in 1 .. Sources + 1 /\ 0 \in 0 .. Chunks
  BY <1>1 DEF Tiles
<1>3. NoBytes \in Bytes /\ <<>> \in Seq(Message)
  BY <1>2 DEF NoBytes, Bytes
<1>4. mem \in [Members -> Member]
  BY <1>3 DEF Init, Member
<1>5. job \in [Members -> Job]
  BY <1>2 DEF Init, Job
<1>6. dest \in [Members -> [1 .. Dests -> Bytes]] /\ scratch \in [SlotIds -> Bytes] /\ net \subseteq Message
  BY <1>3 DEF Init
<1>7. NewSlot \in Slot
  BY <1>2, <1>3 DEF NewSlot, Slot
<1>8. server \in Server
  BY <1>3, <1>7 DEF Init, Server
<1> QED BY <1>4, <1>5, <1>6, <1>8 DEF Typed

LEMMA InitInv == Init => CohortInv /\ fault = FALSE
<1> SUFFICES ASSUME Init PROVE CohortInv /\ fault = FALSE
  OBVIOUS
<1>1. Typed(mem, job, dest, server, scratch, net)
  BY InitTyped
<1>2. /\ \A m \in Members : mem[m].landings = {} /\ mem[m].released = {} /\ mem[m].outgoing = <<>>
      /\ server.requests = <<>> /\ net = {} /\ fault = FALSE
  BY DEF Init
<1>3. \A i \in SlotIds : server.slots[i] = NewSlot
  BY DEF Init
<1>4. \A m \in Members : /\ job[m].epoch = 0 /\ job[m].active = FALSE /\ job[m].finishSent = FALSE
                         /\ \A d \in 1 .. Dests : job[m].holds[d] = 0
  BY DEF Init
<1>5. \A e \in EpochIds : server.joined[e] = {} /\ server.finished[e] = {}
  BY DEF Init
<1>6. NewSlot.waiters = <<>> /\ ~NewSlot.dma /\ ~NewSlot.reading /\ ~NewSlot.pending /\ NewSlot.epoch = 0
  BY DEF NewSlot
<1>7. MsgInv(mem, job, server, net)
  BY <1>2, <1>3, <1>6, EmptyIs DEF MsgInv
<1>8. Unique(mem, server, net)
  <2> DEFINE B == Box(mem, server, net)
  <2>1. IsBox(B, mem, server, net)
    BY BoxAt
  <2> HIDE DEF B
  <2>2. NetIds(net) = {}
    BY <1>2 DEF NetIds
  <2>3. ASSUME NEW b \in Boxes PROVE B[b] = {}
    <3>1. ASSUME NEW v \in Members, b = OutBox(v) PROVE B[b] = {}
      <4>1. B[b] = Ids(mem[v].outgoing)
        BY <2>1, <3>1 DEF IsBox
      <4> QED BY <1>2, <4>1, EmptyIs
    <3>2. ASSUME NEW i \in SlotIds, b = SlotBox(i) PROVE B[b] = {}
      <4>1. B[b] = Ids(server.slots[i].waiters)
        BY <2>1, <3>2 DEF IsBox
      <4> QED BY <1>3, <1>6, <4>1, EmptyIs
    <3>3. CASE b = QueueBox
      BY <1>2, <2>1, <3>3, EmptyIs DEF IsBox
    <3>4. CASE b = NetBox
      BY <2>1, <2>2, <3>4 DEF IsBox
    <3> QED BY <3>1, <3>2, <3>3, <3>4, BoxCases
  <2>4. Disjoint(B)
    BY <2>3 DEF Disjoint
  <2> QED BY <1>2, <1>3, <1>6, <2>4, EmptyIs DEF Unique, B
<1>9. Ordered(mem[Leader].outgoing, job[Leader].epoch)
  BY <1>2, LeaderIs, EmptyIs DEF Ordered
<1>10. ASSUME NEW m \in Members
       PROVE  LandingInv(mem, job, dest, m) /\ HoldsInv(job, dest, m) /\ JobInv(mem, job, m)
  <2>1. LandingInv(mem, job, dest, m) /\ HoldsInv(job, dest, m)
    BY <1>2, <1>4 DEF LandingInv, HoldsInv
  <2>2. \A e \in EpochIds : ~(e < 0) /\ e # 0
    BY CohortAssumption DEF EpochIds
  <2>3. JobInv(mem, job, m)
    BY <1>2, <1>4, <2>2, LeaderIs DEF JobInv
  <2> QED BY <2>1, <2>3
<1>11. ASSUME NEW e \in EpochIds PROVE EpochInv(mem, job, server, e)
  BY <1>2, <1>5, LeaderIs DEF EpochInv
<1>12. ASSUME NEW i \in SlotIds PROVE SlotInv(server, scratch, i)
  BY <1>3, <1>6 DEF SlotInv
<1> QED BY <1>1, <1>2, <1>7, <1>8, <1>9, <1>10, <1>11, <1>12 DEF CohortInv, Inv

-----------------------------------------------------------------------------
(* Steps. *)

Again(M, m, x, y) == With(With(M, m, x), m, y) = With(M, m, y) /\ With(M, m, x)[m] = x

LEMMA WithAgain ==
    ASSUME NEW M \in [Members -> Member], NEW m \in Members, NEW x, NEW y
    PROVE  Again(M, m, x, y)
BY DEF Again, With

LEMMA ReleasingNone ==
    ASSUME NEW mm \in Member
    PROVE  Releasing(mm, {}) = mm
<1>1. mm.outgoing \in Seq(Message)
  BY DEF Member
<1>2. mm.outgoing \o <<>> = mm.outgoing /\ mm.released \cup {} = mm.released
  BY <1>1
<1>3. [mm EXCEPT !.released = mm.released] = mm /\ [mm EXCEPT !.outgoing = mm.outgoing] = mm
  BY DEF Member
<1>4. Releasing(mm, {}) = Send([mm EXCEPT !.released = mm.released], <<>>)
  BY <1>2 DEF Releasing, ReleaseMessages
<1> QED BY <1>2, <1>3, <1>4 DEF Send

\* tick(), by parts.
LEMMA Ticked ==
    ASSUME Counting, NEW M, NEW J, NEW D, NEW S, NEW X, NEW N, Inv(M, J, D, S, X, N), NEW m \in Members,
           NEW room
    PROVE  LET pumped == PumpMessages(m, M[m], S)
               mm == PumpLandings(pumped.mem, room)
               left == room - Cardinality(Writable(pumped.mem))
               ss == IF m = Leader THEN PumpSlots(Admit(pumped.server), left) ELSE pumped.server
               es == IF m = Leader THEN Releasable(mm, ss) ELSE {}
           IN  /\ pumped.fault = FALSE
               /\ Inv(With(M, m, Releasing(mm, es)), J, D, ss, X, N \cup PumpedMessages(m, M[m]))
<1> DEFINE pumped == PumpMessages(m, M[m], S)
           mm == PumpLandings(pumped.mem, room)
           left == room - Cardinality(Writable(pumped.mem))
           ss == IF m = Leader THEN PumpSlots(Admit(pumped.server), left) ELSE pumped.server
           es == IF m = Leader THEN Releasable(mm, ss) ELSE {}
           O == N \cup PumpedMessages(m, M[m])
           M1 == With(M, m, pumped.mem)
           M2 == With(M, m, mm)
<1>1. M \in [Members -> Member]
  BY DEF Inv, Typed
<1>2. pumped.fault = FALSE /\ pumped.mem \in Member /\ Inv(M1, J, D, pumped.server, X, O)
  BY Pumped
<1>3. Again(M, m, pumped.mem, mm)
  BY <1>1, WithAgain
<1>4. M1[m] = pumped.mem /\ With(M1, m, mm) = M2
  BY <1>3 DEF Again
<1> HIDE DEF pumped, M1, O
<1>5. /\ PumpLandings(M1[m], room) \in Member
      /\ Inv(With(M1, m, PumpLandings(M1[m], room)), J, D, pumped.server, X, O)
  BY <1>2, LandingsPumped
<1>6. mm \in Member /\ Inv(M2, J, D, pumped.server, X, O)
  BY <1>4, <1>5
<1> HIDE DEF mm, M2, left
<1>7. Inv(M2, J, D, ss, X, O)
  <2>1. CASE m = Leader
    <3>1. Inv(M2, J, D, Admit(pumped.server), X, O)
      BY <1>6, Admitted
    <3>2. Inv(M2, J, D, PumpSlots(Admit(pumped.server), left), X, O)
      BY <3>1, SlotsPumped
    <3> QED BY <2>1, <3>2
  <2>2. CASE m # Leader
    BY <1>6, <2>2
  <2> QED BY <2>1, <2>2
<1> HIDE DEF ss
<1>8. Inv(With(M, m, Releasing(mm, es)), J, D, ss, X, O)
  <2>1. CASE m = Leader
    <3>1. Again(M, m, mm, Releasing(mm, es))
      BY <1>1, WithAgain
    <3>2. M2[Leader] = mm /\ With(M2, Leader, Releasing(mm, es)) = With(M, m, Releasing(mm, es))
      BY <2>1, <3>1 DEF Again, M2
    <3>3. Inv(With(M2, Leader, Releasing(M2[Leader], Releasable(M2[Leader], ss))), J, D, ss, X, O)
      BY <1>7, Released
    <3>4. es = Releasable(M2[Leader], ss)
      BY <2>1, <3>2
    <3> HIDE DEF es
    <3> QED BY <3>2, <3>3, <3>4
  <2>2. CASE m # Leader
    <3>1. es = {} /\ Releasing(mm, {}) = mm
      BY <1>6, <2>2, ReleasingNone
    <3>2. With(M, m, Releasing(mm, es)) = M2
      BY <3>1 DEF M2
    <3> QED BY <1>7, <3>2
  <2> QED BY <2>1, <2>2
<1> QED BY <1>2, <1>8 DEF O, es, ss, mm, left, pumped

\* The invariant of the steps.
Sound == CohortInv /\ fault = FALSE

LEMMA TickStep ==
    ASSUME Counting, Sound, NEW m \in Members, NEW room, Tick(m, room)
    PROVE  Sound'
<1> DEFINE pumped == PumpMessages(m, mem[m], server)
           mm == PumpLandings(pumped.mem, room)
           left == room - Cardinality(Writable(pumped.mem))
           ss == IF m = Leader THEN PumpSlots(Admit(pumped.server), left) ELSE pumped.server
           es == IF m = Leader THEN Releasable(mm, ss) ELSE {}
<1>1. Inv(mem, job, dest, server, scratch, net)
  BY DEF Sound, CohortInv
<1>2. /\ pumped.fault = FALSE
      /\ Inv(With(mem, m, Releasing(mm, es)), job, dest, ss, scratch, net \cup PumpedMessages(m, mem[m]))
  BY <1>1, Ticked
<1>3. /\ mem' = With(mem, m, Releasing(mm, es)) /\ server' = ss /\ net' = net \cup PumpedMessages(m, mem[m])
      /\ fault' = (pumped.fault \/ Overfull(mem'[m])) /\ job' = job /\ dest' = dest /\ scratch' = scratch
  <2> DEFINE Moved(p, q, s, e) ==
                 /\ mem' = [mem EXCEPT ![m] = Send([q EXCEPT !.released = @ \cup e], ReleaseMessages(e))]
                 /\ server' = s
                 /\ fault' = (p.fault \/ Overfull(mem'[m]))
             Served(p, q, n) ==
                 \E a \in {IF m = Leader THEN Admit(p.server) ELSE p.server} :
                 \E s \in {IF m = Leader THEN PumpSlots(a, n) ELSE a} :
                 \E e \in {IF m = Leader THEN Releasable(q, s) ELSE {}} : Moved(p, q, s, e)
  <2>a. PICK p \in {PumpMessages(m, mem[m], server)} :
            \E q \in {PumpLandings(p.mem, room)} :
            \E n \in {room - Cardinality(Writable(p.mem))} : Served(p, q, n)
    BY DEF Tick
  <2> HIDE DEF Served
  <2>b. PICK q \in {PumpLandings(p.mem, room)}, n \in {room - Cardinality(Writable(p.mem))} : Served(p, q, n)
    BY <2>a
  <2> HIDE DEF Moved
  <2>c. PICK a \in {IF m = Leader THEN Admit(p.server) ELSE p.server} :
            \E s \in {IF m = Leader THEN PumpSlots(a, n) ELSE a} :
            \E e \in {IF m = Leader THEN Releasable(q, s) ELSE {}} : Moved(p, q, s, e)
    BY <2>b DEF Served
  <2>d. PICK s \in {IF m = Leader THEN PumpSlots(a, n) ELSE a} :
            \E e \in {IF m = Leader THEN Releasable(q, s) ELSE {}} : Moved(p, q, s, e)
    BY <2>c
  <2>e. PICK es1 \in {IF m = Leader THEN Releasable(q, s) ELSE {}} : Moved(p, q, s, es1)
    BY <2>d
  <2>1. /\ p = PumpMessages(m, mem[m], server) /\ q = PumpLandings(p.mem, room)
        /\ n = room - Cardinality(Writable(p.mem))
        /\ a = (IF m = Leader THEN Admit(p.server) ELSE p.server)
        /\ s = (IF m = Leader THEN PumpSlots(a, n) ELSE a)
        /\ es1 = (IF m = Leader THEN Releasable(q, s) ELSE {})
        /\ mem' = [mem EXCEPT ![m] = Send([q EXCEPT !.released = @ \cup es1], ReleaseMessages(es1))]
        /\ server' = s /\ net' = net \cup PumpedMessages(m, mem[m])
        /\ fault' = (p.fault \/ Overfull(mem'[m])) /\ job' = job /\ dest' = dest /\ scratch' = scratch
    BY <2>e DEF Moved, Tick
  <2>2. p = pumped
    BY <2>1
  <2>3. q = mm /\ n = left
    BY <2>1, <2>2
  <2> HIDE DEF pumped, mm, left
  <2>4. s = ss
    BY <2>1, <2>2, <2>3
  <2> HIDE DEF ss
  <2>5. es1 = es
    BY <2>1, <2>3, <2>4
  <2> HIDE DEF es
  <2>6. mem' = With(mem, m, Releasing(mm, es))
    BY <2>1, <2>3, <2>5 DEF With, Releasing
  <2> QED BY <2>1, <2>2, <2>4, <2>6
<1> HIDE DEF pumped, mm, left, ss, es
<1>4. Inv(mem', job', dest', server', scratch', net')
  BY <1>2, <1>3
<1>5. ~Overfull(mem'[m])
  BY <1>4, QueueRoom
<1> QED BY <1>2, <1>3, <1>4, <1>5 DEF Sound, CohortInv

LEMMA DeliverStep ==
    ASSUME Counting, Sound, NEW msg \in net, Deliver(msg)
    PROVE  Sound'
<1> DEFINE got == Receive(mem[msg.to], server, msg)
<1>1. Inv(mem, job, dest, server, scratch, net)
  BY DEF Sound, CohortInv
<1>2. got.fault = FALSE /\ Inv(With(mem, msg.to, got.mem), job, dest, got.server, scratch, net \ {msg})
  BY <1>1, Received
<1>3. /\ mem' = With(mem, msg.to, got.mem) /\ server' = got.server /\ net' = net \ {msg} /\ fault' = got.fault
      /\ job' = job /\ dest' = dest /\ scratch' = scratch
  BY DEF Deliver, With
<1> HIDE DEF got
<1>4. Inv(mem', job', dest', server', scratch', net')
  BY <1>2, <1>3
<1> QED BY <1>2, <1>3, <1>4 DEF Sound, CohortInv

LEMMA DmaDoneStep ==
    ASSUME Sound, NEW i \in SlotIds, DmaDone(i)
    PROVE  Sound'
<1>1. Inv(mem, job, dest, server, scratch, net) /\ server \in Server
  BY DEF Sound, CohortInv, Inv, Typed
<1>2. server' = SlotPut(server, i, [server.slots[i] EXCEPT !.dma = FALSE])
  BY DEF DmaDone, SlotPut
<1>3. /\ scratch' = Load(scratch, i, server.slots[i].source)
      /\ server.slots[i].dma /\ mem' = mem /\ job' = job /\ dest' = dest /\ net' = net /\ fault' = fault
  BY DEF DmaDone, Load
<1>4. Inv(mem, job, dest, server', scratch', net)
  <2>1. server.slots[i].dma
    BY <1>3
  <2>2. Inv(mem, job, dest, SlotPut(server, i, [server.slots[i] EXCEPT !.dma = FALSE]),
            Load(scratch, i, server.slots[i].source), net)
    BY <1>1, <2>1, DmaAnswered
  <2> QED BY <1>2, <1>3, <2>2
<1> QED BY <1>3, <1>4 DEF Sound, CohortInv

LEMMA SlotReadDoneStep ==
    ASSUME Counting, Sound, NEW i \in SlotIds, SlotReadDone(i)
    PROVE  Sound'
<1> DEFINE s == server.slots[i]
           read == ReadSlot(s, scratch[i])
           t == [read EXCEPT !.waiters = <<>>, !.bytes = <<>>, !.reading = FALSE]
<1>1. Inv(mem, job, dest, server, scratch, net) /\ server \in Server /\ Leader \in Members
  BY LeaderIs DEF Sound, CohortInv, Inv, Typed
<1>2. /\ s.pending
      /\ server' = [server EXCEPT !.slots[i] = IF read.offset = Chunks THEN t ELSE read]
      /\ mem' = IF read.offset = Chunks THEN [mem EXCEPT ![Leader] = Send(@, SlotDeliveries(read))] ELSE mem
      /\ fault' = Overfull(mem'[Leader])
      /\ job' = job /\ dest' = dest /\ scratch' = scratch /\ net' = net
  BY DEF SlotReadDone, ReadSlot
<1>3. ASSUME read.offset = Chunks PROVE Inv(mem', job, dest, server', scratch, net)
  <2>1. Inv(With(mem, Leader, Send(mem[Leader], SlotDeliveries(read))), job, dest, SlotPut(server, i, t), scratch, net)
    BY <1>1, <1>2, <1>3, TileRead
  <2>2. server' = SlotPut(server, i, t) /\ mem' = With(mem, Leader, Send(mem[Leader], SlotDeliveries(read)))
    BY <1>2, <1>3 DEF SlotPut, With
  <2> QED BY <2>1, <2>2
<1>4. ASSUME read.offset # Chunks PROVE Inv(mem', job, dest, server', scratch, net)
  <2>1. Inv(mem, job, dest, SlotPut(server, i, read), scratch, net)
    BY <1>1, <1>2, <1>4, ChunkRead
  <2>2. server' = SlotPut(server, i, read) /\ mem' = mem
    BY <1>2, <1>4 DEF SlotPut
  <2> QED BY <2>1, <2>2
<1>5. Inv(mem', job', dest', server', scratch', net')
  BY <1>2, <1>3, <1>4
<1>6. ~Overfull(mem'[Leader])
  BY <1>1, <1>5, QueueRoom
<1> QED BY <1>2, <1>5, <1>6 DEF Sound, CohortInv

LEMMA LandingWrittenStep ==
    ASSUME Sound, NEW m \in Members, NEW l \in mem[m].landings, LandingWritten(m, l)
    PROVE  Sound'
<1> DEFINE c == l.offset + 1
           d == DestOf(l.source)
           k == [l EXCEPT !.offset = c, !.pending = FALSE]
           j == [job[m] EXCEPT !.holds = [@ EXCEPT ![d] = l.source]]
<1>1. /\ Inv(mem, job, dest, server, scratch, net)
      /\ mem \in [Members -> Member] /\ job \in [Members -> Job]
  BY DEF Sound, CohortInv, Inv, Typed
<1>2. /\ l.pending
      /\ dest' = [dest EXCEPT ![m][d][c] = l.bytes[c]]
      /\ mem' = [mem EXCEPT ![m].landings = (@ \ {l}) \cup (IF c = Chunks THEN {} ELSE {k})]
      /\ job' = IF c = Chunks THEN [job EXCEPT ![m].holds[d] = l.source] ELSE job
      /\ server' = server /\ scratch' = scratch /\ net' = net /\ fault' = fault
  BY DEF LandingWritten
<1>3. l.bytes[c] = l.source
  <2>1. l.pending
    BY <1>2
  <2>2. IsWriting(mem, job, dest, m, l)
    BY <1>1, <2>1, WritingIs
  <2> QED BY <2>2 DEF IsWriting
<1>4. dest' = Write(dest, m, d, c, l.source)
  BY <1>2, <1>3 DEF Write
<1>5. ASSUME c = Chunks PROVE Inv(mem', job', dest', server, scratch, net)
  <2>1. mem' = With(mem, m, [mem[m] EXCEPT !.landings = @ \ {l}])
    <3>1. mem' = [mem EXCEPT ![m].landings = (@ \ {l}) \cup {}]
      BY <1>2, <1>5
    <3>2. (mem[m].landings \ {l}) \cup {} = mem[m].landings \ {l}
      OBVIOUS
    <3> QED BY <3>1, <3>2 DEF With
  <2>2. job' = [job EXCEPT ![m] = j]
    BY <1>2, <1>5
  <2>3. Inv(With(mem, m, [mem[m] EXCEPT !.landings = @ \ {l}]), [job EXCEPT ![m] = j],
            Write(dest, m, d, c, l.source), server, scratch, net)
    <3>1. l.pending
      BY <1>2
    <3> QED BY <1>1, <1>5, <3>1, TileWritten
  <2> HIDE DEF j
  <2> QED BY <1>4, <2>1, <2>2, <2>3
<1>6. ASSUME c # Chunks PROVE Inv(mem', job', dest', server, scratch, net)
  <2>1. mem' = With(mem, m, [mem[m] EXCEPT !.landings = (@ \ {l}) \cup {k}]) /\ job' = job
    BY <1>2, <1>6 DEF With
  <2>2. Inv(With(mem, m, [mem[m] EXCEPT !.landings = (@ \ {l}) \cup {k}]), job,
            Write(dest, m, d, c, l.source), server, scratch, net)
    <3>1. l.pending
      BY <1>2
    <3> QED BY <1>1, <1>6, <3>1, ChunkWritten
  <2> QED BY <1>4, <2>1, <2>2
<1>7. Inv(mem', job', dest', server', scratch', net')
  BY <1>2, <1>5, <1>6
<1> QED BY <1>2, <1>7 DEF Sound, CohortInv

LEMMA BeginStep ==
    ASSUME Counting, Sound, NEW m \in Members, NEW n \in {1, Sources + 1}, Begin(m, n)
    PROVE  Sound'
<1> DEFINE e == job[m].epoch + 1
           j == [epoch |-> e, active |-> TRUE, next |-> n, finishSent |-> FALSE, holds |-> [d \in 1 .. Dests |-> 0]]
           x == Send(mem[m], <<Msg("Join", m, Leader, e, 0)>>)
<1>1. Inv(mem, job, dest, server, scratch, net)
  BY DEF Sound, CohortInv
<1>2. /\ ~job[m].active /\ job[m].epoch < Epochs
      /\ job' = [job EXCEPT ![m] = j] /\ mem' = With(mem, m, x)
      /\ fault' = Overfull(mem'[m])
      /\ dest' = dest /\ server' = server /\ scratch' = scratch /\ net' = net
  BY DEF Begin, With
<1>3. Inv(With(mem, m, x), [job EXCEPT ![m] = j], dest, server, scratch, net)
  <2>1. ~job[m].active /\ job[m].epoch < Epochs
    BY <1>2
  <2> QED BY <1>1, <2>1, Begun
<1> HIDE DEF x, j
<1>4. Inv(mem', job', dest', server', scratch', net')
  BY <1>2, <1>3
<1>5. ~Overfull(mem'[m])
  BY <1>4, QueueRoom
<1> QED BY <1>2, <1>4, <1>5 DEF Sound, CohortInv

\* The two updates of the job in Fetch, as one.
OneUpdate(J, m, n, d) ==
    [J EXCEPT ![m].next = n, ![m].holds[d] = 0] =
        [J EXCEPT ![m] = [J[m] EXCEPT !.next = n, !.holds = [@ EXCEPT ![d] = 0]]]

LEMMA FetchedJob ==
    ASSUME NEW J \in [Members -> Job], NEW m \in Members, NEW n, NEW d
    PROVE  OneUpdate(J, m, n, d)
<1> DEFINE a == [J[m] EXCEPT !.next = n]
           p == [J EXCEPT ![m] = a]
           b == [a EXCEPT !.holds = [a.holds EXCEPT ![d] = 0]]
<1>1. [J EXCEPT ![m].next = n, ![m].holds[d] = 0] =
          [p EXCEPT ![m] = [p[m] EXCEPT !.holds = [p[m].holds EXCEPT ![d] = 0]]]
  OBVIOUS
<1>2. p[m] = a
  OBVIOUS
<1>3. [J EXCEPT ![m].next = n, ![m].holds[d] = 0] = [p EXCEPT ![m] = b]
  BY <1>1, <1>2
<1>4. [J[m] EXCEPT !.next = n, !.holds = [@ EXCEPT ![d] = 0]] = b
  OBVIOUS
<1> HIDE DEF a, b
<1>5. [p EXCEPT ![m] = b] = [J EXCEPT ![m] = b]
  OBVIOUS
<1> QED BY <1>3, <1>4, <1>5 DEF OneUpdate

LEMMA FetchStep ==
    ASSUME Counting, Sound, NEW m \in Members, Fetch(m)
    PROVE  Sound'
<1> DEFINE s == job[m].next
           j == [job[m] EXCEPT !.next = s + 1, !.holds = [@ EXCEPT ![DestOf(s)] = 0]]
           l == [epoch |-> job[m].epoch, source |-> s, bytes |-> <<>>, offset |-> 0, pending |-> FALSE]
           x == Send([mem[m] EXCEPT !.landings = @ \cup {l}], <<Msg("Request", m, Leader, job[m].epoch, s)>>)
<1>1. Inv(mem, job, dest, server, scratch, net) /\ job \in [Members -> Job]
  BY DEF Sound, CohortInv, Inv, Typed
<1>2. /\ job[m].active /\ s <= Sources
      /\ \A k \in mem[m].landings : DestOf(k.source) # DestOf(s)
      /\ job' = [job EXCEPT ![m].next = s + 1, ![m].holds[DestOf(s)] = 0]
      /\ mem' = With(mem, m, x)
      /\ fault' = (Cardinality(mem[m].landings) >= MaxLandings \/ Overfull(mem'[m]))
      /\ dest' = dest /\ server' = server /\ scratch' = scratch /\ net' = net
  <2>1. mem' = [mem EXCEPT ![m] = x]
    BY DEF Fetch
  <2>2. /\ job[m].active /\ s <= Sources
        /\ \A k \in mem[m].landings : DestOf(k.source) # DestOf(s)
        /\ job' = [job EXCEPT ![m].next = s + 1, ![m].holds[DestOf(s)] = 0]
        /\ fault' = (Cardinality(mem[m].landings) >= MaxLandings \/ Overfull(mem'[m]))
        /\ dest' = dest /\ server' = server /\ scratch' = scratch /\ net' = net
    BY DEF Fetch
  <2> HIDE DEF x, s
  <2> QED BY <2>1, <2>2 DEF With
<1>3. job' = [job EXCEPT ![m] = j]
  <2>1. OneUpdate(job, m, s + 1, DestOf(s))
    BY <1>1, FetchedJob
  <2>2. [job EXCEPT ![m].next = s + 1, ![m].holds[DestOf(s)] = 0] = [job EXCEPT ![m] = j]
    BY <2>1 DEF OneUpdate
  <2> HIDE DEF j
  <2> QED BY <1>2, <2>2
<1>4. DestOf(s) \in 1 .. Dests /\ Inv(With(mem, m, x), [job EXCEPT ![m] = j], dest, server, scratch, net)
  <2>1. job[m].active /\ s <= Sources /\ \A k \in mem[m].landings : DestOf(k.source) # DestOf(s)
    BY <1>2
  <2> QED BY <1>1, <2>1, Fetched
<1>5. ~(Cardinality(mem[m].landings) >= MaxLandings)
  <2>1. \A k \in mem[m].landings : DestOf(k.source) # DestOf(s)
    BY <1>2
  <2> QED BY <1>1, <1>4, <2>1, LandingRoom
<1> HIDE DEF x, j, l
<1>6. Inv(mem', job', dest', server', scratch', net')
  BY <1>2, <1>3, <1>4
<1>7. ~Overfull(mem'[m])
  BY <1>6, QueueRoom
<1> QED BY <1>2, <1>5, <1>6, <1>7 DEF Sound, CohortInv

LEMMA SignalStep ==
    ASSUME Counting, Sound, NEW m \in Members, Signal(m)
    PROVE  Sound'
<1> DEFINE j == Signalled(mem, job, m)
           x == Send(mem[m], <<Msg("Finish", m, Leader, job[m].epoch, 0)>>)
<1>1. Inv(mem, job, dest, server, scratch, net) /\ job \in [Members -> Job] /\ fault = FALSE
  BY DEF Sound, CohortInv, Inv, Typed
<1>2. /\ job[m].active /\ job[m].next > Sources /\ mem[m].landings = {}
      /\ \/ ~job[m].finishSent /\ mem' = With(mem, m, x) /\ fault' = Overfull(mem'[m])
         \/ job[m].finishSent /\ mem' = mem /\ fault' = fault
      /\ job' = [job EXCEPT ![m].finishSent = TRUE, ![m].active = job[m].epoch \notin mem[m].released]
      /\ dest' = dest /\ server' = server /\ scratch' = scratch /\ net' = net
  BY DEF Signal, With
<1>3. job' = [job EXCEPT ![m] = j]
  BY <1>1, <1>2 DEF Signalled, Job
<1>4. Inv(With(mem, m, x), [job EXCEPT ![m] = j], dest, server, scratch, net) \/ job[m].finishSent
  <2>1. job[m].active /\ job[m].next > Sources /\ mem[m].landings = {}
    BY <1>2
  <2> QED BY <1>1, <2>1, FinishSent
<1>5. Inv(mem, [job EXCEPT ![m] = j], dest, server, scratch, net)
  <2>1. job[m].active /\ job[m].next > Sources /\ mem[m].landings = {}
    BY <1>2
  <2> QED BY <1>1, <2>1, Polled
<1> HIDE DEF j, x
<1>6. Inv(mem', job', dest', server', scratch', net')
  BY <1>2, <1>3, <1>4, <1>5
<1>7. ~Overfull(mem'[m])
  BY <1>6, QueueRoom
<1> QED BY <1>1, <1>2, <1>6, <1>7 DEF Sound, CohortInv

LEMMA NextStep == ASSUME Counting, Sound, [Next]_vars PROVE Sound'
<1>1. CASE Refused
  BY <1>1, TickStep DEF Refused
<1>2. CASE \E m \in Members : Tick(m, AllRoom)
  BY <1>2, TickStep
<1>3. CASE \E msg \in net : Deliver(msg)
  BY <1>3, DeliverStep
<1>4. CASE \E i \in SlotIds : DmaDone(i)
  BY <1>4, DmaDoneStep
<1>5. CASE \E i \in SlotIds : SlotReadDone(i)
  BY <1>5, SlotReadDoneStep
<1>6. CASE \E m \in Members : \E l \in mem[m].landings : LandingWritten(m, l)
  BY <1>6, LandingWrittenStep
<1>7. CASE \E m \in Members, next \in {1, Sources + 1} : Begin(m, next)
  BY <1>7, BeginStep
<1>8. CASE \E m \in Members : Fetch(m)
  BY <1>8, FetchStep
<1>9. CASE \E m \in Members : Signal(m)
  BY <1>9, SignalStep
<1>10. CASE UNCHANGED <<mem, job, dest, server, scratch, net, fault>>
  <2>1. /\ mem' = mem /\ job' = job /\ dest' = dest /\ server' = server /\ scratch' = scratch
        /\ net' = net /\ fault' = fault
    BY <1>10
  <2>2. Inv(mem, job, dest, server, scratch, net) /\ fault = FALSE
    BY DEF Sound, CohortInv
  <2>3. Inv(mem', job', dest', server', scratch', net') /\ fault' = FALSE
    BY <2>1, <2>2
  <2> QED BY <2>3 DEF Sound, CohortInv
<1>11. Progress \/ Refused \/ AccessFails \/ UNCHANGED vars
  BY DEF Next, Idle
<1>12. UNCHANGED vars => UNCHANGED <<mem, job, dest, server, scratch, net, fault>>
  BY DEF vars
<1>13. AccessFails => UNCHANGED <<mem, job, dest, server, scratch, net, fault>>
  BY DEF AccessFails
<1>14. ASSUME Progress PROVE Sound'
  BY <1>2, <1>3, <1>4, <1>5, <1>6, <1>7, <1>8, <1>9, <1>14 DEF Progress
<1> QED BY <1>1, <1>10, <1>11, <1>12, <1>13, <1>14

\* Only an access that fails changes the flag.
LEMMA FailedIs == ASSUME failed \in BOOLEAN, [Next]_vars PROVE failed' \in BOOLEAN
<1>1. (\E m \in Members : Tick(m, AllRoom)) \/ Refused => failed' = failed
  BY DEF Tick, Refused
<1>2. (\E msg \in net : Deliver(msg)) => failed' = failed
  BY DEF Deliver
<1>3. (\E i \in SlotIds : DmaDone(i)) => failed' = failed
  BY DEF DmaDone
<1>4. (\E i \in SlotIds : SlotReadDone(i)) => failed' = failed
  BY DEF SlotReadDone
<1>5. (\E m \in Members : \E l \in mem[m].landings : LandingWritten(m, l)) => failed' = failed
  BY DEF LandingWritten
<1>6. (\E m \in Members, next \in {1, Sources + 1} : Begin(m, next)) => failed' = failed
  BY DEF Begin
<1>7. (\E m \in Members : Fetch(m)) => failed' = failed
  BY DEF Fetch
<1>8. (\E m \in Members : Signal(m)) => failed' = failed
  BY DEF Signal
<1>9. AccessFails => failed' = TRUE
  BY DEF AccessFails
<1>10. UNCHANGED vars => failed' = failed
  BY DEF vars
<1>11. Progress => failed' = failed
  BY <1>1, <1>2, <1>3, <1>4, <1>5, <1>6, <1>7, <1>8 DEF Progress
<1> QED BY <1>1, <1>9, <1>10, <1>11 DEF Next, Idle

-----------------------------------------------------------------------------
(* Released epochs. *)

\* What a released epoch leaves behind.
LEMMA QuietEpoch ==
    ASSUME NEW M, NEW J, NEW D, NEW S, NEW X, NEW N, Inv(M, J, D, S, X, N), NEW e \in M[Leader].released
    PROVE  /\ e \in EpochIds /\ S.joined[e] = Members /\ S.finished[e] = Members
           /\ \A m \in Members : \A l \in M[m].landings : l.epoch # e
           /\ \A msg \in Message : MsgOk(M, J, S, msg) /\ msg.epoch = e => msg.kind = "Release"
<1>1. M \in [Members -> Member] /\ J \in [Members -> Job]
  BY DEF Inv, Typed
<1>2. e \in EpochIds
  <2>1. M[Leader] \in Member
    BY <1>1, LeaderIs
  <2> QED BY <2>1 DEF Member
<1>3. EpochInv(M, J, S, e)
  BY <1>2 DEF Inv
<1>4. S.joined[e] = Members /\ S.finished[e] = Members
  BY <1>3 DEF EpochInv
<1>5. ASSUME NEW m \in Members, NEW l \in M[m].landings, l.epoch = e PROVE FALSE
  <2>1. LandingOk(J, D, m, l)
    BY DEF Inv, LandingInv
  <2>2. e = J[m].epoch /\ ~J[m].finishSent
    BY <1>5, <2>1 DEF LandingOk
  <2>3. J[m].epoch > e \/ (J[m].epoch = e /\ J[m].finishSent)
    BY <1>3, <1>4 DEF EpochInv
  <2>4. ~(e > e)
    BY <1>2 DEF EpochIds
  <2> QED BY <2>2, <2>3, <2>4
<1>6. ASSUME NEW msg \in Message, MsgOk(M, J, S, msg), msg.epoch = e PROVE msg.kind = "Release"
  <2>1. /\ msg.kind \in {"Join", "Request", "Delivery", "Finish", "Release"}
        /\ msg.from \in Members /\ msg.to \in Members
    BY DEF Message
  <2>2. \A m \in Members : \A s : ~Waiting(M, m, e, s)
    BY <1>5 DEF Waiting
  <2> QED BY <1>4, <1>6, <2>1, <2>2 DEF MsgOk
<1> QED BY <1>2, <1>4, <1>5, <1>6

\* A slot with waiters has the epoch of a request that is waited for.
LEMMA SlotRequest ==
    ASSUME NEW M, NEW J, NEW D, NEW S, NEW X, NEW N, Inv(M, J, D, S, X, N), NEW i \in SlotIds,
           S.slots[i].waiters # <<>>
    PROVE  \E msg \in Message : msg.kind = "Request" /\ MsgOk(M, J, S, msg) /\ msg.epoch = S.slots[i].epoch
<1> DEFINE p == S.slots[i].waiters
<1>1. M \in [Members -> Member] /\ S \in Server /\ MsgInv(M, J, S, N)
  BY DEF Inv, Typed
<1>2. p \in Seq(Message) /\ p # <<>>
  BY <1>1, KeptTypes
<1>3. 1 \in 1 .. Len(p) /\ Head(p) \in Message /\ Head(p) = p[1]
  <2> HIDE DEF p
  <2> QED BY <1>2, TailIs
<1>4. WaiterOk(M, J, S, i, p[1])
  BY <1>1, <1>3 DEF MsgInv
<1>5. p[1] \in Message
  BY <1>3
<1>6. p[1].kind = "Request" /\ MsgOk(M, J, S, p[1]) /\ p[1].epoch = S.slots[i].epoch
  BY <1>4 DEF WaiterOk, RequestOk
<1> QED BY <1>5, <1>6

-----------------------------------------------------------------------------
(* Numbers and finite sets. *)

INSTANCE FiniteSetTheorems

LEMMA LeastElementHolds == LeastElement
<1> SUFFICES ASSUME NEW T \in SUBSET Nat, T # {} PROVE \E x \in T : \A y \in T : x <= y
  BY DEF LeastElement
<1>1. PICK x \in T : \A y \in T : ~(<<y, x>> \in OpToRel(<, Nat))
  BY NatLessThanWellFounded, WFMin
<1>2. \A y \in T : ~(y < x)
  BY <1>1 DEF OpToRel
<1> QED BY <1>2

LEMMA IntervalsHold == Intervals
<1> SUFFICES ASSUME NEW n \in Nat
             PROVE  /\ IsFiniteSet(1 .. n) /\ Cardinality(1 .. n) = n
                    /\ \A d \in 1 .. n : IsFiniteSet((1 .. n) \ {d}) /\ Cardinality((1 .. n) \ {d}) = n - 1
  BY DEF Intervals
<1>1. IsFiniteSet(1 .. n) /\ Cardinality(1 .. n) = n
  BY FS_Interval
<1>2. ASSUME NEW d \in 1 .. n PROVE IsFiniteSet((1 .. n) \ {d}) /\ Cardinality((1 .. n) \ {d}) = n - 1
  BY <1>1, FS_RemoveElement
<1> QED BY <1>1, <1>2

LEMMA PigeonholeHolds == Pigeonhole
<1> SUFFICES ASSUME NEW L, NEW K, IsFiniteSet(K),
                    NEW f \in [L -> K], \A a, b \in L : f[a] = f[b] => a = b
             PROVE  Cardinality(L) \in Nat /\ Cardinality(L) <= Cardinality(K)
  BY DEF Pigeonhole
<1>1. f \in Injection(L, K)
  BY DEF Injection, IsInjective
<1>2. IsFiniteSet(L) /\ Cardinality(L) <= Cardinality(K)
  BY <1>1, FS_Injection
<1> QED BY <1>2, FS_CardinalityType

LEMMA MembersCountedHolds == MembersCounted
<1>1. IsFiniteSet(Members) /\ Width \in Nat
  BY CohortAssumption, FS_CardinalityType DEF Width
<1>2. ASSUME NEW d \in Nat
      PROVE  IsFiniteSet(Members \X (1 .. d)) /\ Cardinality(Members \X (1 .. d)) = Width * d
  <2>1. IsFiniteSet(1 .. d) /\ Cardinality(1 .. d) = d
    BY FS_Interval
  <2> QED BY <1>1, <2>1, FS_Product DEF Width
<1>3. \E s \in [1 .. Width -> Members] : IsInjective(s)
  <2>1. PICK n \in Nat : ExistsBijection(1 .. n, Members)
    BY <1>1, FS_NatBijection
  <2>2. Width = n
    BY <2>1, FS_CountingElements DEF Width
  <2>3. PICK f : f \in Bijection(1 .. n, Members)
    BY <2>1 DEF ExistsBijection
  <2>4. f \in [1 .. n -> Members] /\ IsInjective(f)
    BY <2>3 DEF Bijection, Injection
  <2> QED BY <2>2, <2>4
<1> QED BY <1>1, <1>2, <1>3 DEF MembersCounted

LEMMA CountingHolds == Counting
BY LeastElementHolds, IntervalsHold, PigeonholeHolds, MembersCountedHolds DEF Counting

-----------------------------------------------------------------------------
(* Theorems. *)

(* The inductive invariant holds in every reachable state, and no logic_error
   is thrown: Init establishes it and every step of every member, of the network,
   of HBM and of the memories keeps it, an access that fails included. *)
THEOREM CohortSound == Spec => []Sound
<1>1. Init => Sound
  BY InitInv DEF Sound
<1>2. Sound /\ [Next]_vars => Sound'
  BY NextStep, CountingHolds
<1> QED BY <1>1, <1>2, PTL DEF Spec

(* Every request, with the delivery that answers it, and every Join, Finish and
   Release is in one place only and agrees with the landings, epochs and slots it
   is about, whatever receive, tick and the memories do. *)
THEOREM CohortInvariant == Spec => []CohortInv
<1>1. Sound => CohortInv
  BY DEF Sound
<1> QED BY <1>1, CohortSound, PTL

(* Every field stays in its range (TypeOK), for every cohort. *)
THEOREM CohortTyped == Spec => []TypeOK
<1>1. Init => failed \in BOOLEAN
  BY DEF Init
<1>2. failed \in BOOLEAN /\ [Next]_vars => (failed \in BOOLEAN)'
  BY FailedIs
<1>3. Sound /\ failed \in BOOLEAN => TypeOK
  BY DEF Sound, CohortInv, Inv, Typed, TypeOK
<1> QED BY <1>1, <1>2, <1>3, CohortSound, PTL DEF Spec

(* receive, send and fetch never throw a logic_error, whatever the memories refuse
   or fail: the request queue of the leader, the outgoing queue of every member and
   its landings keep to their bounds, and every delivery finds its landing empty.
   So only the callback of an access that failed can end the simulation. *)
THEOREM CohortNoLogicError == Spec => []NoLogicError
<1>1. Sound => NoLogicError
  BY DEF Sound, NoLogicError
<1> QED BY <1>1, CohortSound, PTL

(* A buffer that fetch() reported complete holds every chunk of the tile that was
   asked for, whatever the leader's cache loaded and evicted meanwhile. *)
THEOREM CohortFetchedTile == Spec => []FetchedTile
<1>1. Sound => FetchedTile
  BY DEF Sound, CohortInv, Inv, HoldsInv, FetchedTile
<1> QED BY <1>1, CohortSound, PTL

(* The leader's cache is loaded or read only while the leader is inside the
   operator of that epoch, whose memory the cache borrows: a member that still
   waits for a tile has not finished, so the epoch was not released. *)
THEOREM CohortScratchInsideEpoch == Spec => []ScratchInsideEpoch
<1>1. Sound => ScratchInsideEpoch
  <2> SUFFICES ASSUME Sound, NEW i \in SlotIds,
                      server.slots[i].dma \/ server.slots[i].reading \/ server.slots[i].pending
               PROVE  job[Leader].active /\ job[Leader].epoch = server.slots[i].epoch
    BY DEF ScratchInsideEpoch
  <2> DEFINE e == server.slots[i].epoch
  <2>1. Inv(mem, job, dest, server, scratch, net)
    BY DEF Sound, CohortInv
  <2>2. server.slots[i].waiters # <<>> /\ server.joined[e] = Members
    BY <2>1 DEF Inv, SlotInv
  <2>3. PICK msg \in Message : msg.kind = "Request" /\ MsgOk(mem, job, server, msg) /\ msg.epoch = e
    BY <2>1, <2>2, SlotRequest
  <2>4. e \in EpochIds
    BY <2>3, MessageIs
  <2>5. e \notin mem[Leader].released
    <3> SUFFICES ASSUME e \in mem[Leader].released PROVE FALSE
      OBVIOUS
    <3>1. msg.kind = "Release"
      BY <2>1, <2>3, QuietEpoch
    <3> QED BY <2>3, <3>1
  <2> HIDE DEF e
  <2>6. JobInv(mem, job, Leader) /\ EpochInv(mem, job, server, e) /\ job[Leader] \in Job
    BY <2>1, <2>4, LeaderIs DEF Inv, Typed
  <2>7. ~(e < job[Leader].epoch) /\ ~(e = job[Leader].epoch /\ ~job[Leader].active)
    BY <2>4, <2>5, <2>6 DEF JobInv
  <2>8. job[Leader].epoch >= e
    BY <2>2, <2>6, LeaderIs DEF EpochInv
  <2>9. e \in Int /\ job[Leader].epoch \in Int
    BY <2>4, <2>6 DEF EpochIds, Job
  <2>10. job[Leader].epoch = e
    BY <2>7, <2>8, <2>9
  <2> QED BY <2>7, <2>10 DEF e
<1> QED BY <1>1, CohortSound, PTL

(* Once an epoch is released anywhere, no landing, request, delivery or slot
   works for it: "all HBM/GM operations and all consumer landing ACKs have
   drained". *)
THEOREM CohortReleasedIsQuiet == Spec => []ReleasedIsQuiet
<1>1. Sound => ReleasedIsQuiet
  <2> SUFFICES ASSUME Sound, NEW e \in UNION {mem[m].released : m \in Members}
               PROVE  /\ \A m \in Members : \A l \in mem[m].landings : l.epoch # e
                      /\ \A msg \in net \cup UNION {Range(mem[m].outgoing) : m \in Members} :
                            msg.epoch = e => msg.kind = "Release"
                      /\ \A i \in SlotIds : server.slots[i].epoch = e => Evictable(server, i)
                      /\ \A k \in DOMAIN server.requests : server.requests[k].epoch # e
    BY DEF ReleasedIsQuiet
  <2>1. /\ Inv(mem, job, dest, server, scratch, net) /\ mem \in [Members -> Member] /\ server \in Server
        /\ net \subseteq Message /\ MsgInv(mem, job, server, net)
    BY DEF Sound, CohortInv, Inv, Typed
  <2>2. e \in mem[Leader].released
    BY <2>1 DEF Inv, JobInv
  <2>3. /\ \A m \in Members : \A l \in mem[m].landings : l.epoch # e
        /\ \A msg \in Message : MsgOk(mem, job, server, msg) /\ msg.epoch = e => msg.kind = "Release"
    BY <2>1, <2>2, QuietEpoch
  <2>4. ASSUME NEW msg \in net \cup UNION {Range(mem[m].outgoing) : m \in Members}
        PROVE  msg \in Message /\ MsgOk(mem, job, server, msg)
    <3>1. CASE msg \in net
      BY <2>1, <3>1 DEF MsgInv
    <3>2. ASSUME NEW m \in Members, msg \in Range(mem[m].outgoing)
          PROVE  msg \in Message /\ MsgOk(mem, job, server, msg)
      <4>1. mem[m].outgoing \in Seq(Message)
        BY <2>1, KeptTypes
      <4>2. DOMAIN mem[m].outgoing = 1 .. Len(mem[m].outgoing)
        BY <4>1
      <4>3. PICK k \in 1 .. Len(mem[m].outgoing) : msg = mem[m].outgoing[k]
        BY <3>2, <4>2 DEF Range
      <4> QED BY <2>1, <4>3, KeptTypes DEF MsgInv, OutOk
    <3> QED BY <3>1, <3>2
  <2>5. ASSUME NEW i \in SlotIds, server.slots[i].epoch = e PROVE Evictable(server, i)
    <3>1. server.slots[i].waiters = <<>>
      <4> SUFFICES ASSUME server.slots[i].waiters # <<>> PROVE FALSE
        OBVIOUS
      <4>1. PICK msg \in Message : msg.kind = "Request" /\ MsgOk(mem, job, server, msg) /\ msg.epoch = server.slots[i].epoch
        BY <2>1, SlotRequest
      <4>2. msg.kind = "Release"
        BY <2>3, <2>5, <4>1
      <4> QED BY <4>1, <4>2
    <3> QED BY <2>1, <3>1 DEF Inv, SlotInv, Evictable
  <2>6. ASSUME NEW k \in DOMAIN server.requests PROVE server.requests[k].epoch # e
    <3>1. server.requests \in Seq(Message)
      BY <2>1, KeptTypes
    <3>2. k \in 1 .. Len(server.requests)
      BY <3>1
    <3>3. server.requests[k] \in Message /\ RequestOk(mem, job, server, server.requests[k])
      BY <2>1, <3>2, KeptTypes DEF MsgInv
    <3> QED BY <2>3, <3>3 DEF RequestOk
  <2> QED BY <2>3, <2>4, <2>5, <2>6
<1> QED BY <1>1, CohortSound, PTL
=============================================================================
