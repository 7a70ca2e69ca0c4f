---------------------------- MODULE WeightCohort ----------------------------
(***************************************************************************)
(* Shared fetching of weight tiles (attention/reuseWeightCohort.h).  The   *)
(* workers of a cohort walk the same weight tiles; each asks the cohort's  *)
(* leader, which loads a tile from HBM once into a small cache in its own  *)
(* local memory, reads it out and sends it to every worker that asked.     *)
(* A worker lands the bytes with timed local writes.  An epoch is one FFN  *)
(* operator: join, fetch, finish, and a release by the leader that ends    *)
(* the use of its memory as a cache.                                       *)
(*                                                                         *)
(* Actors that interleave: the clock of every member, the network, HBM     *)
(* DMA, local reads and writes, and the decoder job of every member, which *)
(* begins an epoch as soon as the previous one was released to it.         *)
(*                                                                         *)
(* The bytes of a tile are its source address.  Slot::age is the rank it   *)
(* gives the slot among all slots.  Statistics are left out.               *)
(* Exceptions stop the system: a std::logic_error, for a bound or a rule   *)
(* of the protocol, sets "fault", and a std::runtime_error, for a memory   *)
(* access that failed, sets "failed".  The rows of an operator beyond the  *)
(* first 256, which fetch the same tiles again, are left out, and every    *)
(* operator has its own epoch number, so begin() never meets one twice.    *)
(***************************************************************************)
EXTENDS Integers, Sequences, FiniteSets, Functions

CONSTANTS
    Members,      \* workers of the cohort (width_ of them)
    Leader,       \* leader_
    Count,        \* cache slots (count_)
    Chunks,       \* local requests per tile
    Sources,      \* tiles an operator walks: 1 .. Sources
    Dests,        \* destination buffers of a member (prefetch slots, at most 4)
    MaxLandings,  \* bound on landings_ (4), and on the requests of a member
    Epochs        \* bound: FFN operators

SlotIds == 1 .. Count
Width   == Cardinality(Members)

ASSUME CohortAssumption ==
    /\ IsFiniteSet(Members) /\ Leader \in Members
    /\ Count \in Nat \ {0} /\ Chunks \in Nat \ {0}
    /\ Sources \in Nat \ {0} /\ Epochs \in Nat \ {0}
    /\ MaxLandings \in 1 .. 4 /\ Dests \in 1 .. MaxLandings

VARIABLES
    mem,      \* mem[m]: the ReuseWeightCohort object of member m
    job,      \* job[m]: the decoder job of member m
    dest,     \* dest[m][d][c]: tile whose bytes are in chunk c of buffer d
    server,   \* what only the leader's object uses: epochs, slots, requests
    scratch,  \* scratch[i][c]: tile whose bytes are in chunk c of cache slot i
    net,      \* messages travelling on the control network
    fault,    \* a std::logic_error ended the simulation
    failed    \* a std::runtime_error ended the simulation

vars == <<mem, job, dest, server, scratch, net, fault, failed>>

-----------------------------------------------------------------------------
(* State. *)

Tiles == 0 .. Sources            \* 0: no tile of this operator
EpochIds == 1 .. Epochs
Bytes == [1 .. Chunks -> Tiles]

Message ==
    [kind : {"Join", "Request", "Delivery", "Finish", "Release"},
     from : Members, to : Members, epoch : EpochIds, source : Tiles,
     bytes : Bytes \cup {<<>>}]

Msg(kind, from, to, epoch, source) ==
    [kind |-> kind, from |-> from, to |-> to, epoch |-> epoch, source |-> source,
     bytes |-> <<>>]

\* The token of a landing is its epoch and source: a job asks once for each.
Landing == [epoch : EpochIds, source : Tiles, bytes : Bytes \cup {<<>>},
            offset : 0 .. Chunks - 1, pending : BOOLEAN]

Member == [landings : SUBSET Landing, released : SUBSET EpochIds, outgoing : Seq(Message)]

Slot == [source : Tiles, epoch : 0 .. Epochs, dma : BOOLEAN, reading : BOOLEAN,
         pending : BOOLEAN, offset : 0 .. Chunks, bytes : Bytes \cup {<<>>},
         waiters : Seq(Message)]

Server == [joined   : [EpochIds -> SUBSET Members],
           finished : [EpochIds -> SUBSET Members],
           requests : Seq(Message), slots : [SlotIds -> Slot], age : [SlotIds -> SlotIds]]

\* The job of a member: tiles it has still to ask for, and which tile each
\* buffer holds (0 while a fetch into it is under way).
Job == [epoch : 0 .. Epochs, active : BOOLEAN, next : 1 .. Sources + 1,
        finishSent : BOOLEAN, holds : [1 .. Dests -> Tiles]]

(* Every field stays in its range: bytes are absent or one whole tile, and a
   landing that reached its last chunk is gone. *)
TypeOK ==
    /\ mem \in [Members -> Member]
    /\ job \in [Members -> Job]
    /\ dest \in [Members -> [1 .. Dests -> Bytes]]
    /\ server \in Server
    /\ scratch \in [SlotIds -> Bytes]
    /\ net \in SUBSET Message
    /\ fault \in BOOLEAN /\ failed \in BOOLEAN

DestOf(source) == ((source - 1) % Dests) + 1
NoBytes == [c \in 1 .. Chunks |-> 0]
NewSlot == [source |-> 0, epoch |-> 0, dma |-> FALSE, reading |-> FALSE, pending |-> FALSE,
            offset |-> 0, bytes |-> <<>>, waiters |-> <<>>]

Init ==
    /\ mem = [m \in Members |-> [landings |-> {}, released |-> {}, outgoing |-> <<>>]]
    /\ job = [m \in Members |-> [epoch |-> 0, active |-> FALSE, next |-> 1,
                                 finishSent |-> FALSE, holds |-> [d \in 1 .. Dests |-> 0]]]
    /\ dest = [m \in Members |-> [d \in 1 .. Dests |-> NoBytes]]
    /\ server = [joined |-> [e \in EpochIds |-> {}], finished |-> [e \in EpochIds |-> {}],
                 requests |-> <<>>, slots |-> [i \in SlotIds |-> NewSlot],
                 age |-> [i \in SlotIds |-> i]]
    /\ scratch = [i \in SlotIds |-> NoBytes]
    /\ net = {}
    /\ fault = FALSE /\ failed = FALSE

-----------------------------------------------------------------------------
(* receive, on a pair of a member and the leader's server state. *)

State(mm, ss, ff) == [mem |-> mm, server |-> ss, fault |-> ff]

\* send() throws when it finds more than width * 8 + 8 messages queued.
Overfull(mm) == Len(mm.outgoing) > Width * 8 + 9

Send(mm, msgs) == [mm EXCEPT !.outgoing = @ \o msgs]

ReceiveDelivery(mm, ss, msg) ==
    LET match == {l \in mm.landings : l.source = msg.source /\ l.epoch = msg.epoch}
    IN  IF match = {} \/ \E l \in match : l.bytes # <<>>
        THEN State(mm, ss, TRUE)
        ELSE State([mm EXCEPT !.landings = (@ \ match) \cup
                       {[l EXCEPT !.bytes = msg.bytes] : l \in match}], ss, FALSE)

ReceiveRequest(mm, ss, msg) ==
    IF Len(ss.requests) >= Width * MaxLandings THEN State(mm, ss, TRUE)
    ELSE State(mm, [ss EXCEPT !.requests = Append(@, msg)], FALSE)

Receive(mm, ss, msg) ==
    CASE msg.kind = "Delivery" -> ReceiveDelivery(mm, ss, msg)
      [] msg.kind = "Release"  -> State([mm EXCEPT !.released = @ \cup {msg.epoch}], ss, FALSE)
      [] msg.kind = "Join" /\ msg.to = Leader ->
            State(mm, [ss EXCEPT !.joined = [@ EXCEPT ![msg.epoch] =
                                   ss.joined[msg.epoch] \cup {msg.from}]], FALSE)
      [] msg.kind = "Finish" /\ msg.to = Leader ->
            State(mm, [ss EXCEPT !.finished = [@ EXCEPT ![msg.epoch] =
                                   ss.finished[msg.epoch] \cup {msg.from}]], FALSE)
      [] msg.kind = "Request" /\ msg.to = Leader -> ReceiveRequest(mm, ss, msg)
      [] OTHER -> State(mm, ss, TRUE)

\* pumpMessages: a message to the own core is handled in place.
PumpMessages(m, mm, ss) ==
    IF mm.outgoing = <<>> THEN State(mm, ss, FALSE)
    ELSE LET popped == [mm EXCEPT !.outgoing = Tail(@)]
             msg    == Head(mm.outgoing)
         IN  IF msg.to = m THEN Receive(popped, ss, msg) ELSE State(popped, ss, FALSE)

PumpedMessages(m, mm) ==
    IF mm.outgoing = <<>> \/ Head(mm.outgoing).to = m THEN {} ELSE {Head(mm.outgoing)}

\* The landings that have a chunk to write.
Writable(mm) == {l \in mm.landings : l.bytes # <<>> /\ ~l.pending}

\* pumpLanding for every landing, in the order of their tokens: submit the
\* next chunk.  The queue of the local memory takes "room" more accesses.
PumpLandings(mm, room) ==
    [mm EXCEPT !.landings =
        {IF l.bytes = <<>> \/ l.pending THEN l
         ELSE [l EXCEPT !.pending = Cardinality({k \in Writable(mm) : k.source < l.source}) < room] :
            l \in mm.landings}]

-----------------------------------------------------------------------------
(* The leader's server: admit, pumpSlot, release. *)

Evictable(ss, i) ==
    LET s == ss.slots[i] IN ~s.dma /\ ~s.reading /\ ~s.pending /\ s.waiters = <<>>

Hits(ss, req) ==
    {i \in SlotIds : ss.slots[i].source = req.source /\ ss.slots[i].epoch = req.epoch}

\* The slot for a request: the first that holds the tile, else the idle slot
\* of the least age; 0 when there is none.
SlotFor(ss, req) ==
    LET hits == Hits(ss, req)
        idle == {i \in SlotIds : Evictable(ss, i)}
    IN  IF hits # {} THEN CHOOSE i \in hits : \A j \in hits : i <= j
        ELSE IF idle # {} THEN CHOOSE i \in idle : \A j \in idle : ss.age[i] <= ss.age[j]
        ELSE 0

\* s.age = ++age_: slot i becomes the youngest.
Youngest(age, i) ==
    [j \in SlotIds |-> IF j = i THEN Count ELSE IF age[j] > age[i] THEN age[j] - 1 ELSE age[j]]

Erase(s, k) == SubSeq(s, 1, k - 1) \o SubSeq(s, k + 1, Len(s))

\* Slot i takes the request at the iterator, which is erased; a slot that does
\* not hold the tile starts to load it.
Take(scan, i, req) ==
    LET ss == scan.server
        s  == IF Hits(ss, req) # {} THEN ss.slots[i]
              ELSE [NewSlot EXCEPT !.source = req.source, !.epoch = req.epoch, !.dma = TRUE]
    IN  [scan EXCEPT !.server = [ss EXCEPT
            !.requests = Erase(@, scan.it),
            !.slots    = [@ EXCEPT ![i] = [s EXCEPT !.waiters = Append(s.waiters, req)]],
            !.age      = Youngest(@, i)]]

\* Seeded fault: requests are admitted before every member has joined.
AdmitOneUnjoined(scan) ==
    LET req == scan.server.requests[scan.it]
        i   == SlotFor(scan.server, req)
    IN  IF i = 0 THEN [scan EXCEPT !.it = @ + 1] ELSE Take(scan, i, req)

\* One step of admit's loop over requests_: what cannot be served now stays.
AdmitOne(scan) ==
    LET req == scan.server.requests[scan.it]
        i   == IF scan.server.joined[req.epoch] = Members THEN SlotFor(scan.server, req) ELSE 0
    IN  IF i = 0 THEN [scan EXCEPT !.it = @ + 1] ELSE Take(scan, i, req)

Admit(ss) ==
    LET scan[k \in 0 .. Len(ss.requests)] ==
            IF k = 0 THEN [it |-> 1, server |-> ss] ELSE AdmitOne(scan[k - 1])
    IN  scan[Len(ss.requests)].server

\* The slots that have a chunk to read.
Readable(ss) ==
    {i \in SlotIds : LET s == ss.slots[i] IN ~s.dma /\ ~s.pending /\ s.waiters # <<>>}

\* Seeded fault: reading starts while the load is still under way.
PumpSlotsDuringDma(ss, room) ==
    [ss EXCEPT !.slots = [i \in SlotIds |->
        LET s == ss.slots[i] IN
        IF s.pending \/ s.waiters = <<>> THEN s
        ELSE [s EXCEPT !.reading = TRUE, !.pending = room > 0,
                       !.offset = IF s.reading THEN @ ELSE 0,
                       !.bytes  = IF s.reading THEN @ ELSE NoBytes]]]

\* pumpSlot for every slot: begin or continue reading the tile out.
PumpSlots(ss, room) ==
    [ss EXCEPT !.slots = [i \in SlotIds |->
        LET s == ss.slots[i] IN
        IF s.dma \/ s.pending \/ s.waiters = <<>> THEN s
        ELSE [s EXCEPT !.reading = TRUE,
                       !.pending = Cardinality({j \in Readable(ss) : j < i}) < room,
                       !.offset = IF s.reading THEN @ ELSE 0,
                       !.bytes  = IF s.reading THEN @ ELSE NoBytes]]]

Busy(ss) ==
    \/ ss.requests # <<>>
    \/ \E i \in SlotIds : ss.slots[i].dma \/ ss.slots[i].reading \/ ss.slots[i].waiters # <<>>

\* Seeded fault: the members that finished are not compared with all members.
ReleasableAtFirstFinish(mm, ss) ==
    {e \in EpochIds : e \notin mm.released /\ ss.joined[e] = Members /\
                      ss.finished[e] # {} /\ ~Busy(ss)}

Releasable(mm, ss) ==
    {e \in EpochIds : e \notin mm.released /\ ss.joined[e] = Members /\
                      ss.finished[e] = Members /\ ~Busy(ss)}

MemberSeq == CHOOSE s \in [1 .. Width -> Members] : IsInjective(s)

\* One Release per member; at most one epoch can be ready at a time.
ReleaseMessages(es) ==
    IF es = {} THEN <<>>
    ELSE [i \in 1 .. Width |-> Msg("Release", Leader, MemberSeq[i], CHOOSE e \in es : TRUE, 0)]

-----------------------------------------------------------------------------
(* Actions. *)

\* ReuseWeightCohort::tick.  The local memory takes the first "room" accesses
\* of this tick: what it refuses is asked for again by a later tick.
Tick(m, room) ==
    /\ UNCHANGED <<job, dest, scratch, failed>>
    /\ net' = net \cup PumpedMessages(m, mem[m])
    /\ \E pumped \in {PumpMessages(m, mem[m], server)} :
       \E mm \in {PumpLandings(pumped.mem, room)} :
       \E left \in {room - Cardinality(Writable(pumped.mem))} :
       \E admitted \in {IF m = Leader THEN Admit(pumped.server) ELSE pumped.server} :
       \E ss \in {IF m = Leader THEN PumpSlots(admitted, left) ELSE admitted} :
       \E es \in {IF m = Leader THEN Releasable(mm, ss) ELSE {}} :
           /\ mem' = [mem EXCEPT ![m] =
                  Send([mm EXCEPT !.released = @ \cup es], ReleaseMessages(es))]
           /\ server' = ss
           /\ fault' = (pumped.fault \/ Overfull(mem'[m]))

\* The control network delivers a message.
Deliver(msg) ==
    LET got == Receive(mem[msg.to], server, msg) IN
    /\ net' = net \ {msg}
    /\ mem' = [mem EXCEPT ![msg.to] = got.mem]
    /\ server' = got.server
    /\ fault' = got.fault
    /\ UNCHANGED <<job, dest, scratch, failed>>

\* HBM answers the load of slot i.
DmaDone(i) ==
    /\ server.slots[i].dma
    /\ scratch' = [scratch EXCEPT ![i] = [c \in 1 .. Chunks |-> server.slots[i].source]]
    /\ server' = [server EXCEPT !.slots[i].dma = FALSE]
    /\ UNCHANGED <<mem, job, dest, net, fault, failed>>

\* Seeded fault: every copy is addressed to the first waiter.
SlotDeliveriesToFirst(s) ==
    [k \in DOMAIN s.waiters |->
        [Msg("Delivery", Leader, s.waiters[1].from, s.epoch, s.source) EXCEPT !.bytes = s.bytes]]

\* Seeded fault: only the first waiter of a tile is answered.
SlotDeliveriesFirst(s) ==
    <<[Msg("Delivery", Leader, s.waiters[1].from, s.epoch, s.source) EXCEPT !.bytes = s.bytes]>>

SlotDeliveries(s) ==
    [k \in DOMAIN s.waiters |->
        [Msg("Delivery", Leader, s.waiters[k].from, s.waiters[k].epoch, s.waiters[k].source)
            EXCEPT !.bytes = s.bytes]]

\* The callback of slot i's local read; the last chunk answers every waiter.
SlotReadDone(i) ==
    LET s    == server.slots[i]
        read == [s EXCEPT !.pending = FALSE, !.offset = @ + 1,
                          !.bytes = [@ EXCEPT ![s.offset + 1] = scratch[i][s.offset + 1]]]
        last == read.offset = Chunks
    IN  /\ s.pending
        /\ server' = [server EXCEPT !.slots[i] =
               IF last THEN [read EXCEPT !.waiters = <<>>, !.bytes = <<>>, !.reading = FALSE]
               ELSE read]
        /\ mem' = IF last THEN [mem EXCEPT ![Leader] = Send(@, SlotDeliveries(read))] ELSE mem
        /\ fault' = Overfull(mem'[Leader])
        /\ UNCHANGED <<job, dest, scratch, net, failed>>

\* The callback of a landing's local write; the last chunk completes the fetch.
LandingWritten(m, l) ==
    LET c == l.offset + 1
        d == DestOf(l.source)
    IN  /\ l \in mem[m].landings /\ l.pending
        /\ dest' = [dest EXCEPT ![m][d][c] = l.bytes[c]]
        /\ mem' = [mem EXCEPT ![m].landings = (@ \ {l}) \cup
               (IF c = Chunks THEN {} ELSE {[l EXCEPT !.offset = c, !.pending = FALSE]})]
        /\ job' = IF c = Chunks THEN [job EXCEPT ![m].holds[d] = l.source] ELSE job
        /\ UNCHANGED <<server, scratch, net, fault, failed>>

\* A memory access fails: the HBM load of a slot after its retries, the local
\* read of a slot or the local write of a landing.  The callback throws.
AccessFails ==
    /\ \/ \E i \in SlotIds : server.slots[i].dma \/ server.slots[i].pending
       \/ \E m \in Members : \E l \in mem[m].landings : l.pending
    /\ failed' = TRUE
    /\ UNCHANGED <<mem, job, dest, server, scratch, net, fault>>

\* The decoder job starts an FFN operator: begin(epoch).  A worker without
\* rows has no tile to ask for.
Begin(m, next) ==
    /\ ~job[m].active /\ job[m].epoch < Epochs
    /\ next \in {1, Sources + 1}
    /\ LET e == job[m].epoch + 1 IN
       /\ job' = [job EXCEPT ![m] = [epoch |-> e, active |-> TRUE, next |-> next,
                       finishSent |-> FALSE, holds |-> [d \in 1 .. Dests |-> 0]]]
       /\ mem' = [mem EXCEPT ![m] = Send(@, <<Msg("Join", m, Leader, e, 0)>>)]
    /\ fault' = Overfull(mem'[m])
    /\ UNCHANGED <<dest, server, scratch, net, failed>>

\* fetch(): the next tile goes to a buffer with no fetch under way.
Fetch(m) ==
    LET s == job[m].next IN
    /\ job[m].active /\ s <= Sources
    /\ \A l \in mem[m].landings : DestOf(l.source) # DestOf(s)
    /\ job' = [job EXCEPT ![m].next = s + 1, ![m].holds[DestOf(s)] = 0]
    /\ mem' = [mem EXCEPT ![m] =
           Send([mem[m] EXCEPT !.landings = @ \cup {[epoch |-> job[m].epoch, source |-> s,
                             bytes |-> <<>>, offset |-> 0, pending |-> FALSE]}],
                <<Msg("Request", m, Leader, job[m].epoch, s)>>)]
    /\ fault' = (Cardinality(mem[m].landings) >= MaxLandings \/ Overfull(mem'[m]))
    /\ UNCHANGED <<dest, server, scratch, net, failed>>

\* The job polls release() once it has no more work: Finish is sent once, and
\* the operator ends when the epoch is released.
Signal(m) ==
    LET e == job[m].epoch IN
    /\ job[m].active /\ job[m].next > Sources /\ mem[m].landings = {}
    /\ \/ /\ ~job[m].finishSent
          /\ mem' = [mem EXCEPT ![m] = Send(@, <<Msg("Finish", m, Leader, e, 0)>>)]
          /\ fault' = Overfull(mem'[m])
       \/ job[m].finishSent /\ UNCHANGED <<mem, fault>>
    /\ job' = [job EXCEPT ![m].finishSent = TRUE,
                          ![m].active = e \notin mem[m].released]
    /\ UNCHANGED <<dest, server, scratch, net, failed>>

AllDone == \A m \in Members : job[m].epoch = Epochs /\ ~job[m].active

Idle == (AllDone \/ failed) /\ UNCHANGED vars

\* Accesses that one tick can ask for.
AllRoom == Dests + Count

\* What goes on by itself: clocks (with a local memory that accepts), network,
\* memories and jobs.
Progress ==
    \/ \E msg \in net : Deliver(msg)
    \/ \E i \in SlotIds : DmaDone(i)
    \/ \E i \in SlotIds : SlotReadDone(i)
    \/ \E m \in Members : \E l \in mem[m].landings : LandingWritten(m, l)
    \/ \E m \in Members, next \in {1, Sources + 1} : Begin(m, next)
    \/ \E m \in Members : Fetch(m)
    \/ \E m \in Members : Signal(m)
    \/ \E m \in Members : Tick(m, AllRoom)

Refused == \E m \in Members, room \in 0 .. AllRoom - 1 : Tick(m, room)

Next ==
    /\ ~fault
    /\ Idle \/ (~failed /\ (Progress \/ Refused \/ AccessFails))

Spec == Init /\ [][Next]_vars

\* Something can go on by itself: the enabling condition of Progress spelled out.
CanGoOn ==
    /\ ~fault /\ ~failed
    /\ \/ net # {}
       \/ \E i \in SlotIds : server.slots[i].dma \/ server.slots[i].pending
       \/ Readable(server) # {} \/ Admit(server) # server
       \/ Releasable(mem[Leader], server) # {}
       \/ \E m \in Members :
             \/ mem[m].outgoing # <<>> \/ \E l \in mem[m].landings : l.bytes # <<>>
             \/ ~job[m].active /\ job[m].epoch < Epochs
             \/ /\ job[m].active /\ job[m].next <= Sources
                /\ \A l \in mem[m].landings : DestOf(l.source) # DestOf(job[m].next)
             \/ /\ job[m].active /\ job[m].next > Sources /\ mem[m].landings = {}
                /\ ~job[m].finishSent \/ job[m].epoch \in mem[m].released

\* The simulation does not stop while an event is pending, and the local memory
\* does not refuse for ever: while something can go on, something changes.  No
\* fairness between the parts is needed.
FairSpec == Spec /\ ([]<>~CanGoOn \/ []<><<TRUE>>_vars)

-----------------------------------------------------------------------------
(* Properties. *)

(* No std::logic_error is reachable, whatever the memories refuse or fail: no
   landing or request beyond its bound, no delivery without its landing, no
   request at a worker that does not lead, no outgoing queue beyond its bound.
   What is left to end the simulation are the throws for a failed access. *)
NoLogicError == ~fault

(* fetch() "completes after the destination GM ACK": a buffer reported complete
   holds the tile that was asked for, every chunk, however loads, evictions,
   reads and deliveries of other tiles interleaved. *)
FetchedTile ==
    \A m \in Members : \A d \in 1 .. Dests :
        LET s == job[m].holds[d] IN
        s # 0 => \A c \in 1 .. Chunks : dest[m][d][c] = s

(* The leader's cache lives in memory of its own FFN operator: it is loaded or
   read only while the leader itself is inside the operator of that epoch. *)
ScratchInsideEpoch ==
    \A i \in SlotIds :
        LET s == server.slots[i] IN
        (s.dma \/ s.reading \/ s.pending) =>
            job[Leader].active /\ job[Leader].epoch = s.epoch

(* "All HBM/GM operations and all consumer landing ACKs have drained": when an
   epoch is released anywhere, no landing, request, delivery or slot works
   for it. *)
ReleasedIsQuiet ==
    \A e \in UNION {mem[m].released : m \in Members} :
        /\ \A m \in Members : \A l \in mem[m].landings : l.epoch # e
        /\ \A msg \in net \cup UNION {Range(mem[m].outgoing) : m \in Members} :
              msg.epoch = e => msg.kind = "Release"
        /\ \A i \in SlotIds : server.slots[i].epoch = e => Evictable(server, i)
        /\ \A k \in DOMAIN server.requests : server.requests[k].epoch # e

(* Unless a memory access fails, every operator of every member ends: no fetch
   waits for ever for a slot, a delivery or a member, and every epoch is
   released to everyone. *)
EveryEpochEnds == <>(AllDone \/ failed)
=============================================================================
