----------------------------- MODULE DmaBridge -----------------------------
(***************************************************************************)
(* The DMA bridge of a memory node's network interface                     *)
(* (memHierarchy/memNICBase.h, memNIC.cc).  Reads of the compute cores     *)
(* wait in an ingress queue until the node has credits for them; admitted  *)
(* reads go to the memory, which answers in any order; answers go out at   *)
(* once or through a response queue, and return their credits.  Attention  *)
(* K/V chunks that several workers read are read once: a later read joins  *)
(* the one under way, or is served from a copy kept until the expected     *)
(* number of consumers have had it.                                        *)
(*                                                                         *)
(* Actors that interleave: the network's deliveries, the memory's answers, *)
(* the NIC clock, which is switched off when it has nothing to do, and the *)
(* network's send window.                                                  *)
(*                                                                         *)
(* Time is the NIC clock.  Edge is the tick of the next clock edge; what   *)
(* happens between Edge and Clock happens in that tick before the handler. *)
(* Arrival and ready times are ages in edges, counted up to MaxAge, with   *)
(* the order of the times (tick) kept apart.  The code compares arrivals   *)
(* in core cycles and answers in NIC cycles; here Reorder and MaxStarve    *)
(* are in edges too, so they stand for multiples of the clock factor.      *)
(* Messages that come between two edges come in ticks of their own.  chunk *)
(* stands for a message's addresses.  Statistics, tracing and the NIC's    *)
(* other traffic are left out.                                             *)
(***************************************************************************)
EXTENDS Integers, Sequences, FiniteSets, SequencesExt, FiniteSetsExt

CONSTANTS
    Msg,          \* Msg[id]: the messages (see Message)
    Scenarios,    \* bound: [ids, mode] that are considered
    CreditCap,    \* golem_dma_credit_cap_ where it is not 0
    Quantum,      \* golem_dma_tile_chunk_quantum_
    Reorder,      \* golem_dma_window_reorder_cycles_
    MaxStarve,    \* golem_dma_admission_max_starvation_cycles_, 0 for none
    RespReorder,  \* golem_dma_response_reorder_cycles_
    RespStarve,   \* golem_dma_response_max_starvation_cycles_, 0 for none
    Expected,     \* golem_dma_kv_expected_consumers_
    Transfer,     \* cycles a shared K/V chunk takes on the response tree
    MaxAge,       \* bound: ages are counted up to here
    MaxRoom       \* bound: sends the network takes during one handler

Ids == DOMAIN Msg

\* op: READ, DMA_WRITE or DMA_CONSUMER_PROGRESS; req: the request id, the same
\* for a read and its retry; w, win, tile, slot: worker,
\* window, tile and operand slot of the request id; meta: consumer metadata is valid, with cq, ct
\* the tiles the consumer is at and q, tile its target; kv: an attention K/V
\* read; chunk: host address, size, job and operand; units: its credits; prio:
\* the priority of its kind.
Message ==
    [ op : {"READ", "WRITE", "PROGRESS"}, req : Nat, w : 0 .. 255, win : Nat, tile : Nat, slot : Nat,
      meta : BOOLEAN, cq : Nat, ct : Nat, q : Nat, kv : BOOLEAN, chunk : Nat,
      units : Nat, prio : 0 .. 4 ]

\* Whether there is a credit cap, the policies that are enabled, and
\* golem_dma_admission_limit_ and golem_dma_response_drain_limit, 0 for none.
Mode == [capped : BOOLEAN, window : BOOLEAN, coalesce : BOOLEAN, tilePriority : BOOLEAN, kindPriority : BOOLEAN,
         admitLimit : Nat, drainLimit : Nat]

ASSUME BridgeAssumption ==
    /\ Ids \subseteq Nat /\ Msg \in [Ids -> Message] /\ \A id \in Ids : Msg[id].req > 0
    /\ \A id \in Ids : Msg[id].units <= CreditCap /\ (Msg[id].op = "READ" => Msg[id].units > 0)
    /\ \A id \in Ids : Msg[id].kv => Msg[id].meta
    /\ \A c \in Scenarios : c.ids \subseteq Ids /\ c.mode \in Mode
    /\ {CreditCap, Quantum, Expected, Transfer, MaxAge, MaxRoom} \subseteq Nat \ {0}
    /\ Reorder \in 0 .. MaxAge - 1 /\ {MaxStarve, RespReorder, RespStarve} \subseteq 0 .. MaxAge

VARIABLES
    nic,    \* the bridge
    net,    \* messages still on their way to the node
    sent,   \* sent[id]: answers sent for message id of the scenario
    atEdge  \* the clock edge's tick has come and its handler has not yet run

vars == <<nic, net, sent, atEdge>>

-----------------------------------------------------------------------------
(* State. *)

\* Entries with the same tick came, or were ready, in the same cycle; a later
\* tick is a later cycle.
Entry    == [id : Ids, age : 0 .. MaxAge, tick : Nat]
Response == [id : Ids, age : 0 .. MaxAge, tick : Nat, wait : Nat]
\* subs: kvSubscribers, the read itself first; empty unless it may be shared.
Pending  == [id : Ids, subs : Seq(Ids)]

CacheKey(id)  == <<Msg[id].chunk, Msg[id].tile>>
Consumer(id)  == <<Msg[id].w, Msg[id].q>>
WindowKey(id) == <<Msg[id].w, Msg[id].win, Msg[id].tile>>
BundleKey(id) == IF Msg[id].meta THEN <<Msg[id].w, Msg[id].q, Msg[id].tile, "metadata">>
                 ELSE Append(WindowKey(id), "id")
BundleKeys    == {BundleKey(id) : id \in Ids}
NoKey         == <<>>

\* merged: the reads dropped because their first copy is with the memory.
Bridge ==
    [ mode : Mode, merged : SUBSET Ids, ingress : Seq(Entry), credits : 0 .. CreditCap, pending : SUBSET Pending,
      queue : Seq(Response), cache : SUBSET [key : {CacheKey(i) : i \in Ids},
                                             served : SUBSET {Consumer(i) : i \in Ids}],
      progress : [{Msg[i].w : i \in Ids} -> Nat \X Nat],
      waiting : [BundleKeys -> Nat], multicast : Nat, clockOn : BOOLEAN,
      cursor : 0 .. 255, active : BOOLEAN, key : BundleKeys \cup {NoKey},
      windowKey : {WindowKey(i) : i \in Ids} \cup {<<0, 0, 0>>}, admitted : Nat,
      respCursor : 0 .. 255, respActive : BOOLEAN, respKey : BundleKeys \cup {NoKey},
      respSent : Nat ]

(* Queues, credits, counters and cursors keep the ranges of the C++ fields. *)
TypeOK ==
    /\ nic \in Bridge /\ net \subseteq Ids /\ sent \in [DOMAIN sent -> Nat] /\ atEdge \in BOOLEAN

Init ==
    \E c \in Scenarios :
    /\ nic = [mode |-> c.mode, merged |-> {}, ingress |-> <<>>,
              credits |-> IF c.mode.capped THEN CreditCap ELSE 0, pending |-> {}, queue |-> <<>>, cache |-> {}, progress |-> [w \in {Msg[i].w : i \in Ids} |-> <<0, 0>>],
              waiting |-> [k \in BundleKeys |-> 0], multicast |-> 0, clockOn |-> TRUE,
              cursor |-> 0, active |-> FALSE, key |-> NoKey, windowKey |-> <<0, 0, 0>>,
              admitted |-> 0, respCursor |-> 0, respActive |-> FALSE, respKey |-> NoKey,
              respSent |-> 0]
    /\ net = c.ids /\ sent = [id \in c.ids |-> 0] /\ atEdge = FALSE

-----------------------------------------------------------------------------
(* Order and distance. *)

\* updateGolemDmaConsumerProgress: a worker's progress never goes back.
UpdateProgress(b, id) ==
    LET m   == Msg[id]
        cur == b.progress[m.w]
    IN  IF m.meta /\ (cur[1] < m.cq \/ (cur[1] = m.cq /\ cur[2] < m.ct))
        THEN [b EXCEPT !.progress[m.w] = <<m.cq, m.ct>>] ELSE b

\* golemDmaConsumerDistance: how far the consumer is from needing the tile.
Distance(b, id) ==
    LET m   == Msg[id]
        cur == b.progress[m.w]
    IN  IF ~m.meta \/ m.q > cur[1] THEN 3
        ELSE IF m.q < cur[1] \/ m.tile <= cur[2] THEN 0
        ELSE Min({m.tile - cur[2], 3})

\* A worker's distance from a cursor, in eight bits.
WorkerDistance(w, cursor) == (w - cursor) % 256

\* Lexicographic order of tuples of the same length.
Precedes(s, t) ==
    \E k \in DOMAIN s : s[k] < t[k] /\ \A j \in 1 .. k - 1 : s[j] = t[j]

\* The element of a set of tuples that precedes the others.
First(S) == CHOOSE s \in S : \A t \in S : s = t \/ Precedes(s, t)

-----------------------------------------------------------------------------
(* Admission. *)

\* The credits a read holds; without a cap it holds none.
Units(b, id) == IF b.mode.capped THEN Msg[id].units ELSE 0

\* releaseGolemDmaCredits; CreditsExact says that it never overflows.
Release(b, id) == [b EXCEPT !.credits = @ + Units(b, id)]

\* The tick of what joins queue q, in the cycle of its last entry or later.
NextTick(q, same) ==
    IF q = <<>> THEN 0 ELSE IF same THEN Last(q).tick ELSE Last(q).tick + 1

\* An answer that joins the response queue: it is ready in the present cycle.
Queued(q, id, wait) ==
    [id |-> id, age |-> 0, tick |-> NextTick(q, q # <<>> /\ Last(q).age = 0), wait |-> wait]

Shared(b, id) == b.mode.coalesce /\ Msg[id].kv

\* tryServeGolemDmaKvCache: answer from the copy; drop it after the last
\* expected consumer.
ServeFromCache(b, id, copy) ==
    LET served == copy.served \cup {Consumer(id)}
        rest   == b.cache \ {copy}
    IN  [b EXCEPT !.queue = Append(@, Queued(@, id, 0)),
                  !.cache = IF Cardinality(served) >= Expected THEN rest
                            ELSE rest \cup {[copy EXCEPT !.served = served]}]

\* The read under way that a shared read can join: same chunk and tiles.
Joinable(b, id) ==
    {p \in b.pending : /\ p.subs # <<>> /\ CacheKey(p.id) = CacheKey(id)
                       /\ Msg[p.id].q = Msg[id].q}

\* createGolemDmaRead with tryCoalesceGolemDmaRead: serve from the copy, join
\* (a repeated request gives its credits back), or read the memory.
CreateRead(b, id) ==
    LET copies == {c \in b.cache : c.key = CacheKey(id)}
        join   == Joinable(b, id)
        p      == CHOOSE x \in join : TRUE
    IN  IF Shared(b, id) /\ copies # {} THEN ServeFromCache(b, id, CHOOSE c \in copies : TRUE)
        ELSE IF Shared(b, id) /\ join # {}
        THEN IF \E k \in DOMAIN p.subs : Msg[p.subs[k]].req = Msg[id].req
             THEN [Release(b, id) EXCEPT !.merged = @ \cup {id}]
             ELSE [b EXCEPT !.pending = (@ \ {p}) \cup {[p EXCEPT !.subs = Append(@, id)]},
                            !.waiting[BundleKey(id)] = @ + 1]
        ELSE [b EXCEPT !.pending = @ \cup {[id |-> id, subs |-> IF Shared(b, id) THEN <<id>> ELSE <<>>]},
                       !.waiting[BundleKey(id)] = @ + 1]

\* Seeded fault: a request takes one credit whatever its size.
AdmitOneCredit(a, i) ==
    LET id  == a.b.ingress[i].id
        b   == CreateRead([a.b EXCEPT !.ingress = RemoveAt(@, i), !.credits = @ - 1], id)
    IN  [a EXCEPT !.b = b, !.reads = @ + Cardinality(b.pending) - Cardinality(a.b.pending)]

\* a = [b, reads, open]: the bridge, the physical reads admitted in this call
\* and whether the loop goes on.  The i-th entry leaves the queue.
Admit(a, i) ==
    LET id  == a.b.ingress[i].id
        b   == CreateRead([a.b EXCEPT !.ingress = RemoveAt(@, i),
                                      !.credits = @ - Units(a.b, id)], id)
    IN  [a EXCEPT !.b = b, !.reads = @ + Cardinality(b.pending) - Cardinality(a.b.pending)]

HasLimit(a) == a.b.mode.admitLimit = 0 \/ a.reads < a.b.mode.admitLimit

Fitting(b) == {i \in DOMAIN b.ingress : Units(b, b.ingress[i].id) <= b.credits}

Deactivate(b) == [b EXCEPT !.active = FALSE, !.admitted = 0]

\* The bundle's turn: count the admission, and let the next worker go first
\* when the quantum is used up or the turn was cut short.
CountAdmission(b, cut, cursor) ==
    IF b.admitted + 1 >= Quantum \/ cut THEN Deactivate([b EXCEPT !.cursor = cursor])
    ELSE [b EXCEPT !.admitted = @ + 1]

\* Window priority with consumer metadata in the queue: a starved read, the
\* active bundle, or else the nearest consumer.
AdmitByConsumer(a) ==
    LET b       == a.b
        q       == b.ingress
        starved == {i \in Fitting(b) : MaxStarve # 0 /\ q[i].age >= MaxStarve}
        came(i) == <<q[i].tick, Msg[q[i].id].req, i>>
        bundle  == {i \in Fitting(b) : b.active /\ BundleKey(q[i].id) = b.key}
        rank(i) == LET m == Msg[q[i].id] IN
                   <<Distance(b, q[i].id),
                     IF m.meta THEN WorkerDistance(m.w, b.cursor) ELSE 255,
                     IF m.meta THEN m.q ELSE 0, IF m.meta THEN m.tile ELSE 0>> \o came(i)
        i       == IF starved # {} THEN Last(First({came(j) : j \in starved}))
                   ELSE IF bundle # {} THEN Min(bundle)
                   ELSE Last(First({rank(j) : j \in Fitting(b)}))
        m       == Msg[q[i].id]
        turn    == IF starved # {} \/ bundle # {} THEN b
                   ELSE [Deactivate(b) EXCEPT !.active = TRUE, !.key = BundleKey(q[i].id)]
        counted == CountAdmission(turn, starved # {},
                                  IF m.meta THEN (m.w + 1) % 256 ELSE b.cursor)
    IN  IF Fitting(b) = {} THEN [a EXCEPT !.b = Deactivate(b), !.open = FALSE]
        ELSE Admit([a EXCEPT !.b = counted], i)

\* The oldest window in the queue.
OldestWindow(q) == Min({Msg[q[i].id].win : i \in DOMAIN q})

\* Seeded fault: the bundle of a younger window keeps its turn.
EndYoungerNever(b, oldest) == b

\* The bundle of a younger window gives way to an older window.
EndYounger(b, oldest) ==
    IF b.active /\ b.windowKey[2] # oldest THEN Deactivate(b) ELSE b

\* Window priority without metadata: only the oldest window, once it has been
\* collected; within it the active bundle, or the next worker's first tile.
AdmitByWindow(a) ==
    LET q       == a.b.ingress
        oldest  == OldestWindow(q)
        inOld   == {i \in DOMAIN q : Msg[q[i].id].win = oldest}
        b       == EndYounger(a.b, oldest)
        bundle  == {i \in DOMAIN q : WindowKey(q[i].id) = b.windowKey}
        own(i)  == LET m == Msg[q[i].id] IN <<m.slot, m.chunk, q[i].tick, m.req, i>>
        rank(i) == LET m == Msg[q[i].id] IN
                   <<WorkerDistance(m.w, b.cursor), m.tile, m.slot, q[i].tick, m.chunk, m.req, i>>
        next    == Last(First({rank(j) : j \in inOld \cap Fitting(b)}))
        count(x) == CountAdmission(x, FALSE, (x.windowKey[1] + 1) % 256)
    IN  IF \A i \in inOld : q[i].age <= Reorder
        THEN [a EXCEPT !.open = FALSE]
        ELSE IF b.active /\ bundle = {}
        THEN [a EXCEPT !.b = Deactivate([b EXCEPT !.cursor = (b.windowKey[1] + 1) % 256])]
        ELSE IF (IF b.active THEN bundle ELSE inOld) \cap Fitting(b) = {}
        THEN [a EXCEPT !.b = b, !.open = FALSE]
        ELSE IF b.active
        THEN Admit([a EXCEPT !.b = count(b)], Last(First({own(j) : j \in bundle \cap Fitting(b)})))
        ELSE Admit([a EXCEPT !.b = count([b EXCEPT !.active = TRUE, !.admitted = 0,
                                                   !.windowKey = WindowKey(q[next].id)])], next)

\* The order of the default policy: arrival, then request id.
Came(e, f) ==
    LET s == <<e.tick, Msg[e.id].req, e.id>>
        t == <<f.tick, Msg[f.id].req, f.id>>
    IN  Precedes(s, t)

\* The default policy: in order, passing over what came in this tick and what
\* the credits do not cover.
AdmitInOrder(a, e) ==
    LET i == CHOOSE j \in DOMAIN a.b.ingress : a.b.ingress[j].id = e.id
    IN  IF HasLimit(a) /\ e.age > 0 /\ i \in Fitting(a.b) THEN Admit(a, i) ELSE a

\* admitGolemDmaIngress; a turn of the window policies admits, ends a bundle
\* or ends the loop.
AdmitIngress(b) ==
    LET start == [b |-> b, reads |-> 0, open |-> TRUE]
        byMeta == \E i \in DOMAIN b.ingress : Msg[b.ingress[i].id].meta
        turn(a, i) ==
            IF a.b.ingress = <<>> \/ ~HasLimit(a) \/ ~a.open THEN a
            ELSE IF byMeta THEN AdmitByConsumer(a) ELSE AdmitByWindow(a)
    IN  IF b.mode.window
        THEN FoldLeft(turn, start, [i \in 1 .. 2 * Len(b.ingress) |-> i]).b
        ELSE LET sorted == SortSeq(b.ingress, Came)
             IN  FoldLeft(AdmitInOrder, [start EXCEPT !.b.ingress = sorted], sorted).b

\* Seeded fault: what came in this cycle does not keep the clock on.
CanProgressLater(b) == \E i \in Fitting(b) : b.ingress[i].age > 0

\* golemDmaIngressCanProgress, which keeps the clock on.
CanProgress(b) ==
    LET q      == b.ingress
        byMeta == \E i \in DOMAIN q : Msg[q[i].id].meta
        scope  == {i \in DOMAIN q : byMeta \/ Msg[q[i].id].win = OldestWindow(q)}
    IN  IF q = <<>> THEN FALSE
        ELSE IF b.mode.window
        THEN (\A i \in scope : q[i].age <= Reorder) \/ scope \cap Fitting(b) # {}
        ELSE \E i \in DOMAIN q : q[i].age = 0 \/ i \in Fitting(b)

-----------------------------------------------------------------------------
(* Responses. *)

\* One turn of drainGolemDmaResponseQueue on a = [b, out, room, open]: the
\* bridge, the answers sent, the sends the network still takes, and whether the
\* loop goes on.  A bundle is made active before the network may refuse.
DrainOne(a, n) ==
    LET b        == a.b
        q        == b.queue
        tiles    == b.mode.tilePriority
        eligible == {i \in DOMAIN q : q[i].wait = 0 /\ (~tiles \/ q[i].age >= RespReorder)}
        starved  == {i \in DOMAIN q : tiles /\ RespStarve # 0 /\ q[i].age >= RespStarve}
        bundle   == {i \in eligible : tiles /\ b.respActive /\ BundleKey(q[i].id) = b.respKey}
        rank(i)  == LET m == Msg[q[i].id] IN
                    IF tiles
                    THEN <<Distance(b, q[i].id), b.waiting[BundleKey(q[i].id)],
                           WorkerDistance(m.w, b.respCursor), m.slot, m.chunk, i>>
                    ELSE <<IF b.mode.kindPriority THEN m.prio ELSE 0, 0, 0, 0, 0, i>>
        i        == IF starved # {} THEN Last(First({<<q[j].tick, Msg[q[j].id].req, j>> : j \in starved}))
                    ELSE IF bundle # {} THEN Min(bundle)
                    ELSE First({rank(j) : j \in eligible})[6]
        id       == q[i].id
        idle     == [b EXCEPT !.respActive = FALSE, !.respSent = 0]
        turn     == IF ~tiles \/ starved # {} \/ bundle # {} THEN b
                    ELSE [b EXCEPT !.respActive = TRUE, !.respKey = BundleKey(id), !.respSent = 0]
        gone     == Release([turn EXCEPT !.queue = RemoveAt(@, i)], id)
        counted  == IF ~tiles THEN gone
                    ELSE IF gone.respSent + 1 < Quantum THEN [gone EXCEPT !.respSent = @ + 1]
                    ELSE [gone EXCEPT !.respCursor = (Msg[id].w + 1) % 256,
                                      !.respActive = FALSE, !.respSent = 0]
    IN  IF ~a.open \/ q = <<>> \/ (b.mode.drainLimit # 0 /\ n > b.mode.drainLimit) THEN a
        ELSE IF eligible \cup starved = {}
        THEN [a EXCEPT !.open = FALSE, !.b = IF tiles /\ b.respActive THEN idle ELSE b]
        ELSE IF a.room = 0 THEN [a EXCEPT !.open = FALSE, !.b = turn]
        ELSE [a EXCEPT !.b = counted, !.out = Append(@, id), !.room = @ - 1]

Drain(b, room) ==
    FoldLeft(DrainOne, [b |-> b, out |-> <<>>, room |-> room, open |-> TRUE],
             [n \in 1 .. Len(b.queue) + 1 |-> n])

\* Seeded fault: only the read that went to the memory is counted off.
UncountFirst(b, ids) ==
    IF ids = <<>> THEN b ELSE [b EXCEPT !.waiting[BundleKey(ids[1])] = IF @ = 0 THEN 0 ELSE @ - 1]

\* golem_dma_response_pending_by_bundle_: one fewer for each reader of p.
Uncount(b, ids) ==
    FoldLeft(LAMBDA x, id : [x EXCEPT !.waiting[BundleKey(id)] = IF @ = 0 THEN 0 ELSE @ - 1],
             b, ids)

\* The copy kept for later consumers; it replaces one already there.
KeepCopy(b, p) ==
    LET served == {Consumer(id) : id \in ToSet(p.subs)}
    IN  IF p.subs = <<>> \/ Cardinality(served) >= Expected THEN b
        ELSE [b EXCEPT !.cache = {c \in @ : c.key # CacheKey(p.id)}
                                   \cup {[key |-> CacheKey(p.id), served |-> served]}]

\* Seeded fault: the branches start with the first subscriber.
BranchesAll(q, p, wait) == [k \in DOMAIN p.subs |-> Queued(q, p.subs[k], wait)]

\* The answers of the subscribers behind the first.
Branches(q, p, wait) == [k \in 1 .. Len(p.subs) - 1 |-> Queued(q, p.subs[k + 1], wait)]

\* trySendGolemDmaResponse: [b, out] after the memory's answer to p.  Shared
\* chunks wait for the response tree; the other readers follow in the queue.
SendResponse(b, p, room) ==
    LET readers == IF Msg[p.id].op = "WRITE" THEN <<>>
                   ELSE IF p.subs = <<>> THEN <<p.id>> ELSE p.subs
        wait    == IF p.subs = <<>> THEN 0 ELSE b.multicast + Transfer
        ready   == [KeepCopy(Uncount(b, readers), p) EXCEPT
                       !.pending = @ \ {p},
                       !.multicast = IF p.subs = <<>> THEN @ ELSE wait]
    IN  IF wait = 0 /\ b.queue = <<>> /\ room > 0
        THEN [b |-> Release(ready, p.id), out |-> <<p.id>>]
        ELSE [b |-> [ready EXCEPT !.queue = Append(@, Queued(@, p.id, wait)) \o Branches(@, p, wait)],
              out |-> <<>>]

-----------------------------------------------------------------------------
(* Actions. *)

Sent(out) == sent' = [id \in DOMAIN sent |-> sent[id] + Cardinality({k \in DOMAIN out : out[k] = id})]

\* A read joins the ingress queue; what comes at the clock edge comes in one tick.
Enqueue(b, id) ==
    LET same == atEdge /\ b.ingress # <<>> /\ Last(b.ingress).age = 0
    IN  [b EXCEPT !.ingress = Append(@, [id |-> id, age |-> 0, tick |-> NextTick(@, same)])]

\* recvNotify: waiting reads switch the clock on.
WakeIfWaiting(b) == [b EXCEPT !.clockOn = @ \/ b.ingress # <<>>]

\* doRecv: drain, then take one message.  A read waits for its admission, or
\* is created at once when there is neither a credit cap nor window priority.
Recv(id, room) ==
    /\ id \in net
    /\ net' = net \ {id}
    /\ \E d \in {Drain(nic, room)} :
          /\ nic' = WakeIfWaiting(
                CASE Msg[id].op = "READ" ->
                         LET b == UpdateProgress(d.b, id)
                         IN  IF b.mode.capped \/ b.mode.window THEN Enqueue(b, id)
                             ELSE CreateRead(b, id)
                  [] Msg[id].op = "WRITE" ->
                         [d.b EXCEPT !.pending = @ \cup {[id |-> id, subs |-> <<>>]}]
                  [] Msg[id].op = "PROGRESS" -> UpdateProgress(d.b, id))
          /\ Sent(d.out)
    /\ UNCHANGED atEdge

\* Seeded fault: reads that wait for the credits do not switch the clock on.
RespondNoWake(p, room) ==
    \E r \in {SendResponse(nic, p, room)} :
        /\ nic' = [r.b EXCEPT !.clockOn = @ \/ r.b.queue # <<>>]
        /\ Sent(r.out)
        /\ UNCHANGED <<net, atEdge>>

\* The memory answers a read or a write: MemNIC::send.
Respond(p, room) ==
    \E r \in {SendResponse(nic, p, room)} :
        /\ nic' = [r.b EXCEPT !.clockOn = @ \/ r.b.queue # <<>> \/ r.b.ingress # <<>>]
        /\ Sent(r.out)
        /\ UNCHANGED <<net, atEdge>>

\* The next clock edge comes: everything is one cycle older.
Older(n) == Min({n + 1, MaxAge})
Edge ==
    /\ ~atEdge
    /\ atEdge' = TRUE
    /\ nic' = [nic EXCEPT
          !.ingress = [k \in DOMAIN @ |-> [@[k] EXCEPT !.age = Older(@)]],
          !.queue   = [k \in DOMAIN @ |-> [@[k] EXCEPT !.age = Older(@), !.wait = Max({@ - 1, 0})]],
          !.multicast = Max({@ - 1, 0})]
    /\ UNCHANGED <<net, sent>>

\* MemNIC::clock: admit, drain, and go to sleep when nothing can move.
Clock(room) ==
    /\ atEdge
    /\ atEdge' = FALSE
    /\ IF nic.clockOn
       THEN \E d \in {Drain(AdmitIngress(nic), room)} :
               /\ nic' = [d.b EXCEPT !.clockOn = d.b.queue # <<>> \/ CanProgress(d.b)]
               /\ Sent(d.out)
       ELSE UNCHANGED <<nic, sent>>
    /\ UNCHANGED net

Rooms == 0 .. MaxRoom

Next ==
    \/ \E id \in net, room \in Rooms : Recv(id, room)
    \/ \E p \in nic.pending, room \in Rooms : Respond(p, room)
    \/ Edge
    \/ \E room \in Rooms : Clock(room)

Spec == Init /\ [][Next]_vars

\* Deliveries, the memory and the clock go on (weak fairness), and a network
\* that refuses sends takes some again (strong fairness of a clock with room).
\* The enabling conditions are spelled out, and a delivery and an answer are
\* recognised by what only they do.
Fairness ==
    /\ []<>(net = {}) \/ []<><<net' # net>>_vars
    /\ []<>(nic.pending = {})
       \/ []<><<\E p \in nic.pending : \A r \in nic'.pending : r.id # p.id>>_vars
    /\ []<>atEdge
    /\ <>[]~atEdge \/ []<><<\E room \in Rooms \ {0} : Clock(room)>>_vars

FairSpec == Spec /\ Fairness

-----------------------------------------------------------------------------
(* Properties. *)

Readers(p) == IF p.subs = <<>> THEN <<p.id>> ELSE p.subs
WithMemory(id) == {p \in nic.pending : Contains(Readers(p), id)}
InQueue(q, id) == {k \in DOMAIN q : q[k].id = id}
Requests       == {id \in DOMAIN sent : Msg[id].op # "PROGRESS"}

\* Every read and write is in exactly one place: on its way, in the ingress
\* queue, with the memory, in the response queue, answered once, or merged with
\* the read it repeats.
AnsweredOnce ==
    \A id \in Requests :
        Cardinality({id} \cap net) + Cardinality(InQueue(nic.ingress, id))
          + Cardinality(WithMemory(id)) + Cardinality(InQueue(nic.queue, id)) + sent[id]
          + Cardinality({id} \cap nic.merged) = 1

\* Credits are exact: what the node lacks is what the reads hold that were
\* admitted and whose answer has not left; so a release never overflows, and a
\* merged read holds nothing.
CreditsExact ==
    nic.mode.capped =>
        CreditCap - nic.credits =
            MapThenSumSet(LAMBDA id : Msg[id].units,
                          {id \in Requests : WithMemory(id) # {} \/ InQueue(nic.queue, id) # {}})

\* The count that ranks the responses of a tile is the number of its reads
\* that the memory has not answered.
BundleCountsExact ==
    LET reads == {id \in Requests : Msg[id].op = "READ" /\ WithMemory(id) # {}}
    IN  \A k \in BundleKeys : nic.waiting[k] = Cardinality({id \in reads : BundleKey(id) = k})

\* The reads that the policy in force chooses from.
Candidates(b) ==
    LET q == b.ingress
    IN  {i \in DOMAIN q : b.mode.window /\ (\A j \in DOMAIN q : ~Msg[q[j].id].meta)
                             => \A j \in DOMAIN q : Msg[q[i].id].win <= Msg[q[j].id].win}

\* The clock sleeps only when the response queue is empty, no read that the
\* policy chooses from fits the credits, and, if reads wait, a read with the
\* memory holds credits (its answer switches the clock on: golemDmaIngressCanProgress).
SleepIsSafe ==
    ~nic.clockOn =>
        /\ nic.queue = <<>>
        /\ Candidates(nic) \cap Fitting(nic) = {}
        /\ nic.ingress # <<>> =>
               \E p \in nic.pending : Msg[p.id].op = "READ" /\ Units(nic, p.id) > 0

\* Window priority without metadata: a read is admitted only when no read of
\* an older window waits.
OldestWindowFirst ==
    [][ nic.mode.window /\ (\A k \in DOMAIN nic.ingress : ~Msg[nic.ingress[k].id].meta) =>
            \A i, j \in DOMAIN nic.ingress :
                LET left(k) == \A n \in DOMAIN nic'.ingress : nic'.ingress[n].id # nic.ingress[k].id
                IN  left(i) /\ ~left(j) => Msg[nic.ingress[i].id].win <= Msg[nic.ingress[j].id].win ]_vars

\* The copy of a chunk is released when the expected number of consumers have
\* been answered (golem_dma_kv_expected_consumers, tryServeGolemDmaKvCache).
CopiesReleased ==
    \A c \in nic.cache :
        Cardinality({Consumer(id) : id \in {i \in Requests : /\ Msg[i].kv /\ sent[i] = 1
                                                              /\ CacheKey(i) = c.key}}) < Expected

\* Answered, or merged with a read of the same request id that is.
Answered(id) ==
    \/ sent[id] = 1
    \/ id \in nic.merged /\ \E j \in Requests \ {id} : Msg[j].req = Msg[id].req /\ sent[j] = 1

\* Every read and write that reaches the node is answered.
AllAnswered == <>(\A id \in Requests : Answered(id))

\* When nothing is left to happen (the network and the memory are empty and the
\* clock is off), what was put in the response queue has been drained, also with
\* golem_dma_credit_cap 0 (parse_dma_runtime_invariants: enqueued = drained).
ResponsesDrained ==
    net = {} /\ nic.pending = {} /\ nic.ingress = <<>> /\ ~nic.clockOn => nic.queue = <<>>
=============================================================================
