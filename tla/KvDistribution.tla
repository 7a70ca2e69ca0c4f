--------------------------- MODULE KvDistribution ---------------------------
(***************************************************************************)
(* K/V tile distribution of one worker group (groupctrl/groupctrl.cc): a   *)
(* worker asks its manager for a K/V tile; the manager loads each tile     *)
(* from HBM into one of a few scratch slots, reads it out, sends it to     *)
(* every worker of the group that asks for it, and frees the slot when all *)
(* of them have acknowledged.  A worker that fails cancels its job.        *)
(*                                                                         *)
(* Actors that interleave: the attention workers, their endpoints' local   *)
(* writes, both directions of the links, HBM DMA (any order) and the       *)
(* manager's local reads (in order).                                       *)
(*                                                                         *)
(* A tile is <<job, ordinal>>; its bytes are the tile itself.  A worker    *)
(* asks once for a tile and every worker runs every job, so the tile also  *)
(* stands for the request id, and requests for one tile are always         *)
(* compatible.  Generations are numbers that every worker counts for       *)
(* itself, so two workers may have different ones for the same job.  The   *)
(* manager's read-out of one operand is one local read; a worker writes an *)
(* operand in chunks.  All tiles of a job have the same size.              *)
(***************************************************************************)
EXTENDS Integers, Sequences, FiniteSets, SequencesExt

CONSTANTS
    Workers,     \* workers of the group (attentionKvDistributionExpectedWorkers_)
    NumSlots,    \* attentionKvDistributionSlots_
    QueueDepth,  \* queueDepth_
    JobTable,    \* bound: the jobs, [tiles, chunks]: the K/V tiles of a job and
                 \* the local writes per operand of a tile
    Scenarios    \* bound: [first, last, lookahead, gens, aborts, faults]: the
                 \* jobs that run, attentionKvManagerLookahead_, the generations
                 \* a worker may be at, the workers that fail for a reason of
                 \* their own and the memory accesses that fail

ASSUME KvAssumption ==
    /\ IsFiniteSet(Workers) /\ Workers # {} /\ NumSlots \in Nat \ {0}
    /\ QueueDepth \in Nat /\ QueueDepth >= 2
    /\ \A j \in DOMAIN JobTable : {JobTable[j].tiles, JobTable[j].chunks} \subseteq Nat \ {0}
    /\ \A c \in Scenarios :
          /\ {c.first, c.last} \subseteq DOMAIN JobTable
          /\ c.gens \in Nat \ {0} /\ {c.aborts, c.faults} \subseteq Nat

VARIABLES
    mgr,     \* the manager endpoint, its scratch memory, loads and down links
    up,      \* up[w]: link from worker w to the manager
    worker,  \* worker[w]: attention worker w and its endpoint
    buf,     \* buf[w][b]: K and V in double buffer b of worker w
    env      \* the last job, the failures still possible, and whether one occurred

vars == <<mgr, up, worker, buf, env>>

-----------------------------------------------------------------------------
(* State. *)

Jobs     == DOMAIN JobTable
Tiles(j) == JobTable[j].tiles
Tile     == UNION {{j} \X (0 .. Tiles(j) - 1) : j \in Jobs}
NoTile   == <<0, 0>>
TileOpt  == Tile \cup {NoTile}
SlotIds  == 1 .. NumSlots
Operands == {"K", "V"}
Pair     == [Operands -> TileOpt]
NoPair   == [o \in Operands |-> NoTile]

\* gen: the generation of the request that started the slot; subs[w]: the
\* generation of subscriber w, 0 for none.
Slot ==
    [ occupied : BOOLEAN, epoch : Nat, gen : Nat, tile : TileOpt, failed : BOOLEAN,
      speculative : BOOLEAN, loading : SUBSET Operands, readInflight : BOOLEAN,
      data : Pair, subs : [Workers -> Nat], delivered : SUBSET Workers,
      completed : SUBSET Workers, cancelled : SUBSET Workers ]

FreeSlot ==
    [ occupied |-> FALSE, epoch |-> 0, gen |-> 0, tile |-> NoTile, failed |-> FALSE,
      speculative |-> FALSE, loading |-> {}, readInflight |-> FALSE,
      data |-> NoPair, subs |-> [w \in Workers |-> 0], delivered |-> {},
      completed |-> {}, cancelled |-> {} ]

\* requestedMask.
Requested(s) == {w \in Workers : s.subs[w] # 0}

Delivery == [tile : Tile, ok : BOOLEAN, data : Pair]
Transfer == [slot : SlotIds, epoch : Nat, operand : Operands, tile : Tile]

Manager ==
    [ lookahead : BOOLEAN, slots : [SlotIds -> Slot], pending : Seq([w : Workers, tile : Tile, gen : Nat]),
      nextEpoch : Nat, down : [Workers -> Seq(Delivery)], dma : SUBSET Transfer, reads : Seq(Transfer),
      scratch : [SlotIds -> Pair] ]

UpMsg   == [kind : {"REQUEST", "ACK", "CANCEL"}, tile : TileOpt, gen : Nat]
Landing == [tile : Tile, operand : Operands, offset : Nat, inflight : BOOLEAN, data : Pair]
Write   == [tile : Tile, operand : Operands, value : TileOpt]

Worker ==
    [ job : 1 .. Len(JobTable) + 1, gen : Nat, next : Nat, callbacks : SUBSET Tile,
      kReady : SUBSET Tile, done : SUBSET Tile, landings : SUBSET Landing,
      writes : Seq(Write) ]

(* Slots, links, loads and landings keep the ranges of the C++ structures. *)
TypeOK ==
    /\ mgr \in Manager
    /\ up \in [Workers -> Seq(UpMsg)]
    /\ worker \in [Workers -> Worker]
    /\ buf \in [Workers -> [{0, 1} -> Pair]]
    /\ env \in [last : Jobs, aborts : Nat, faults : Nat, failed : BOOLEAN]

-----------------------------------------------------------------------------
(* The manager. *)

Matching(m, t) == {i \in SlotIds : m.slots[i].occupied /\ m.slots[i].tile = t}
FreeSlots(m)   == {i \in SlotIds : ~m.slots[i].occupied}
Lowest(S)      == CHOOSE i \in S : \A j \in S : i <= j

Fail(m, w, t) ==
    [m EXCEPT !.down[w] = Append(@, [tile |-> t, ok |-> FALSE, data |-> NoPair])]

\* deliverAttentionKvSlot: once ready, answer every subscriber not yet answered.
DeliverSlot(m, i) ==
    LET s     == m.slots[i]
        ready == s.failed \/ \A o \in Operands : s.data[o] # NoTile
        msg   == [tile |-> s.tile, ok |-> ~s.failed,
                  data |-> IF s.failed THEN NoPair ELSE s.data]
    IN  IF ~s.occupied \/ ~ready THEN m
        ELSE [m EXCEPT !.slots[i].delivered = Requested(s),
                       !.down = [w \in Workers |->
                           IF w \in Requested(s) \ s.delivered THEN Append(m.down[w], msg)
                           ELSE m.down[w]]]

\* startAttentionKvSlot and both issueAttentionKvDma.
StartSlot(m, i, t, gen, speculative) ==
    [m EXCEPT !.slots[i] = [FreeSlot EXCEPT !.occupied = TRUE, !.epoch = m.nextEpoch,
                                !.gen = gen, !.tile = t, !.loading = Operands, !.speculative = speculative],
              !.nextEpoch = @ + 1,
              !.dma = @ \cup {[slot |-> i, epoch |-> m.nextEpoch, operand |-> o, tile |-> t] :
                                  o \in Operands}]

\* r = [w, tile, gen]: a request of worker w.
Subscribe(m, i, r) ==
    [m EXCEPT !.slots[i].subs[r.w] = r.gen, !.slots[i].speculative = FALSE]

Load(m, i, r) == Subscribe(StartSlot(m, i, r.tile, r.gen, FALSE), i, r)

\* Seeded fault: an existing slot is not looked for.
OnRequestNoCoalescing(m, r) ==
    IF FreeSlots(m) # {} THEN Load(m, Lowest(FreeSlots(m)), r)
    ELSE [m EXCEPT !.pending = Append(@, r)]

\* handleAttentionKvRequest: coalesce, load, queue or refuse.
OnRequest(m, r) ==
    IF Matching(m, r.tile) # {}
    THEN LET i == Lowest(Matching(m, r.tile)) IN
         IF r.w \in Requested(m.slots[i]) THEN Fail(m, r.w, r.tile)
         ELSE DeliverSlot(Subscribe(m, i, r), i)
    ELSE IF FreeSlots(m) # {} THEN Load(m, Lowest(FreeSlots(m)), r)
    ELSE IF Len(m.pending) >= QueueDepth THEN Fail(m, r.w, r.tile)
    ELSE [m EXCEPT !.pending = Append(@, r)]

\* processPendingAttentionKvRequests: serve the queue in order up to the first
\* request that neither finds its tile nor a free slot.
ProcessPending(m) ==
    FoldLeft(LAMBDA acc, r :
                IF acc.pending = <<>> /\ Matching(acc, r.tile) \cup FreeSlots(acc) # {}
                THEN OnRequest(acc, r)
                ELSE [acc EXCEPT !.pending = Append(@, r)],
             [m EXCEPT !.pending = <<>>], m.pending)

PastEnd(t) == t[2] >= Tiles(t[1])

\* maybeStartAttentionKvLookahead: load the tile after the farthest known one.
StartLookahead(m, released) ==
    LET job  == released.tile[1]
        held == {m.slots[i].tile[2] : i \in {j \in SlotIds :
                     m.slots[j].occupied /\ m.slots[j].tile[1] = job}}
        far  == CHOOSE n \in held \cup {released.tile[2]} :
                    \A k \in held \cup {released.tile[2]} : k <= n
    IN  IF \/ ~m.lookahead \/ released.failed \/ m.pending # <<>>
           \/ FreeSlots(m) = {} \/ PastEnd(<<job, far + 1>>)
        THEN m
        ELSE StartSlot(m, Lowest(FreeSlots(m)), <<job, far + 1>>, released.gen, TRUE)

\* maybeReleaseAttentionKvSlot: every expected worker asked or cancelled, and
\* every one completed or cancelled.
MaybeRelease(m, i, lookahead) ==
    LET s == m.slots[i] IN
    IF \/ ~s.occupied
       \/ Requested(s) \cup s.cancelled # Workers
       \/ s.completed \cup s.cancelled # Workers
    THEN m
    ELSE LET freed == ProcessPending([m EXCEPT !.slots[i] = FreeSlot]) IN
         IF lookahead THEN StartLookahead(freed, s) ELSE freed

\* handleAttentionKvAck.
OnAck(m, w, t) ==
    LET found == {i \in Matching(m, t) : w \in Requested(m.slots[i])}
    IN  IF found = {} THEN m
        ELSE MaybeRelease([m EXCEPT !.slots[Lowest(found)].completed = @ \cup {w}],
                          Lowest(found), TRUE)

\* Seeded fault: a cancel frees the slots of its generation whoever else waits
\* on them.
OnCancelFreesSlots(m, w, gen) ==
    [m EXCEPT !.slots = [i \in SlotIds |-> IF @[i].gen = gen THEN FreeSlot ELSE @[i]]]

\* handleAttentionKvCancel: slots in order, then the worker's queued requests.
\* A slot is known by the generation of whoever started it, so the cancel of a
\* worker with another count misses its own slots and may meet those of
\* another job.
OnCancel(m, w, gen) ==
    LET CancelSlot(acc, i) ==
            LET s == acc.slots[i] IN
            IF ~s.occupied \/ s.gen # gen THEN acc
            ELSE MaybeRelease(IF s.subs[w] = gen
                              THEN [acc EXCEPT !.slots[i].completed = @ \cup {w}]
                              ELSE [acc EXCEPT !.slots[i].cancelled = @ \cup {w}], i, FALSE)
        swept == FoldLeft(CancelSlot, m, [i \in SlotIds |-> i])
    IN  [swept EXCEPT !.pending = SelectSeq(@, LAMBDA r : r.w # w \/ r.gen # gen)]

\* Seeded fault: the read-out does not wait for the loads.
PumpReadDuringLoad(m, i, accepted) ==
    LET s == m.slots[i] IN
    IF ~s.occupied \/ s.failed \/ s.readInflight \/ ~accepted THEN m
    ELSE IF s.data["V"] # NoTile THEN DeliverSlot(m, i)
    ELSE [m EXCEPT !.slots[i].readInflight = TRUE,
                   !.reads = Append(@, [slot |-> i, epoch |-> s.epoch, tile |-> s.tile,
                       operand |-> IF s.data["K"] = NoTile THEN "K" ELSE "V"])]

\* pumpAttentionKvManagerRead: K, then V, then deliver.
PumpRead(m, i, accepted) ==
    LET s  == m.slots[i]
        op == IF s.data["K"] = NoTile THEN "K" ELSE "V"
    IN  IF ~s.occupied \/ s.failed \/ s.readInflight \/ s.loading # {} THEN m
        ELSE IF s.data["V"] # NoTile THEN DeliverSlot(m, i)
        ELSE IF ~accepted THEN m
        ELSE [m EXCEPT !.slots[i].readInflight = TRUE,
                       !.reads = Append(@, [slot |-> i, epoch |-> s.epoch,
                                            operand |-> op, tile |-> s.tile])]

Current(m, x) == m.slots[x.slot].occupied /\ m.slots[x.slot].epoch = x.epoch

\* completeAttentionKvDma; the fence drops answers for an earlier occupant.
OnDma(m, d, ok, accepted) ==
    LET landed == [m EXCEPT !.dma = @ \ {d},
                            !.scratch[d.slot][d.operand] = IF ok THEN d.tile ELSE @]
        marked == [landed EXCEPT !.slots[d.slot].loading = @ \ {d.operand},
                                 !.slots[d.slot].failed = @ \/ ~ok]
    IN  IF ~Current(m, d) THEN landed
        ELSE IF marked.slots[d.slot].loading # {} THEN marked
        ELSE IF marked.slots[d.slot].failed THEN DeliverSlot(marked, d.slot)
        ELSE PumpRead(marked, d.slot, accepted)

\* Seeded fault: the scratch address is off by one slot.
OnReadWrongSlot(m, ok, accepted) ==
    LET x == Head(m.reads)
        popped == [m EXCEPT !.reads = Tail(@)]
    IN  PumpRead([popped EXCEPT !.slots[x.slot].readInflight = FALSE,
                                !.slots[x.slot].data[x.operand] =
                                    m.scratch[(x.slot % NumSlots) + 1][x.operand]],
                 x.slot, accepted)

\* The callback of the manager's local read.
OnRead(m, ok, accepted) ==
    LET x      == Head(m.reads)
        popped == [m EXCEPT !.reads = Tail(@)]
        back   == [popped EXCEPT !.slots[x.slot].readInflight = FALSE]
    IN  IF ~Current(m, x) THEN popped
        ELSE IF ~ok THEN DeliverSlot([back EXCEPT !.slots[x.slot].failed = TRUE], x.slot)
        ELSE PumpRead([back EXCEPT !.slots[x.slot].data[x.operand] = m.scratch[x.slot][x.operand]],
                      x.slot, accepted)

-----------------------------------------------------------------------------
(* The worker endpoint. *)

Chunks(t) == JobTable[t[1]].chunks
BufferOf(t) == t[2] % 2

\* pumpWorkerAttentionKvDelivery for one landing with no write in flight.
Submit(x, l) ==
    [x EXCEPT !.landings = (@ \ {l}) \cup {[l EXCEPT !.inflight = TRUE]},
              !.writes = Append(@, [tile |-> l.tile, operand |-> l.operand,
                                    value |-> l.data[l.operand]])]

PumpLanding(x, l, accepted) == IF accepted THEN Submit(x, l) ELSE x

Init ==
    \E c \in Scenarios : \E gens \in [Workers -> 1 .. c.gens] :
    /\ mgr = [lookahead |-> c.lookahead, slots |-> [i \in SlotIds |-> FreeSlot],
              pending |-> <<>>, nextEpoch |-> 1, down |-> [w \in Workers |-> <<>>], dma |-> {},
              reads |-> <<>>, scratch |-> [i \in SlotIds |-> NoPair]]
    /\ up = [w \in Workers |-> <<>>]
    /\ worker = [w \in Workers |->
          [job |-> c.first, gen |-> gens[w], next |-> 0, callbacks |-> {}, kReady |-> {}, done |-> {},
           landings |-> {}, writes |-> <<>>]]
    /\ buf = [w \in Workers |-> [b \in {0, 1} |-> NoPair]]
    /\ env = [last |-> c.last, aborts |-> c.aborts, faults |-> c.faults, failed |-> FALSE]

SendUp(w, kind, t) ==
    [up EXCEPT ![w] = Append(@, [kind |-> kind, tile |-> t, gen |-> worker[w].gen])]

\* The worker's next job after this one succeeded or failed.
NextJob(x) ==
    [x EXCEPT !.job = x.job + 1, !.gen = x.gen + 1, !.next = 0, !.done = {}, !.kReady = {},
              !.callbacks = {}, !.landings = {}]

\* completeWorkerAttentionKvDelivery(t, false) and what its callback leads to:
\* the acknowledgement, and the failure of the job, which cancels the rest.
FailTile(w, x, t) ==
    /\ worker' = [worker EXCEPT ![w] = NextJob(x)]
    /\ up' = [up EXCEPT ![w] = @ \o <<[kind |-> "ACK", tile |-> t, gen |-> x.gen],
                                      [kind |-> "CANCEL", tile |-> NoTile, gen |-> x.gen]>>]

\* An access of the memories may fail.
Fault(ok) ==
    /\ ~ok => env.faults > 0
    /\ env' = IF ok THEN env ELSE [env EXCEPT !.faults = @ - 1, !.failed = TRUE]

-----------------------------------------------------------------------------
(* Actions. *)

\* loadAttentionKvPairToLocal as the double-buffered worker calls it: tile 1
\* once tile 0 is complete, a later tile when K of the previous one has landed
\* and the one before, whose buffer it takes, is complete and consumed.
CanRequest(x) ==
    /\ x.job <= env.last /\ x.next < Tiles(x.job)
    /\ x.next = 1 => <<x.job, 0>> \in x.done
    /\ x.next > 1 => <<x.job, x.next - 1>> \in x.kReady
    /\ x.next > 1 => <<x.job, x.next - 2>> \in x.done
RequestTile(w) ==
    LET x == worker[w]
        t == <<x.job, x.next>>
    IN  /\ CanRequest(x)
        /\ worker' = [worker EXCEPT ![w].next = @ + 1, ![w].callbacks = @ \cup {t}]
        /\ up' = SendUp(w, "REQUEST", t)
        /\ UNCHANGED <<mgr, buf, env>>

CanFinish(x) == x.job <= env.last /\ Cardinality(x.done) = Tiles(x.job)
FinishJob(w) ==
    /\ CanFinish(worker[w])
    /\ worker' = [worker EXCEPT ![w] = NextJob(@)]
    /\ UNCHANGED <<mgr, up, buf, env>>

\* finishAttentionWorker(false): cancelAttentionKvGeneration.
AbortJob(w) ==
    /\ worker[w].job <= env.last /\ env.aborts > 0
    /\ env' = [env EXCEPT !.aborts = @ - 1, !.failed = TRUE]
    /\ worker' = [worker EXCEPT ![w] = NextJob(@)]
    /\ up' = SendUp(w, "CANCEL", NoTile)
    /\ UNCHANGED <<mgr, buf>>

\* handleAttentionKvDelivery.  A failed delivery is acknowledged and fails the
\* job; one whose request was cancelled is dropped.
HandleDelivery(w, accepted) ==
    LET msg == Head(mgr.down[w])
        x   == worker[w]
        l   == [tile |-> msg.tile, operand |-> "K", offset |-> 0, inflight |-> FALSE,
                data |-> msg.data]
    IN  /\ mgr.down[w] # <<>>
        /\ mgr' = [mgr EXCEPT !.down[w] = Tail(@)]
        /\ IF msg.tile \notin x.callbacks THEN UNCHANGED <<worker, up>>
           ELSE IF ~msg.ok THEN FailTile(w, x, msg.tile)
           ELSE /\ worker' = [worker EXCEPT ![w] =
                       PumpLanding([x EXCEPT !.landings = @ \cup {l}], l, accepted)]
                /\ UNCHANGED up
        /\ UNCHANGED <<buf, env>>

\* The callback of a local write: next chunk, K ready, or complete and ACK.
WriteDone(w, ok, accepted) ==
    LET x      == worker[w]
        wr     == Head(x.writes)
        popped == [x EXCEPT !.writes = Tail(@)]
        t      == wr.tile
        found  == {l \in x.landings : l.tile = t}
    IN  /\ x.writes # <<>>
        /\ Fault(ok)
        /\ buf' = IF ok THEN [buf EXCEPT ![w][BufferOf(t)][wr.operand] = wr.value] ELSE buf
        /\ IF found = {} THEN worker' = [worker EXCEPT ![w] = popped] /\ UNCHANGED up
           ELSE IF ~ok THEN FailTile(w, popped, t)
           ELSE LET l    == CHOOSE l \in found : TRUE
                    step == [l EXCEPT !.inflight = FALSE, !.offset = @ + 1]
                    rest == [popped EXCEPT !.landings = @ \ {l}]
                    asV  == [step EXCEPT !.operand = "V", !.offset = 0]
                IN  IF step.offset < Chunks(t)
                    THEN /\ worker' = [worker EXCEPT ![w] =
                                PumpLanding([rest EXCEPT !.landings = @ \cup {step}],
                                            step, accepted)]
                         /\ UNCHANGED up
                    ELSE IF l.operand = "K"
                    THEN /\ worker' = [worker EXCEPT ![w] =
                                PumpLanding([rest EXCEPT !.landings = @ \cup {asV},
                                                         !.kReady = @ \cup {t}], asV, accepted)]
                         /\ UNCHANGED up
                    ELSE /\ worker' = [worker EXCEPT ![w] =
                                [rest EXCEPT !.callbacks = @ \ {t}, !.done = @ \cup {t}]]
                         /\ up' = SendUp(w, "ACK", t)
        /\ UNCHANGED mgr

\* tick of a worker endpoint: landings whose write was refused are tried again,
\* oldest request first, until the memory refuses again.
TickWorker(w) ==
    LET idle == {l \in worker[w].landings : ~l.inflight}
    IN  /\ \E n \in 1 .. Cardinality(idle) :
              worker' = [worker EXCEPT ![w] = FoldLeft(Submit, @,
                  SubSeq(SetToSortSeq(idle, LAMBDA a, b : a.tile[2] < b.tile[2]), 1, n))]
        /\ UNCHANGED <<mgr, up, buf, env>>

\* tick of the manager endpoint: reads that were refused are tried again, until
\* the memory refuses again.
TickManager ==
    /\ \E n \in 1 .. NumSlots :
          mgr' = FoldLeft(LAMBDA m, i : PumpRead(m, i, Len(m.reads) < Len(mgr.reads) + n),
                          mgr, [i \in SlotIds |-> i])
    /\ mgr' # mgr
    /\ UNCHANGED <<up, worker, buf, env>>

\* handleReq of the manager for the three K/V messages.
HandleUp(w) ==
    LET msg == Head(up[w]) IN
    /\ up[w] # <<>>
    /\ up' = [up EXCEPT ![w] = Tail(@)]
    /\ mgr' = CASE msg.kind = "REQUEST" -> OnRequest(mgr, [w |-> w, tile |-> msg.tile, gen |-> msg.gen])
                [] msg.kind = "ACK"     -> OnAck(mgr, w, msg.tile)
                [] msg.kind = "CANCEL"  -> OnCancel(mgr, w, msg.gen)
    /\ UNCHANGED <<worker, buf, env>>

\* HBM has answered load d.
DmaDone(d, ok, accepted) ==
    /\ Fault(ok)
    /\ mgr' = OnDma(mgr, d, ok, accepted)
    /\ UNCHANGED <<up, worker, buf>>

\* The manager's local memory has answered the oldest read.
ReadDone(ok, accepted) ==
    /\ mgr.reads # <<>>
    /\ Fault(ok)
    /\ mgr' = OnRead(mgr, ok, accepted)
    /\ UNCHANGED <<up, worker, buf>>

AllDone == \A w \in Workers : worker[w].job > env.last

Idle == AllDone /\ UNCHANGED vars

Progress ==
    \/ \E w \in Workers : RequestTile(w) \/ FinishJob(w) \/ TickWorker(w) \/ HandleUp(w)
    \/ \E w \in Workers, accepted \in BOOLEAN : HandleDelivery(w, accepted)
    \/ \E w \in Workers, ok, accepted \in BOOLEAN : WriteDone(w, ok, accepted)
    \/ TickManager
    \/ \E d \in mgr.dma, ok, accepted \in BOOLEAN : DmaDone(d, ok, accepted)
    \/ \E ok, accepted \in BOOLEAN : ReadDone(ok, accepted)

Next == Progress \/ (\E w \in Workers : AbortJob(w)) \/ Idle

Spec == Init /\ [][Next]_vars

\* An event is pending: Progress is enabled.
Pending ==
    \/ mgr.dma # {} \/ mgr.reads # <<>>
    \/ \E w \in Workers :
          \/ up[w] # <<>> \/ mgr.down[w] # <<>> \/ worker[w].writes # <<>>
          \/ \E l \in worker[w].landings : ~l.inflight
          \/ CanRequest(worker[w]) \/ CanFinish(worker[w])
    \/ \E i \in SlotIds : PumpRead(mgr, i, TRUE) # mgr

\* The simulation does not stop while an event is pending: links, memory ports,
\* DMA, clocks and workers go on, in any order.  Nothing is assumed about which.
\* (Weak fairness of Progress: a step is one unless it is an abort.)
Fairness == []<>~Pending \/ []<><<env'.aborts = env.aborts>>_vars

FairSpec == Spec /\ Fairness

-----------------------------------------------------------------------------
(* Properties. *)

\* Two occupied slots never hold the same tile: requests of the group are
\* coalesced on one load however they interleave with releases and the queue.
OneSlotPerTile ==
    \A i, j \in SlotIds :
        mgr.slots[i].occupied /\ mgr.slots[j].occupied /\ i # j
            => mgr.slots[i].tile # mgr.slots[j].tile

\* A tile the worker has been told is complete is in its buffer, K and V, from
\* the callback until the buffer is given to the tile after the next, as long
\* as no access and no worker failed.
CompletedIsInPlace ==
    ~env.failed => \A w \in Workers : \A t \in worker[w].done :
        t[2] >= worker[w].next - 2 => \A o \in Operands : buf[w][BufferOf(t)][o] = t

\* Where a live request of worker w for tile t can be: on the up link, in the
\* manager's queue, subscribed to a slot and unanswered, on the down link (an
\* answer that refuses counts only after a failure), or landing.
Places(w, t) ==
    LET sent    == {n \in DOMAIN up[w] : up[w][n].kind = "REQUEST" /\ up[w][n].tile = t}
        queued  == {n \in DOMAIN mgr.pending : mgr.pending[n].w = w /\ mgr.pending[n].tile = t}
        waiting == {i \in Matching(mgr, t) :
                        w \in Requested(mgr.slots[i]) \ mgr.slots[i].delivered}
        coming  == {n \in DOMAIN mgr.down[w] : mgr.down[w][n].tile = t
                        /\ (env.failed \/ mgr.down[w][n].ok)}
        landing == {l \in worker[w].landings : l.tile = t}
    IN  Cardinality(sent) + Cardinality(queued) + Cardinality(waiting)
          + Cardinality(coming) + Cardinality(landing)

\* Every live request is in exactly one place, and unless an access or a worker
\* failed it is not refused: neither the failure of another worker of the group
\* nor its cancel loses or repeats it.
RequestAccounted == \A w \in Workers : \A t \in worker[w].callbacks : Places(w, t) = 1

\* rocc/roccAnalog.h:5114, "Local generations may differ [...], so they cannot
\* safely key shared-node coalescing": whatever generations the workers of the
\* group are at, what they share is kept for a request that is still wanted.
LiveRequestKept == \A w \in Workers : \A t \in worker[w].callbacks : Places(w, t) > 0

\* Without failures every job of every worker ends and the slots drain.
GroupFinishes ==
    []~env.failed =>
        <>[](AllDone /\ (mgr.lookahead \/ \A i \in SlotIds : ~mgr.slots[i].occupied))
=============================================================================
