-------------------------- MODULE GlobalMemoryDma --------------------------
(* The DMA read engine of one core's GlobalMemory (globalmemory/globalmemory.cc):
   transfers split in bursts, a window of issued READs with time-outs and
   retries under one request id, a send queue in front of a network that may
   refuse, replies that land in local memory through a bounded write port, and
   the generation fence that an attention worker opens, retires or cancels.

   Abstracted: addresses (a burst is <<transfer, index>>, which stands for its
   request id too: ids are never reused), data (a chunk is written or not),
   cycle counts (an event happens at any time).  The port model of the local
   memory is the one without bank scheduler and with one write port.  DMA writes
   and controlled reads are not in this module. *)
EXTENDS Integers, Sequences, FiniteSets, Functions

CONSTANTS
    Bursts,       \* bound: the transfers, by their READs: ceil(length / dma_burst_bytes)
    LandChunks,   \* local writes of a full burst: ceil(length / localAccessMaxRequestBytes_)
    TailChunks,   \* local writes of the last burst of a transfer, which may be shorter
    MaxInflight,  \* dma_read_max_inflight
    RetryTicks,   \* dma_read_retry_ticks
    MaxRetries,   \* dma_read_max_retries
    QueueDepth,   \* localAccessQueueDepth_
    Generations   \* bound: attention generations of the core

ASSUME DmaAssumption ==
    /\ Bursts \in Seq(Nat \ {0})
    /\ {LandChunks, TailChunks, MaxInflight, RetryTicks, QueueDepth} \subseteq Nat \ {0}
    /\ TailChunks <= LandChunks
    /\ {MaxRetries, Generations} \subseteq Nat

VARIABLES
    fence,     \* active generation (0: none) and the generations begun so far
    dma,       \* dma_pending: READs without an answer
    sendQ,     \* send_retry_queue, the READs in it
    net,       \* READs and DMA_READ_COMPLETEs under way, with their number
    landings,  \* pendingDmaLandings_
    local,     \* localWriteQueue_, its head being served
    xfer,      \* DmaContext of each transfer
    mem        \* how often each chunk of the destination has been written

vars == <<fence, dma, sendQ, net, landings, local, xfer, mem>>

Xid == DOMAIN Bursts
Rid == UNION {{t} \X (1 .. Bursts[t]) : t \in Xid}
Chunk == 1 .. LandChunks

\* The local writes of a burst.
Lands(id) == IF id[2] < Bursts[id[1]] THEN LandChunks ELSE TailChunks

Gen == 0 .. Generations

\* PendingDmaOp
Op == [id : Rid, gen : Gen, issued : BOOLEAN, sent : BOOLEAN, ticks : 0 .. RetryTicks,
       tries : 0 .. MaxRetries]

\* PendingDmaLanding
Landing == [id : Rid, gen : Gen, offset : 0 .. LandChunks, inFlight : BOOLEAN]

\* PendingLocalAccess of a landing.
Access == [owner : Rid, chunk : Chunk, gen : Gen, cancelled : BOOLEAN]

\* DmaContext, dma_completion_tokens of it, and what its callback was told.
Context == [gen : Gen, remaining : Nat, ok : BOOLEAN, token : BOOLEAN,
            status : {"idle", "active", "ok", "failed", "cancelled"}]

TypeOK ==
    /\ fence \in [active : Gen, begun : Gen]
    /\ dma \subseteq Op
    /\ sendQ \in Seq(Rid)
    /\ net \in [Rid -> [read : Nat, reply : Nat]]
    /\ landings \subseteq Landing
    /\ local \in Seq(Access) /\ Len(local) <= QueueDepth
    /\ xfer \in [Xid -> Context]
    /\ mem \in [Rid -> [Chunk -> Nat]]

Init ==
    /\ fence = [active |-> 0, begun |-> 0]
    /\ dma = {} /\ sendQ = <<>> /\ landings = {} /\ local = <<>>
    /\ net = [r \in Rid |-> [read |-> 0, reply |-> 0]]
    /\ xfer = [t \in Xid |-> [gen |-> 0, remaining |-> Bursts[t], ok |-> TRUE, token |-> FALSE,
                              status |-> "idle"]]
    /\ mem = [r \in Rid |-> [c \in Chunk |-> 0]]

-----------------------------------------------------------------------------
(* Sending.  io is [dma, q, net]. *)

\* The orders in which a loop over an unordered_map can visit the set S.
Orders(S) == Bijection(1 .. Cardinality(S), S)

\* link_control->send and mark_dma_read_sent for the READs of s.
Transmit(io, s) ==
    [dma |-> {IF op.id \in Range(s) THEN [op EXCEPT !.sent = TRUE, !.ticks = RetryTicks]
                                    ELSE op : op \in io.dma},
     q   |-> io.q,
     net |-> [id \in Rid |->
        [io.net[id] EXCEPT !.read = @ + Cardinality({i \in DOMAIN s : s[i] = id})]]]

\* issue_dma_read_chunk for the READs of s in turn.  try_send_or_queue flushes the
\* queue first and sends only from its front, so that of the queue followed by s
\* the network takes as many as it has room for, and the rest is queued.
SendReads(io, s, room) ==
    LET all == io.q \o s
        n   == IF room < Len(all) THEN room ELSE Len(all)
    IN  Transmit([io EXCEPT !.q = SubSeq(all, n + 1, Len(all))], SubSeq(all, 1, n))

\* How much room the network can have during these calls; without one, the queue
\* is not flushed.
Room(q, s) == IF s = <<>> THEN {0} ELSE 0 .. Len(q) + Len(s)

Issued(ops)   == {op \in ops : op.issued}
Unissued(ops) == {op.id : op \in {o \in ops : ~o.issued}}

\* Mutant: the window keeps one place free.
WindowsOneShort(ops) ==
    LET room == MaxInflight - Cardinality(Issued(ops)) - 1
        n    == Cardinality(Unissued(ops))
        k    == IF room < 0 THEN 0 ELSE IF room < n THEN room ELSE n
    IN  {s \in [1 .. k -> Unissued(ops)] : IsInjective(s)}

\* What issue_pending_dma_read_window can issue: as many as the window has room
\* for, in the order of an unordered_map.
Windows(ops) ==
    LET room == MaxInflight - Cardinality(Issued(ops))
        n    == Cardinality(Unissued(ops))
        k    == IF room < 0 THEN 0 ELSE IF room < n THEN room ELSE n
    IN  {s \in [1 .. k -> Unissued(ops)] : IsInjective(s)}

MarkIssued(ops, ids) ==
    {IF op.id \in ids THEN [op EXCEPT !.issued = TRUE, !.sent = FALSE, !.ticks = RetryTicks]
                      ELSE op : op \in ops}

\* An event ends with issue_pending_dma_read_window.
EndWith(ops, q, n) ==
    \E s \in Windows(ops) : \E room \in Room(q, s) :
        LET io == SendReads([dma |-> MarkIssued(ops, Range(s)), q |-> q, net |-> n], s, room)
        IN  dma' = io.dma /\ sendQ' = io.q /\ net' = io.net

-----------------------------------------------------------------------------
(* Completion and landing. *)

\* Mutant: the last burst decides.
FinishLastWins(x, ok) ==
    LET left == [x EXCEPT !.remaining = @ - 1, !.ok = ok]
    IN  IF left.remaining > 0 THEN left
        ELSE [left EXCEPT !.token = TRUE, !.status = IF left.ok THEN "ok" ELSE "failed"]

\* finishDmaReadLanding
Finish(x, ok) ==
    LET left == [x EXCEPT !.remaining = @ - 1, !.ok = @ /\ ok]
    IN  IF left.remaining > 0 THEN left
        ELSE [left EXCEPT !.token = TRUE, !.status = IF left.ok THEN "ok" ELSE "failed"]

\* process_dma_read_retries gives up on n bursts of a transfer: the context is
\* completed and its callback told, its token left as it is.
Forced(x, n) ==
    LET left == [x EXCEPT !.remaining = @ - n, !.ok = FALSE]
    IN  IF n = 0 THEN x
        ELSE IF left.remaining > 0 THEN left ELSE [left EXCEPT !.status = "failed"]

\* The access that writes the next chunk of a landing: localWriteAsync stamps it
\* with the generation that is active now.
NextAccess(l) ==
    [owner |-> l.id, chunk |-> l.offset + 1, gen |-> fence.active, cancelled |-> FALSE]

\* issueNextDmaLandingChunk: st is [landings, local].  localWriteAsync refuses when
\* the queue is full, of landings or (crowded) of accesses of other clients; the
\* landing is then tried again by the retry event.
SubmitChunk(st, l, crowded) ==
    IF crowded \/ Len(st.local) >= QueueDepth THEN [st EXCEPT !.landings = @ \cup {l}]
    ELSE [landings |-> st.landings \cup {[l EXCEPT !.inFlight = TRUE]},
          local |-> Append(st.local, NextAccess(l))]

Valid(gen) == gen = 0 \/ gen = fence.active

\* Mutant: queued accesses are carried out whatever became of their generation.
MayWriteAlways(a) == TRUE

\* The test of handleLocalAccessEvent.
MayWrite(a) == ~a.cancelled /\ Valid(a.gen)

\* Mutant: a reply leaves its READ pending.
TakenStays(id) == {}

\* What a reply takes from dma_pending.
Taken(id) == {op \in dma : op.id = id}

-----------------------------------------------------------------------------
(* Actions. *)

\* dma_read_from_host_to_globalmem_impl
StartRead(t) ==
    LET ops == {[id |-> <<t, b>>, gen |-> fence.active, issued |-> FALSE, sent |-> FALSE,
                 ticks |-> RetryTicks, tries |-> 0] : b \in 1 .. Bursts[t]}
    IN  /\ xfer[t].status = "idle"
        /\ xfer' = [xfer EXCEPT ![t].status = "active", ![t].gen = fence.active]
        /\ EndWith(dma \cup ops, sendQ, net)
        /\ UNCHANGED <<fence, landings, local, mem>>

\* handleSelfEvent and process_dma_read_retries: READs without an answer count
\* down, are sent again under their id, or are given up.
SelfEvent ==
    LET due    == {op \in dma : op.sent /\ op.ticks = 0}
        again  == {op \in due : op.tries < MaxRetries}
        lost   == due \ again
        counted == {CASE op \in again -> [op EXCEPT !.tries = @ + 1, !.sent = FALSE]
                      [] op.sent /\ op.ticks > 0 -> [op EXCEPT !.ticks = @ - 1]
                      [] OTHER -> op : op \in dma \ lost}
    IN  /\ \E op \in dma : op.sent
        /\ \E s \in Orders({op.id : op \in again}) : \E room \in Room(sendQ, s) :
              LET io == SendReads([dma |-> counted, q |-> sendQ, net |-> net], s, room)
              IN  EndWith(io.dma, io.q, io.net)
        /\ xfer' = [t \in Xid |-> Forced(xfer[t], Cardinality({op \in lost : op.id[1] = t}))]
        /\ UNCHANGED <<fence, landings, local, mem>>

\* handle_send_available
SendAvailable ==
    /\ sendQ # <<>>
    /\ \E room \in 1 .. Len(sendQ) :
          LET io == SendReads([dma |-> dma, q |-> sendQ, net |-> net], <<>>, room)
          IN  dma' = io.dma /\ sendQ' = io.q /\ net' = io.net
    /\ UNCHANGED <<fence, landings, local, xfer, mem>>

\* The memory node answers a READ.  A copy that comes while another one is being
\* served is dropped if the node shares its reads, else it gets its own reply.
MemoryServes(id) ==
    /\ net[id].read > 0
    /\ \/ net' = [net EXCEPT ![id].read = @ - 1, ![id].reply = @ + 1]
       \/ net[id].read > 1 /\ net' = [net EXCEPT ![id].read = @ - 1]
    /\ UNCHANGED <<fence, dma, sendQ, landings, local, xfer, mem>>

\* handle_receives for DMA_READ_COMPLETE: without a pending READ (the answer to a
\* retry, or to a READ given up or cancelled) it is ignored.
ReceiveReply(id, crowded) ==
    LET found == {op \in dma : op.id = id}
        taken == {op \in found : Valid(op.gen)}
        st    == [landings |-> landings, local |-> local]
        land(op) == SubmitChunk(st, [id |-> id, gen |-> op.gen, offset |-> 0, inFlight |-> FALSE],
                                 crowded)
    IN  /\ net[id].reply > 0
        /\ EndWith(dma \ Taken(id), sendQ, [net EXCEPT ![id].reply = @ - 1])
        /\ \/ taken = {} /\ UNCHANGED <<landings, local>>
           \/ \E op \in taken : landings' = land(op).landings /\ local' = land(op).local
        /\ UNCHANGED <<fence, xfer, mem>>

\* handleLocalAccessEvent for request 0, retryDmaLandingChunks: as many of the
\* stalled landings as the queue has room for.
RetryLandings ==
    LET stalled == {l \in landings : ~l.inFlight}
        free    == QueueDepth - Len(local)
    IN  /\ stalled # {} /\ free > 0
        /\ \E s \in Orders(stalled) :
              LET k  == IF free < Len(s) THEN free ELSE Len(s)
                  go == SubSeq(s, 1, k)
              IN  /\ landings' = {IF l \in Range(go) THEN [l EXCEPT !.inFlight = TRUE] ELSE l :
                                      l \in landings}
                  /\ local' = local \o [i \in 1 .. k |-> NextAccess(s[i])]
        /\ UNCHANGED <<fence, dma, sendQ, net, xfer, mem>>

\* handleLocalAccessEvent: the access at the port is over; its callback ends the
\* landing, fails it, or submits its next chunk.
LocalDone(crowded) ==
    LET a     == Head(local)
        ok    == MayWrite(a)
        found == {l \in landings : l.id = a.owner}
        rest  == [landings |-> landings \ found, local |-> Tail(local)]
    IN  /\ local # <<>>
        /\ mem' = IF ok THEN [mem EXCEPT ![a.owner][a.chunk] = @ + 1] ELSE mem
        /\ IF found = {} THEN landings' = landings /\ local' = Tail(local) /\ UNCHANGED xfer
           ELSE \E l \in found :
              LET next == [l EXCEPT !.offset = @ + 1, !.inFlight = FALSE]
                  st   == SubmitChunk(rest, next, crowded)
              IN  IF ok /\ next.offset < Lands(l.id)
                  THEN landings' = st.landings /\ local' = st.local /\ UNCHANGED xfer
                  ELSE /\ landings' = rest.landings /\ local' = rest.local
                       /\ xfer' = [xfer EXCEPT ![l.id[1]] = Finish(@, ok)]
        /\ UNCHANGED <<fence, dma, sendQ, net>>

\* beginAttentionGeneration
BeginGeneration ==
    /\ fence.active = 0 /\ fence.begun < Generations
    /\ fence' = [active |-> fence.begun + 1, begun |-> fence.begun + 1]
    /\ UNCHANGED <<dma, sendQ, net, landings, local, xfer, mem>>

\* attentionGenerationDrained
Drained(g) ==
    /\ \A op \in dma : op.gen # g
    /\ \A i \in DOMAIN local : local[i].gen # g
    /\ \A l \in landings : l.gen # g

\* finishAttentionWorker(true) with a drained memory: retireAttentionGeneration.
RetireGeneration ==
    /\ fence.active # 0 /\ Drained(fence.active)
    /\ fence' = [fence EXCEPT !.active = 0]
    /\ UNCHANGED <<dma, sendQ, net, landings, local, xfer, mem>>

\* finishAttentionWorker in every other case: cancelAttentionGeneration drops
\* what belongs to the generation; no callback of its transfers is called.
CancelGeneration ==
    LET g == fence.active
    IN  /\ g # 0
        /\ fence' = [fence EXCEPT !.active = 0]
        /\ landings' = {l \in landings : l.gen # g}
        /\ local' = [i \in DOMAIN local |->
               [local[i] EXCEPT !.cancelled = @ \/ local[i].gen = g]]
        /\ xfer' = [t \in Xid |->
               IF xfer[t].status = "active" /\ xfer[t].gen = g
               THEN [xfer[t] EXCEPT !.status = "cancelled"] ELSE xfer[t]]
        /\ EndWith({op \in dma : op.gen # g}, sendQ, net)
        /\ UNCHANGED mem

Progress ==
    \/ SelfEvent \/ SendAvailable \/ RetryLandings
    \/ \E id \in Rid : MemoryServes(id)
    \/ \E crowded \in BOOLEAN : LocalDone(crowded) \/ \E id \in Rid : ReceiveReply(id, crowded)

Next ==
    \/ Progress
    \/ \E t \in Xid : StartRead(t)
    \/ BeginGeneration \/ RetireGeneration \/ CancelGeneration

Spec == Init /\ [][Next]_vars

\* An event is pending: Progress is enabled.
Pending ==
    \/ \E op \in dma : op.sent
    \/ sendQ # <<>> \/ local # <<>> \/ \E l \in landings : ~l.inFlight
    \/ \E id \in Rid : net[id].read > 0 \/ net[id].reply > 0

\* The simulation does not stop while an event is pending: clocks, network,
\* memory node and local memory go on, in any order.  (Weak fairness of Progress,
\* its enabling condition spelled out: a step is one unless it opens or closes a
\* generation or starts a transfer.)
Goes == fence' = fence /\ \A t \in Xid : xfer[t].status = "idle" => xfer'[t].status = "idle"
FairSpec == Spec /\ ([]<>~Pending \/ []<><<Goes>>_vars)

-----------------------------------------------------------------------------
(* Properties. *)

\* A context counts exactly the bursts that are unanswered or landing: none is
\* counted twice when a reply, a time-out and a retry of it race.
RemainingExact ==
    \A t \in Xid : xfer[t].status = "active" =>
        xfer[t].remaining = Cardinality({op \in dma : op.id[1] = t})
                            + Cardinality({l \in landings : l.id[1] = t})

\* A transfer reported as successful is in local memory, every chunk of it written
\* once, whatever was retried, answered twice or stalled at the port.
OkMeansLanded ==
    \A t \in Xid : xfer[t].status = "ok" =>
        \A b \in 1 .. Bursts[t] : \A c \in 1 .. Lands(<<t, b>>) : mem[<<t, b>>][c] = 1

\* Once the callback was called or the generation cancelled, late replies and
\* queued local writes no longer touch the destination, which the client reuses.
NoLateWrite ==
    [][\A r \in Rid : mem'[r] # mem[r] => xfer[r[1]].status = "active"]_vars

\* Every transfer ends: it succeeds, is given up, or its generation is cancelled.
EveryReadEnds ==
    \A t \in Xid : xfer[t].status = "active" ~> xfer[t].status # "active"
=============================================================================
