-------------------------- MODULE RequestScheduler --------------------------
(***************************************************************************)
(* The group's DMA request scheduler (requestscheduler/requestscheduler.cc)*)
(* between the workers' tile engines and the memory nodes.  A worker turns *)
(* a window transaction into panel reads and submits them to its manager;  *)
(* the manager issues them chunk by chunk to the memory nodes, round-robin *)
(* and within per-worker credits and a per-tick budget; the data land in   *)
(* the worker's local memory in any order; the worker reports each         *)
(* complete panel with DONE, which gives the credit back.                  *)
(*                                                                         *)
(* Actors that interleave: the tile engines, the worker and the manager    *)
(* clocks, the control links (FIFO), the network's send window and the     *)
(* memory nodes.                                                           *)
(*                                                                         *)
(* A panel read is [t, k, s, r]: transaction, tile, operand (0 = mat,      *)
(* 1 = vec) and row; its bytes are its chunks.  All DONEs of one worker    *)
(* tick travel as one message.  The guest-software mailbox is left out.    *)
(***************************************************************************)
EXTENDS Integers, Sequences, FiniteSets, SequencesExt, FiniteSetsExt

CONSTANTS
    NumWorkers,       \* reqIn_.size()
    NumNodes,         \* numMemoryNodes_
    QueueDepth,       \* queueDepth_
    IssueBudget,      \* managerIssueBudgetPerTick_
    SubmitBatch,      \* submitBatchSize_
    Scenarios,        \* the settings to consider (see Setting)
    TxnTiles,         \* tiles of a transaction
    PanelRows,        \* reads per operand of a tile (1 unless rowMajorPanels)
    PanelChunks,      \* chunks of a read
    Txns              \* bound: transactions of a worker in any setting

\* groupRoundRobin_, eventDrivenWorker_, workerCreditCap_, tileChunkQuantum_,
\* the transactions a tile engine keeps live, the nodes between the mat and the
\* vec panel of a tile, and the transactions of each worker.
Setting ==
    [ groupRoundRobin : BOOLEAN, eventDriven : BOOLEAN, creditCap : Nat \ {0}, quantum : Nat \ {0},
      window : Nat \ {0}, skew : Nat, txns : [0 .. NumWorkers - 1 -> 0 .. Txns] ]

ASSUME SchedulerAssumption ==
    /\ {NumWorkers, NumNodes, QueueDepth, IssueBudget, SubmitBatch, TxnTiles, PanelRows,
        PanelChunks} \subseteq Nat \ {0}
    /\ Txns \in Nat /\ Scenarios \subseteq Setting

VARIABLES
    mgr,    \* the manager endpoint
    wrk,    \* wrk[w]: worker endpoint w and the pending reads of its memory
    link,   \* link[w]: messages from worker w to the manager
    net     \* chunk reads under way, in any order

vars == <<mgr, wrk, link, net>>

-----------------------------------------------------------------------------
(* State. *)

Workers == 0 .. NumWorkers - 1
Nodes   == 0 .. NumNodes - 1
Rid     == [t : 1 .. Txns, k : 0 .. TxnTiles - 1, s : {0, 1}, r : 0 .. PanelRows - 1]
Chunk   == [w : Workers, id : Rid, c : 1 .. PanelChunks]
Panel   == [id : Rid, issued : 0 .. PanelChunks - 1]
Message == [kind : {"SUBMIT", "DONE"}, ids : Seq(Rid)]

\* The memory node of a panel's source address.
NodeOf(id) == (id.k + id.r + mgr.set.skew * id.s) % NumNodes

\* passed[n][w]: turns given to others at node n (0 under group round robin)
\* while w could have been served; a history of the rotation.
Manager ==
    [ set : Setting,
      q : [Nodes -> [Workers -> Seq(Panel)]], credits : [Workers -> Nat],
      issued : 0 .. IssueBudget, nodeCursor : Nodes, nodeWorkerCursor : [Nodes -> Workers],
      groupCursor : Workers, workerNodeCursor : [Workers -> Nodes],
      passed : [Nodes -> [Workers -> Nat]] ]

Worker ==
    [ needsService : BOOLEAN, submitQ : Seq(Rid), nextTxn : 1 .. Txns + 1,
      live : SUBSET (1 .. Txns), doneSent : SUBSET Rid, retired : SUBSET (Nat \X Nat),
      pending : SUBSET (Rid \X (1 .. PanelChunks)) ]

(* Queues, credits, cursors and pending reads keep their ranges. *)
TypeOK ==
    /\ mgr \in Manager /\ \A w \in Workers : mgr.credits[w] <= mgr.set.creditCap
    /\ wrk \in [Workers -> Worker]
    /\ link \in [Workers -> Seq(Message)]
    /\ net \in SUBSET Chunk

-----------------------------------------------------------------------------
(* The worker. *)

ReadsOfTile(t, k) == {id \in Rid : id.t = t /\ id.k = k}
ReadsOf(t)        == {id \in Rid : id.t = t}

\* request_pending of the worker's global memory.
IsPending(x, id)    == \E c \in 1 .. PanelChunks : <<id, c>> \in x.pending
IsTileReady(x, t, k) == \A id \in ReadsOfTile(t, k) : ~IsPending(x, id)
IsTransactionDone(x, t) == \A k \in 0 .. TxnTiles - 1 : IsTileReady(x, t, k)

\* Order in which enqueueWindowTiles queues the reads of a transaction.
EnqueueOrder(t) ==
    SetToSortSeq(ReadsOf(t), LAMBDA a, b :
        \/ a.k < b.k
        \/ a.k = b.k /\ a.s < b.s
        \/ a.k = b.k /\ a.s = b.s /\ a.r < b.r)

Send(l, kind, ids) == IF ids = <<>> THEN l ELSE Append(l, [kind |-> kind, ids |-> ids])

\* Reads of live transactions that are complete and not yet reported.
Unreported(x) == {id \in Rid : id.t \in x.live /\ ~IsPending(x, id)} \ x.doneSent

\* A worker without transactions has had its first, empty tick.
Init ==
    /\ \E set \in Scenarios :
       mgr = [set |-> set, q |-> [n \in Nodes |-> [w \in Workers |-> <<>>]],
              credits |-> [w \in Workers |-> set.creditCap], issued |-> 0, nodeCursor |-> 0,
              nodeWorkerCursor |-> [n \in Nodes |-> 0], groupCursor |-> 0,
              workerNodeCursor |-> [w \in Workers |-> 0],
              passed |-> [n \in Nodes |-> [w \in Workers |-> 0]]]
    /\ wrk = [w \in Workers |->
          [needsService |-> mgr.set.txns[w] > 0, submitQ |-> <<>>, nextTxn |-> 1, live |-> {},
           doneSent |-> {}, retired |-> {}, pending |-> {}]]
    /\ link = [w \in Workers |-> <<>>]
    /\ net = {}

\* submitWindowTransaction and enqueueWindowTiles: pending reads are registered
\* before they are submitted.
SubmitTransaction(w) ==
    LET x == wrk[w]
        t == x.nextTxn
    IN  /\ t <= mgr.set.txns[w] /\ Cardinality(x.live) < mgr.set.window
        /\ wrk' = [wrk EXCEPT ![w] = [x EXCEPT
              !.nextTxn = t + 1, !.live = @ \cup {t}, !.needsService = TRUE,
              !.submitQ = @ \o EnqueueOrder(t),
              !.pending = @ \cup (ReadsOf(t) \X (1 .. PanelChunks))]]
        /\ UNCHANGED <<mgr, link, net>>

\* retireTileReady, which the tile engine calls, and may repeat, for a tile it
\* found ready.
RetireTile(w, t, k) ==
    /\ t \in wrk[w].live /\ IsTileReady(wrk[w], t, k)
    /\ wrk' = [wrk EXCEPT ![w].retired = @ \cup {<<t, k>>}, ![w].needsService = TRUE]
    /\ wrk' # wrk
    /\ UNCHANGED <<mgr, link, net>>

\* retireTransaction, for a transaction whose tiles are all ready and retired:
\* its remaining DONEs go out and the service flag is recomputed.
RetireTransaction(w, t) ==
    LET x == wrk[w]
    IN  /\ t \in x.live /\ IsTransactionDone(x, t)
        /\ \A k \in 0 .. TxnTiles - 1 : <<t, k>> \in x.retired
        /\ link' = [link EXCEPT ![w] =
               Send(@, "DONE", SetToSeq({id \in Unreported(x) : id.t = t}))]
        /\ wrk' = [wrk EXCEPT ![w] = [x EXCEPT
              !.live = @ \ {t}, !.doneSent = @ \ ReadsOf(t), !.retired = {p \in @ : p[1] # t},
              !.needsService = (x.submitQ # <<>>)]]
        /\ UNCHANGED <<mgr, net>>

\* tick of a worker: flushWorkerDirectSubmits, flushWorkerDirectDones,
\* refillWorkerWindows (every tile was queued when its transaction came) and
\* flushWorkerDirectSubmits again.
TickWorker(w) ==
    LET x     == wrk[w]
        n1    == IF Len(x.submitQ) < SubmitBatch THEN Len(x.submitQ) ELSE SubmitBatch
        rest1 == SubSeq(x.submitQ, n1 + 1, Len(x.submitQ))
        n2    == IF Len(rest1) < SubmitBatch THEN Len(rest1) ELSE SubmitBatch
        rest2 == SubSeq(rest1, n2 + 1, Len(rest1))
    IN  /\ mgr.set.eventDriven => x.needsService
        /\ x.needsService \/ x.submitQ # <<>> \/ Unreported(x) # {}
        /\ link' = [link EXCEPT ![w] =
               Send(Send(Send(@, "SUBMIT", SubSeq(x.submitQ, 1, n1)),
                         "DONE", SetToSeq(Unreported(x))),
                    "SUBMIT", SubSeq(rest1, 1, n2))]
        /\ wrk' = [wrk EXCEPT ![w] = [x EXCEPT
              !.submitQ = rest2, !.doneSent = @ \cup Unreported(x),
              !.needsService = (rest2 # <<>>)]]
        /\ UNCHANGED <<mgr, net>>

\* Seeded fault: the completion count is off by one chunk.
CompletesEarly(x, id, c) == Cardinality({d \in 1 .. PanelChunks : <<id, d>> \in x.pending}) <= 2

\* The last chunk of a read clears request_pending and runs the callback.
Completes(x, id, c) == \A d \in 1 .. PanelChunks : <<id, d>> \in x.pending => d = c

\* A chunk lands in the worker's local memory.
ChunkLands(m) ==
    LET x == wrk[m.w]
        left == IF Completes(x, m.id, m.c) THEN {p \in x.pending : p[1] # m.id}
                ELSE x.pending \ {<<m.id, m.c>>}
    IN  /\ net' = net \ {m}
        /\ wrk' = [wrk EXCEPT ![m.w].pending = left,
                       ![m.w].needsService = @ \/ (mgr.set.eventDriven /\ Completes(x, m.id, m.c))]
        /\ UNCHANGED <<mgr, link>>

-----------------------------------------------------------------------------
(* The manager: tryIssue works on a = [m, room, out], the manager, the sends *)
(* the network still takes, and the chunks sent.                             *)

PendingCount(m) == FoldSet(LAMBDA p, n : n + Len(m.q[p[1]][p[2]]), 0, Nodes \X Workers)

\* requestPriorityKey, smallest first.
Before(p, q) ==
    LET ord(x) == x.id.k * 128 + x.id.r
        cont(x) == IF x.issued = 0 THEN 0 ELSE 1
    IN  \/ p.id.t < q.id.t
        \/ p.id.t = q.id.t /\ ord(p) < ord(q)
        \/ p.id.t = q.id.t /\ ord(p) = ord(q) /\ cont(p) < cont(q)
        \/ p.id.t = q.id.t /\ ord(p) = ord(q) /\ cont(p) = cont(q) /\ p.id.s < q.id.s

\* Seeded fault: every chunk needs a free credit.
HasRoomEveryChunk(m, w, p) == m.credits[w] > 0

\* Only the first chunk of a panel takes a credit.
HasRoom(m, w, p) == p.issued > 0 \/ m.credits[w] > 0

\* Seeded fault: an issued panel takes no credit.
SpendWorkerNever(p) == 0

SpendWorker(p) == IF p.issued = 0 THEN 1 ELSE 0

\* Queued panels with room, of the given reads.
Entries(m, n, w, ids) ==
    {i \in DOMAIN m.q[n][w] : HasRoom(m, w, m.q[n][w][i]) /\ m.q[n][w][i].id \in ids}

BestOf(q, S) == CHOOSE i \in S : \A j \in S \ {i} : Before(q[i], q[j]) \/ (~Before(q[j], q[i]) /\ i < j)

\* Seeded fault: the last chunk of a panel is forgotten.
MoreChunksButLast(p) == p.issued + 2 < PanelChunks

MoreChunks(p) == p.issued + 1 < PanelChunks

\* issueQueueEntry: send one chunk; the rest of the panel goes to the back.
IssueEntry(a, n, w, i) ==
    LET q    == a.m.q[n][w]
        p    == q[i]
        rest == RemoveAt(q, i)
    IN  [ m |-> [a.m EXCEPT
                  !.q[n][w] = IF MoreChunks(p) THEN Append(rest, [p EXCEPT !.issued = p.issued + 1])
                              ELSE rest,
                  !.credits[w] = a.m.credits[w] - SpendWorker(p),
                  !.issued = a.m.issued + 1],
          room |-> a.room - 1,
          out  |-> a.out \cup {[w |-> w, id |-> p.id, c |-> p.issued + 1]} ]

\* Budget and network leave room for a send.
Open(a) == a.m.issued < IssueBudget /\ a.room > 0

\* Distance from a cursor in a rotation of n.
Off(x, cursor, n) == (x + n - cursor) % n

\* Others lose a turn at n; a worker with nothing to issue has no claim.
Pass(m, n, served, ready) ==
    [w \in Workers |-> IF w = served \/ w \notin ready THEN 0 ELSE m.passed[n][w] + 1]

\* Seeded fault: the worker cursor of a node does not move.
AdvanceNodeCursorsStuck(m, n, w) == [m EXCEPT !.nodeCursor = (n + 1) % NumNodes]

AdvanceNodeCursors(m, n, w) ==
    [m EXCEPT !.nodeWorkerCursor[n] = (w + 1) % NumWorkers, !.nodeCursor = (n + 1) % NumNodes]

\* One turn of the node-first policy: the next node, its next worker with an
\* issuable panel, and after it the other operand of the same tile.
NodeTurn(a) ==
    LET ready(n) == {w \in Workers : Entries(a.m, n, w, Rid) # {}}
        nodes    == {n \in Nodes : ready(n) # {}}
        n        == CHOOSE x \in nodes : \A y \in nodes :
                        Off(x, a.m.nodeCursor, NumNodes) <= Off(y, a.m.nodeCursor, NumNodes)
        w        == CHOOSE x \in ready(n) : \A y \in ready(n) :
                        Off(x, a.m.nodeWorkerCursor[n], NumWorkers)
                            <= Off(y, a.m.nodeWorkerCursor[n], NumWorkers)
        i        == BestOf(a.m.q[n][w], Entries(a.m, n, w, Rid))
        id       == a.m.q[n][w][i].id
        first    == IssueEntry(a, n, w, i)
        sibling  == Entries(first.m, n, w, {[id EXCEPT !.s = 1 - id.s]})
        both     == IF Open(first) /\ sibling # {}
                    THEN IssueEntry(first, n, w, BestOf(first.m.q[n][w], sibling)) ELSE first
    IN  IF ~Open(a) \/ nodes = {} THEN a
        ELSE [both EXCEPT !.m = [AdvanceNodeCursors(both.m, n, w) EXCEPT
                                    !.passed[n] = Pass(a.m, n, w, ready(n))]]

\* tryIssueSlotFromWorker: the worker's next node with a matching panel.
IssueSlot(a, w, ids) ==
    LET nodes == {n \in Nodes : Entries(a.m, n, w, ids) # {}}
        n     == CHOOSE x \in nodes : \A y \in nodes :
                     Off(x, a.m.workerNodeCursor[w], NumNodes)
                         <= Off(y, a.m.workerNodeCursor[w], NumNodes)
        b     == IssueEntry(a, n, w, BestOf(a.m.q[n][w], Entries(a.m, n, w, ids)))
    IN  IF ~Open(a) \/ nodes = {} THEN a
        ELSE [b EXCEPT !.m.workerNodeCursor[w] = (n + 1) % NumNodes]

AdvanceGroupCursor(w) == (w + 1) % NumWorkers

\* One turn of the group policy: a worker's mat panel, the vec panel of the
\* same tile row, or a vec panel alone, for up to quantum rounds.
GroupTurn(a) ==
    LET ready  == {w \in Workers : \E n \in Nodes : Entries(a.m, n, w, Rid) # {}}
        w      == CHOOSE x \in ready : \A y \in ready :
                      Off(x, a.m.groupCursor, NumWorkers) <= Off(y, a.m.groupCursor, NumWorkers)
        mat    == IssueSlot(a, w, {x \in Rid : x.s = 0})
        lead   == IF mat # a THEN mat ELSE IssueSlot(a, w, {x \in Rid : x.s = 1})
        id     == (CHOOSE c \in lead.out \ a.out : TRUE).id
        bundle(s) == {[id EXCEPT !.s = s]}
        pair   == IF mat # a THEN IssueSlot(lead, w, bundle(1)) ELSE lead
        round(b, i) == IssueSlot(IssueSlot(b, w, bundle(0)), w, bundle(1))
        full   == FoldLeft(round, pair, [i \in 1 .. a.m.set.quantum - 1 |-> i])
    IN  IF ~Open(a) \/ ready = {} THEN a
        ELSE [full EXCEPT !.m.groupCursor = AdvanceGroupCursor(w),
                          !.m.passed[0] = Pass(a.m, 0, w, ready)]

\* tryIssue: turns until the budget, the network or the work runs out.
TryIssue(m, room) ==
    FoldLeft(LAMBDA a, i : IF m.set.groupRoundRobin THEN GroupTurn(a) ELSE NodeTurn(a),
             [m |-> m, room |-> room, out |-> {}], [i \in 1 .. IssueBudget |-> i])

Issue(m, room) ==
    \E a \in {TryIssue(m, room)} :
        /\ mgr' = a.m
        /\ net' = net \cup a.out
        /\ UNCHANGED <<wrk, link>>

\* tick of the manager: a new budget; the network takes room sends.
TickManager(room) == Issue([mgr EXCEPT !.issued = 0], room) /\ mgr' # mgr

\* handleSendAvailable, with what is left of the budget of this tick.
SendAvailable(room) == Issue(mgr, room) /\ mgr' # mgr

\* enqueue_submit: dropped when the manager already holds QueueDepth panels.
EnqueueSubmit(m, w, id) ==
    IF PendingCount(m) >= QueueDepth THEN m
    ELSE [m EXCEPT !.q[NodeOf(id)][w] = Append(@, [id |-> id, issued |-> 0])]

RecycleDone(m, w) == [m EXCEPT !.credits[w] = IF @ < m.set.creditCap THEN @ + 1 ELSE @]

\* handleReq.
HandleReq(w) ==
    LET msg == Head(link[w]) IN
    /\ link[w] # <<>>
    /\ link' = [link EXCEPT ![w] = Tail(@)]
    /\ mgr' = FoldLeft(LAMBDA m, id : IF msg.kind = "SUBMIT" THEN EnqueueSubmit(m, w, id)
                                      ELSE RecycleDone(m, w), mgr, msg.ids)
    /\ UNCHANGED <<wrk, net>>

AllDone == \A w \in Workers : wrk[w].nextTxn > mgr.set.txns[w] /\ wrk[w].live = {}

Idle == AllDone /\ UNCHANGED vars

Next ==
    \/ \E w \in Workers : SubmitTransaction(w) \/ TickWorker(w)
    \/ \E w \in Workers : \E t \in wrk[w].live, k \in 0 .. TxnTiles - 1 : RetireTile(w, t, k)
    \/ \E w \in Workers : \E t \in wrk[w].live : RetireTransaction(w, t)
    \/ \E m \in net : ChunkLands(m)
    \/ \E room \in 0 .. IssueBudget : TickManager(room)
    \/ \E room \in 1 .. IssueBudget : SendAvailable(room)
    \/ \E w \in Workers : HandleReq(w)
    \/ Idle

Spec == Init /\ [][Next]_vars

CanIssue == \E n \in Nodes, w \in Workers : Entries(mgr, n, w, Rid) # {}

\* The tile engine of worker w has a transaction to submit or to retire, or a
\* tile to retire for the first time; a tick of the worker has something to send.
EngineHasWork(w) ==
    LET x == wrk[w] IN
    \/ x.nextTxn <= mgr.set.txns[w] /\ Cardinality(x.live) < mgr.set.window
    \/ \E t \in x.live : IsTransactionDone(x, t)
    \/ \E t \in x.live, k \in 0 .. TxnTiles - 1 : <<t, k>> \notin x.retired /\ IsTileReady(x, t, k)
TickSends(w) ==
    /\ mgr.set.eventDriven => wrk[w].needsService
    /\ wrk[w].submitQ # <<>> \/ Unreported(wrk[w]) # {}
CanGoOn ==
    \/ net # {} \/ CanIssue
    \/ \E w \in Workers : link[w] # <<>> \/ EngineHasWork(w) \/ TickSends(w)

\* The step is more than a service flag set by a tile retired again, or reset.
GoesOn ==
    \/ mgr' # mgr \/ link' # link \/ net' # net
    \/ \E w \in Workers : wrk'[w].retired # wrk[w].retired \/ wrk'[w].nextTxn # wrk[w].nextTxn

\* The simulation does not stop while something can go on: clocks, links, memory
\* nodes and tile engines keep running, in any order, and a network that refuses
\* sends takes some again.  (Weak fairness, its enabling condition spelled out.)
Fairness == []<>~CanGoOn \/ []<><<GoesOn>>_vars

FairSpec == Spec /\ Fairness

-----------------------------------------------------------------------------
(* Properties. *)

InSeq(id, s) == \E i \in DOMAIN s : s[i] = id

\* Not yet issued: queued at the worker, on the link, or untouched in a queue.
Waiting(w, id) ==
    \/ InSeq(id, wrk[w].submitQ)
    \/ \E i \in DOMAIN link[w] : link[w][i].kind = "SUBMIT" /\ InSeq(id, link[w][i].ids)
    \/ InSeq([id |-> id, issued |-> 0], mgr.q[NodeOf(id)][w])

\* Reads of w that hold a credit: issued, and their DONE not yet handled.
Holders(w) ==
    {id \in Rid : id.t \in wrk[w].live /\ id \notin wrk[w].doneSent /\ ~Waiting(w, id)}
        \cup {id \in Rid : \E i \in DOMAIN link[w] :
                                link[w][i].kind = "DONE" /\ InSeq(id, link[w][i].ids)}

\* Credits are exact: what a worker lacks is what its issued and unreported
\* reads hold, whatever the order of issues, landings, DONEs and retirements;
\* the saturation of the counter is never what keeps it in range.
CreditsExact == \A w \in Workers : mgr.set.creditCap - mgr.credits[w] = Cardinality(Holders(w))

\* A tile the engine may compute on has all its bytes: no chunk of it is still
\* to be issued or under way.
ReadyMeansLanded ==
    \A w \in Workers : \A t \in wrk[w].live, k \in 0 .. TxnTiles - 1 :
        IsTileReady(wrk[w], t, k) =>
            \A id \in ReadsOfTile(t, k) :
                /\ ~Waiting(w, id)
                /\ \A m \in net : m.w = w => m.id # id
                /\ \A i \in DOMAIN mgr.q[NodeOf(id)][w] : mgr.q[NodeOf(id)][w][i].id # id

\* No read is lost: an incomplete read waits, is under way, or has chunks left
\* in the manager's queue.
ReadAccounted ==
    \A w \in Workers : \A p \in wrk[w].pending :
        \/ Waiting(w, p[1])
        \/ [w |-> w, id |-> p[1], c |-> p[2]] \in net
        \/ \E i \in DOMAIN mgr.q[NodeOf(p[1])][w] :
              mgr.q[NodeOf(p[1])][w][i].id = p[1] /\ mgr.q[NodeOf(p[1])][w][i].issued < p[2]

\* "One worker cannot consume all" turns while others are queued
\* (test/golem/doc/smooth_hbm_stream_plan_20260428.md:34): a worker that could
\* be served is passed over at most once by each of the others.
RoundRobin == \A n \in Nodes, w \in Workers : mgr.passed[n][w] < NumWorkers

\* requestscheduler.h:198, "Skip idle worker scheduler scans until direct work
\* or DMA completion": a completed read that is not yet reported keeps the
\* worker awake.
CompletionWakes ==
    mgr.set.eventDriven => \A w \in Workers : Unreported(wrk[w]) # {} => wrk[w].needsService

\* Every transaction of every worker completes and is retired.
AllTransactionsComplete == <>AllDone
=============================================================================
