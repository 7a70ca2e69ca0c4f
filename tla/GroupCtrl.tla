----------------------------- MODULE GroupCtrl -----------------------------
(***************************************************************************)
(* The grant protocol of one worker group (groupctrl/groupctrl.cc): a      *)
(* manager GroupCtrlEndpoint bounds how many workers of the group may load *)
(* from one memory node at a time.  Worker software talks to its own       *)
(* endpoint only through a mailbox in its local memory; the endpoint       *)
(* forwards REQUEST, DONE and FINISHED over a link to the manager, which   *)
(* answers with GRANT and, at the end, GROUP_DONE.                         *)
(*                                                                         *)
(* Actors that interleave: the software of every worker (which writes the  *)
(* mailbox one word at a time), the clock of every worker endpoint, the    *)
(* manager's link handler and the worker's response handler.               *)
(*                                                                         *)
(* Addresses and byte counts of a request are carried and never examined   *)
(* by the manager, and are left out; so are lastReqSeq and lastDoneSeq,    *)
(* which are written and never read.  Of lastGrantSeq only the coarse flag *)
(* is read, which is the field "coarse" here.                              *)
(***************************************************************************)
EXTENDS Integers, Sequences, FiniteSets

CONSTANTS
    Workers,              \* worker slots of the group (workers_.resize(4))
    NumNodes,             \* numMemoryNodes_
    QueueDepth,           \* queueDepth_
    MaxInflightPerNode,   \* maxInflightPerNode_, at least 1 (constructor)
    MaxGrantsPerSchedule, \* maxGrantsPerSchedule_, at least 1 (constructor)
    Windows,              \* windows the software asks for
    MaxRequests           \* bound: requests per worker

Nodes == 0 .. NumNodes - 1

ASSUME GroupAssumption ==
    /\ IsFiniteSet(Workers) /\ Cardinality(Workers) \in 1 .. 4
    /\ NumNodes \in Nat \ {0}
    /\ QueueDepth \in Nat
    /\ MaxInflightPerNode \in Nat \ {0}
    /\ MaxGrantsPerSchedule \in Nat \ {0}
    /\ Windows \subseteq Nat
    /\ MaxRequests \in Nat

VARIABLES
    mgr,    \* the manager endpoint, its outgoing response links included
    reqOut, \* reqOut[w]: messages on the link from worker w to the manager
    seen,   \* seen[w]: what the worker endpoint remembers having forwarded
    mbox,   \* mbox[w]: the control mailbox in worker w's local memory
    sw      \* sw[w]: the worker software

vars == <<mgr, reqOut, seen, mbox, sw>>

-----------------------------------------------------------------------------
(* Messages. *)

Request(seq, node, window) ==
    [type |-> "REQUEST", seq |-> seq, node |-> node, window |-> window]
Done(seq) == [type |-> "DONE", seq |-> seq, node |-> 0, window |-> 0]
Finished  == [type |-> "FINISHED", seq |-> 0, node |-> 0, window |-> 0]
Grant(seq, window) == [type |-> "GRANT", seq |-> seq, window |-> window]
GroupDone == [type |-> "GROUP_DONE", seq |-> 0, window |-> 0]

PendingReq == [slot : Workers, seq : Nat, node : Nat, window : Nat]
ReqMsg == [type : {"REQUEST", "DONE", "FINISHED"}, seq : Nat, node : Nat, window : Nat]
RspMsg == [type : {"GRANT", "GROUP_DONE"}, seq : Nat, window : Nat]

Manager ==
    [ pendingQ        : Seq(PendingReq),
      cursor          : Nat,
      inflight        : [Workers -> BOOLEAN],
      inflightNode    : [Workers -> Nat],
      coarse          : [Workers -> BOOLEAN],
      finished        : [Workers -> BOOLEAN],
      inflightPerNode : [Nodes -> Nat],
      rspOut          : [Workers -> Seq(RspMsg)] ]

Mailbox ==
    [ reqSeq : Nat, reqValid : BOOLEAN, reqNode : Nat, reqWindow : Nat,
      grantSeq : Nat, doneSeq : Nat, doneValid : BOOLEAN,
      finished : BOOLEAN, groupDone : BOOLEAN ]

Endpoint == [ reqSeq : Nat, doneSeq : Nat, finished : BOOLEAN ]

Phase == {"run", "reqFields", "reqSeq", "wait", "hold", "doneSeq", "drain", "left"}

Software == [ phase : Phase, reqSeq : Nat, node : Nat, window : Nat ]

(* Every variable ranges over what the code's fields range over: link, queue,
   mailbox and endpoint fields keep their types in every handler. *)
TypeOK ==
    /\ mgr \in Manager
    /\ reqOut \in [Workers -> Seq(ReqMsg)]
    /\ seen \in [Workers -> Endpoint]
    /\ mbox \in [Workers -> Mailbox]
    /\ sw \in [Workers -> Software]

-----------------------------------------------------------------------------
(* The manager: GroupCtrlEndpoint::trySchedule. *)

\* Seeded fault: the cap test is off by one.
SchedulableOverCap(m, i) ==
    LET req == m.pendingQ[i] IN
    ~m.inflight[req.slot] /\ m.inflightPerNode[req.node] <= MaxInflightPerNode

\* The tests of the scan loop on one queued request.
Schedulable(m, i) ==
    LET req == m.pendingQ[i] IN
    /\ ~m.inflight[req.slot]
    /\ req.node < NumNodes
    /\ m.inflightPerNode[req.node] < MaxInflightPerNode

\* Position of index i in the scan, which starts at scheduleCursor_ and wraps
\* around the queue.
ScanRank(m, i) == (i - 1 - m.cursor + Len(m.pendingQ)) % Len(m.pendingQ)

Candidates(m) == {i \in 1 .. Len(m.pendingQ) : Schedulable(m, i)}

\* Index of the request the scan stops at.
Pick(m) ==
    CHOOSE i \in Candidates(m) :
        \A j \in Candidates(m) : ScanRank(m, i) <= ScanRank(m, j)

\* sendRsp: a GRANT of sequence 0 carries window 0.
SendRsp(out, w, msg) ==
    [out EXCEPT ![w] = Append(@,
        IF msg.type = "GRANT" /\ msg.seq = 0 THEN [msg EXCEPT !.window = 0] ELSE msg)]

\* pendingQ_.erase: q without its i-th element.
Erase(q, i) == SubSeq(q, 1, i - 1) \o SubSeq(q, i + 1, Len(q))

\* Seeded fault: the granted request stays in the queue.
IssueGrantKeepsRequest(m, i) ==
    LET req == m.pendingQ[i] IN
    [m EXCEPT
        !.inflight        = [@ EXCEPT ![req.slot] = TRUE],
        !.inflightNode    = [@ EXCEPT ![req.slot] = req.node],
        !.inflightPerNode = [@ EXCEPT ![req.node] = m.inflightPerNode[req.node] + 1],
        !.rspOut          = SendRsp(@, req.slot, Grant(req.seq, req.window))]

\* One grant: the response, the worker's and the node's accounting, the queue
\* and the cursor.
IssueGrant(m, i) ==
    LET req == m.pendingQ[i]
        q   == Erase(m.pendingQ, i)
    IN [m EXCEPT
            !.rspOut          = SendRsp(@, req.slot,
                                    Grant(req.seq, IF req.window = 0 THEN 1 ELSE req.window)),
            !.coarse          = [@ EXCEPT ![req.slot] = req.window > 1],
            !.inflight        = [@ EXCEPT ![req.slot] = TRUE],
            !.inflightNode    = [@ EXCEPT ![req.slot] = req.node],
            !.inflightPerNode = [@ EXCEPT ![req.node] = m.inflightPerNode[req.node] + 1],
            !.pendingQ        = q,
            !.cursor          = IF q = <<>> THEN 0 ELSE (i - 1) % Len(q)]

\* Iteration k of the while loop.
SchedulePass(m, k) ==
    IF k > MaxGrantsPerSchedule \/ m.pendingQ = <<>>
    THEN m
    ELSE LET r == [m EXCEPT !.cursor = IF @ >= Len(m.pendingQ) THEN 0 ELSE @]
         IN IF Candidates(r) = {} THEN r ELSE IssueGrant(r, Pick(r))

\* The loop grants at most four times: each grant makes another of the four
\* workers inflight.  After a pass that grants nothing the next ones change
\* nothing.
TrySchedule(m) ==
    SchedulePass(SchedulePass(SchedulePass(SchedulePass(m, 1), 2), 3), 4)

\* Seeded fault: one finished worker is taken for all.
SomeWorkerFinished(m) == \E w \in Workers : m.finished[w]

AllWorkersFinished(m) == \A w \in Workers : m.finished[w]

GroupDrained(m) ==
    /\ m.pendingQ = <<>>
    /\ \A w \in Workers : ~m.inflight[w]
    /\ \A n \in Nodes : m.inflightPerNode[n] = 0

MaybeSendGroupDone(m) ==
    IF AllWorkersFinished(m) /\ GroupDrained(m)
    THEN [m EXCEPT !.rspOut = [w \in Workers |-> Append(m.rspOut[w], GroupDone)]]
    ELSE m

\* The decrement of inflightPerNode_, which never goes below 0.
ReleaseNode(load, node) ==
    IF node < NumNodes /\ load[node] > 0
    THEN [load EXCEPT ![node] = @ - 1]
    ELSE load

-----------------------------------------------------------------------------
(* The manager: GroupCtrlEndpoint::handleReq, one operator per message type. *)

\* REQUEST: dropped when the queue is full.
OnRequest(m, w, msg) ==
    IF Len(m.pendingQ) >= QueueDepth
    THEN m
    ELSE TrySchedule([m EXCEPT !.pendingQ = Append(@,
            [slot |-> w, seq |-> msg.seq, node |-> msg.node, window |-> msg.window])])

\* Seeded fault: inflightNode is cleared before it is used.
ReturnGrantClearsNodeFirst(m, w) ==
    [m EXCEPT !.inflight        = [@ EXCEPT ![w] = FALSE],
              !.inflightPerNode = ReleaseNode(@, 0),
              !.inflightNode    = [@ EXCEPT ![w] = 0]]

\* The worker gives its grant back.
ReturnGrant(m, w) ==
    [m EXCEPT !.inflight        = [@ EXCEPT ![w] = FALSE],
              !.inflightPerNode = ReleaseNode(@, m.inflightNode[w]),
              !.inflightNode    = [@ EXCEPT ![w] = 0]]

\* Seeded fault: freed capacity is not offered to the queue.
OnDoneWithoutSchedule(m, w) == MaybeSendGroupDone(ReturnGrant(m, w))

\* DONE.
OnDone(m, w) == MaybeSendGroupDone(TrySchedule(ReturnGrant(m, w)))

\* Seeded fault: only DONE checks for the end of the group.
OnFinishedSilent(m, w) == [m EXCEPT !.finished = [@ EXCEPT ![w] = TRUE]]

\* FINISHED: a worker whose last grant was coarse (window > 1) may finish
\* without DONE; FINISHED then returns its grant.  A worker that is not
\* inflight has inflightNode 0 already.
OnFinished(m, w) ==
    LET f == [m EXCEPT !.finished = [@ EXCEPT ![w] = TRUE]]
    IN MaybeSendGroupDone(IF m.coarse[w] /\ m.inflight[w] THEN ReturnGrant(f, w) ELSE f)

Receive(w, type) ==
    /\ reqOut[w] # <<>>
    /\ Head(reqOut[w]).type = type
    /\ reqOut' = [reqOut EXCEPT ![w] = Tail(@)]
    /\ UNCHANGED <<seen, mbox, sw>>

HandleRequest(w) ==
    /\ Receive(w, "REQUEST")
    /\ mgr' = OnRequest(mgr, w, Head(reqOut[w]))

HandleDone(w) ==
    /\ Receive(w, "DONE")
    /\ mgr' = OnDone(mgr, w)

HandleFinished(w) ==
    /\ Receive(w, "FINISHED")
    /\ mgr' = OnFinished(mgr, w)

-----------------------------------------------------------------------------
(* The worker endpoint. *)

RequestPosted(w)  == mbox[w].reqValid /\ mbox[w].reqSeq > seen[w].reqSeq
DonePosted(w)     == mbox[w].doneValid /\ mbox[w].doneSeq > seen[w].doneSeq
FinishedPosted(w) == mbox[w].finished /\ ~seen[w].finished

\* Seeded fault: FINISHED overtakes the last DONE.
OutboxFinishedFirst(w) ==
    (IF RequestPosted(w)
     THEN <<Request(mbox[w].reqSeq, mbox[w].reqNode, mbox[w].reqWindow)>> ELSE <<>>)
    \o (IF FinishedPosted(w) THEN <<Finished>> ELSE <<>>)
    \o (IF DonePosted(w) THEN <<Done(mbox[w].doneSeq)>> ELSE <<>>)

\* What one tick sends: REQUEST, then DONE, then FINISHED.
Outbox(w) ==
    (IF RequestPosted(w)
     THEN <<Request(mbox[w].reqSeq, mbox[w].reqNode, mbox[w].reqWindow)>> ELSE <<>>)
    \o (IF DonePosted(w) THEN <<Done(mbox[w].doneSeq)>> ELSE <<>>)
    \o (IF FinishedPosted(w) THEN <<Finished>> ELSE <<>>)

\* GroupCtrlEndpoint::tick of a worker that has something to forward.
Tick(w) ==
    /\ Outbox(w) # <<>>
    /\ reqOut' = [reqOut EXCEPT ![w] = @ \o Outbox(w)]
    /\ seen' = [seen EXCEPT
            ![w].reqSeq   = IF RequestPosted(w) THEN mbox[w].reqSeq ELSE @,
            ![w].doneSeq  = IF DonePosted(w) THEN mbox[w].doneSeq ELSE @,
            ![w].finished = @ \/ FinishedPosted(w)]
    /\ mbox' = [mbox EXCEPT
            ![w].reqValid  = @ /\ ~RequestPosted(w),
            ![w].doneValid = @ /\ ~DonePosted(w),
            ![w].finished  = @ /\ ~FinishedPosted(w)]
    /\ UNCHANGED <<mgr, sw>>

\* GroupCtrlEndpoint::handleRsp.
HandleRsp(w) ==
    /\ mgr.rspOut[w] # <<>>
    /\ LET msg == Head(mgr.rspOut[w]) IN
       mbox' = IF msg.type = "GRANT"
               THEN [mbox EXCEPT ![w].grantSeq = msg.seq]
               ELSE [mbox EXCEPT ![w].groupDone = TRUE]
    /\ mgr' = [mgr EXCEPT !.rspOut = [@ EXCEPT ![w] = Tail(mgr.rspOut[w])]]
    /\ UNCHANGED <<reqOut, seen, sw>>

-----------------------------------------------------------------------------
(* Worker software: one transfer at a time through the mailbox helpers of    *)
(* group_ctrl_runtime.h, in the order of gemm_tiled_baseline_ctrl.  The      *)
(* words of the mailbox are written one by one.                              *)

Goto(w, p) == sw' = [sw EXCEPT ![w].phase = p]

\* ctrl_publish_request_local: wait for REQ_VALID = 0, write the parameters.
WriteRequestFields(w) ==
    /\ sw[w].phase = "run"
    /\ sw[w].reqSeq < MaxRequests
    /\ ~mbox[w].reqValid
    /\ \E n \in Nodes, win \in Windows :
         /\ sw' = [sw EXCEPT ![w] = [phase |-> "reqFields", reqSeq |-> @.reqSeq + 1,
                                     node |-> n, window |-> win]]
         /\ mbox' = [mbox EXCEPT ![w] = [@ EXCEPT !.reqNode = n, !.reqWindow = win]]
    /\ UNCHANGED <<mgr, reqOut, seen>>

\* ... then REQ_SEQ ...
WriteRequestSeq(w) ==
    /\ sw[w].phase = "reqFields"
    /\ Goto(w, "reqSeq")
    /\ mbox' = [mbox EXCEPT ![w].reqSeq = sw[w].reqSeq]
    /\ UNCHANGED <<mgr, reqOut, seen>>

\* ... then REQ_VALID := 1.
WriteRequestValid(w) ==
    /\ sw[w].phase = "reqSeq"
    /\ Goto(w, "wait")
    /\ mbox' = [mbox EXCEPT ![w].reqValid = TRUE]
    /\ UNCHANGED <<mgr, reqOut, seen>>

\* Seeded fault: the grant of an earlier request is taken for this one's.
SeeAnyGrant(w) ==
    /\ sw[w].phase = "wait"
    /\ mbox[w].grantSeq # 0
    /\ Goto(w, "hold")
    /\ UNCHANGED <<mgr, reqOut, seen, mbox>>

\* adaptive_wait_eq_profiled on GRANT_SEQ.
SeeGrant(w) ==
    /\ sw[w].phase = "wait"
    /\ mbox[w].grantSeq = sw[w].reqSeq
    /\ Goto(w, "hold")
    /\ UNCHANGED <<mgr, reqOut, seen, mbox>>

\* The transfer has landed: ctrl_publish_done_local waits for DONE_VALID = 0
\* and writes DONE_SEQ ...
WriteDoneSeq(w) ==
    /\ sw[w].phase = "hold"
    /\ ~mbox[w].doneValid
    /\ Goto(w, "doneSeq")
    /\ mbox' = [mbox EXCEPT ![w].doneSeq = sw[w].reqSeq]
    /\ UNCHANGED <<mgr, reqOut, seen>>

\* ... then DONE_VALID := 1.
WriteDoneValid(w) ==
    /\ sw[w].phase = "doneSeq"
    /\ sw' = [sw EXCEPT ![w] = [phase |-> "run", reqSeq |-> @.reqSeq, node |-> 0, window |-> 0]]
    /\ mbox' = [mbox EXCEPT ![w].doneValid = TRUE]
    /\ UNCHANGED <<mgr, reqOut, seen>>

\* ctrl_publish_finished_local, after the last tile.
WriteFinished(w) ==
    /\ sw[w].phase = "run"
    /\ Goto(w, "drain")
    /\ mbox' = [mbox EXCEPT ![w].finished = TRUE]
    /\ UNCHANGED <<mgr, reqOut, seen>>

\* adaptive_wait_eq_profiled on GROUP_DONE; the kernel returns.
SeeGroupDone(w) ==
    /\ sw[w].phase = "drain"
    /\ mbox[w].groupDone
    /\ Goto(w, "left")
    /\ UNCHANGED <<mgr, reqOut, seen, mbox>>

SoftwareStep(w) ==
    \/ WriteRequestFields(w)
    \/ WriteRequestSeq(w)
    \/ WriteRequestValid(w)
    \/ SeeGrant(w)
    \/ WriteDoneSeq(w)
    \/ WriteDoneValid(w)
    \/ WriteFinished(w)
    \/ SeeGroupDone(w)

\* Every kernel has returned: nothing is left to do.
Idle ==
    /\ \A w \in Workers : sw[w].phase = "left"
    /\ UNCHANGED vars

-----------------------------------------------------------------------------
Init ==
    /\ mgr = [ pendingQ        |-> <<>>,
               cursor          |-> 0,
               inflight        |-> [w \in Workers |-> FALSE],
               inflightNode    |-> [w \in Workers |-> 0],
               coarse          |-> [w \in Workers |-> FALSE],
               finished        |-> [w \in Workers |-> FALSE],
               inflightPerNode |-> [n \in Nodes |-> 0],
               rspOut          |-> [w \in Workers |-> <<>>] ]
    /\ reqOut = [w \in Workers |-> <<>>]
    /\ seen = [w \in Workers |-> [reqSeq |-> 0, doneSeq |-> 0, finished |-> FALSE]]
    /\ mbox = [w \in Workers |->
                 [ reqSeq |-> 0, reqValid |-> FALSE, reqNode |-> 0, reqWindow |-> 0,
                   grantSeq |-> 0, doneSeq |-> 0, doneValid |-> FALSE,
                   finished |-> FALSE, groupDone |-> FALSE ]]
    /\ sw = [w \in Workers |-> [phase |-> "run", reqSeq |-> 0, node |-> 0, window |-> 0]]

Next ==
    \/ \E w \in Workers :
         \/ HandleRequest(w)
         \/ HandleDone(w)
         \/ HandleFinished(w)
         \/ Tick(w)
         \/ HandleRsp(w)
         \/ SoftwareStep(w)
    \/ Idle

Spec == Init /\ [][Next]_vars

\* The clock of an endpoint and the links never stop.  Worker software keeps
\* running: its polling loops are left when their condition holds.
Fairness ==
    \A w \in Workers :
        /\ WF_vars(HandleRequest(w) \/ HandleDone(w) \/ HandleFinished(w))
        /\ WF_vars(Tick(w))
        /\ WF_vars(HandleRsp(w))
        /\ WF_vars(SoftwareStep(w))

FairSpec == Spec /\ Fairness

-----------------------------------------------------------------------------
(* Properties. *)

Holds(w) == sw[w].phase \in {"hold", "doneSeq"}

\* The scheduler's purpose, seen from the workers: at no time do more than
\* MaxInflightPerNode of them use a grant for the same memory node, whatever
\* is still travelling on the links (trySchedule's cap, handleReq's decrements).
HoldersBounded ==
    \A n \in Nodes :
        Cardinality({w \in Workers : Holds(w) /\ sw[w].node = n}) <= MaxInflightPerNode

\* The manager's counters are exact: inflightPerNode_[n] is the number of
\* inflight workers whose inflightNode is n.  A drift would leak or exceed
\* capacity for the rest of the run.
InflightExact ==
    \A n \in Nodes : mgr.inflightPerNode[n] =
        Cardinality({w \in Workers : mgr.inflight[w] /\ mgr.inflightNode[w] = n})

\* A worker that uses a grant is inflight at the manager, on the node it asked
\* for: the parameters were read from the mailbox before the software changed
\* them, and no DONE or FINISHED of an earlier transfer took the grant back.
HolderInflight ==
    \A w \in Workers : Holds(w) =>
        mgr.inflight[w] /\ mgr.inflightNode[w] = sw[w].node

\* No stranded queue: while requests are queued some worker is inflight, so
\* a DONE is still to come that runs trySchedule again.
NotStranded ==
    mgr.pendingQ # <<>> => \E w \in Workers : mgr.inflight[w]

\* FINISHED finds its worker without a grant, so the coarse branch of
\* handleReq returns no capacity behind trySchedule's back: the worker's DONE
\* travels ahead of its FINISHED.
FinishedAfterDone ==
    \A w \in Workers :
        reqOut[w] # <<>> /\ Head(reqOut[w]).type = "FINISHED" => ~mgr.inflight[w]

\* GROUP_DONE reaches a worker only when the whole group is quiet: every
\* worker has finished, none uses a grant, and no request is queued or on a link.
GroupDoneQuiet ==
    (\E w \in Workers : mbox[w].groupDone) =>
        /\ \A v \in Workers : sw[v].phase \in {"drain", "left"} /\ reqOut[v] = <<>>
        /\ mgr.pendingQ = <<>>

\* How many copies of worker w's current request or of its answer exist.
Copies(w) ==
    (IF mbox[w].reqValid THEN 1 ELSE 0)
    + Cardinality({i \in DOMAIN reqOut[w] : reqOut[w][i].type = "REQUEST"})
    + Cardinality({i \in DOMAIN mgr.pendingQ : mgr.pendingQ[i].slot = w})
    + Cardinality({i \in DOMAIN mgr.rspOut[w] : mgr.rspOut[w][i].type = "GRANT"})
    + (IF mbox[w].grantSeq = sw[w].reqSeq THEN 1 ELSE 0)

\* A worker that waits for a grant has exactly one copy of its request or of
\* the grant under way: nothing is lost and nothing granted twice.  (A full
\* queue drops requests: QueueDepth must be at least the number of workers.)
OneCopyPerRequest ==
    QueueDepth >= Cardinality(Workers) => \A w \in Workers : sw[w].phase = "wait" => Copies(w) = 1

\* Every request is granted.
EveryRequestGranted ==
    \A w \in Workers : sw[w].phase = "wait" ~> Holds(w)

\* Once a worker finishes, the group ends and it learns of it, given that the
\* other workers finish too (MaxRequests bounds their work).
GroupTerminates == <>(\A w \in Workers : sw[w].phase = "left")

=============================================================================
