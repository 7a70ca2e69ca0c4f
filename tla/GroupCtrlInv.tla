---------------------------- MODULE GroupCtrlInv ----------------------------
(* The inductive invariant behind the safety properties of GroupCtrl.  It    *)
(* says, for every worker, where its request token and its grant token are:  *)
(* a request is in the mailbox, on the link, in the queue, on its way back   *)
(* as a GRANT or seen by the software; a grant is held until its DONE has    *)
(* reached the manager.                                                      *)
EXTENDS GroupCtrl

\* The only REQUEST and the only DONE that can be on the link of worker w.
R(w) == Request(sw[w].reqSeq, sw[w].node, sw[w].window)
D(w) == Done(seen[w].doneSeq)

LinkShape(w) ==
    \/ reqOut[w] = <<>>
    \/ reqOut[w] = <<R(w)>>
    \/ reqOut[w] = <<D(w)>>
    \/ reqOut[w] = <<Finished>>
    \/ reqOut[w] = <<R(w), D(w)>>
    \/ reqOut[w] = <<D(w), R(w)>>
    \/ reqOut[w] = <<D(w), Finished>>

RequestOnLink(w) ==
    reqOut[w] = <<R(w)>> \/ reqOut[w] = <<R(w), D(w)>> \/ reqOut[w] = <<D(w), R(w)>>
DoneOnLink(w) ==
    \/ reqOut[w] = <<D(w)>> \/ reqOut[w] = <<R(w), D(w)>>
    \/ reqOut[w] = <<D(w), R(w)>> \/ reqOut[w] = <<D(w), Finished>>
FinishedOnLink(w) == reqOut[w] = <<Finished>> \/ reqOut[w] = <<D(w), Finished>>

Queued(m, w) == \E i \in 1 .. Len(m.pendingQ) : m.pendingQ[i].slot = w

GrantOnLink(w) ==
    /\ Len(mgr.rspOut[w]) = 1
    /\ mgr.rspOut[w][1].type = "GRANT"
    /\ mgr.rspOut[w][1].seq = sw[w].reqSeq

RspShape(w) ==
    mgr.rspOut[w] = <<>> \/ GrantOnLink(w) \/ mgr.rspOut[w] = <<GroupDone>>

\* The grant has reached the mailbox and the software has not looked yet.
GrantInMailbox(w) == sw[w].phase = "wait" /\ mbox[w].grantSeq = sw[w].reqSeq

\* The request token of worker w is in at most one place.
RequestToken(w) ==
    /\ mbox[w].reqValid \/ RequestOnLink(w) \/ Queued(mgr, w) \/ GrantOnLink(w)
         => sw[w].phase = "wait" /\ mbox[w].grantSeq # sw[w].reqSeq
    /\ mbox[w].reqValid => ~RequestOnLink(w) /\ ~Queued(mgr, w) /\ ~GrantOnLink(w)
    /\ RequestOnLink(w) => ~Queued(mgr, w) /\ ~GrantOnLink(w)
    /\ Queued(mgr, w) => ~GrantOnLink(w)

\* What the mailbox holds of a request that is being written or posted.
RequestWords(w) ==
    /\ sw[w].phase \in {"reqFields", "reqSeq"} \/ mbox[w].reqValid
         => mbox[w].reqNode = sw[w].node /\ mbox[w].reqWindow = sw[w].window
    /\ sw[w].phase = "reqSeq" \/ mbox[w].reqValid => mbox[w].reqSeq = sw[w].reqSeq
    /\ mbox[w].grantSeq <= sw[w].reqSeq
    /\ sw[w].phase \in {"reqFields", "reqSeq"} => mbox[w].grantSeq < sw[w].reqSeq
    /\ sw[w].node \in Nodes

DoneWords(w) ==
    /\ seen[w].doneSeq <= mbox[w].doneSeq
    /\ mbox[w].doneValid => seen[w].doneSeq < mbox[w].doneSeq
    /\ sw[w].phase \in {"reqFields", "reqSeq", "wait", "hold"} => mbox[w].doneSeq < sw[w].reqSeq
    /\ sw[w].phase = "doneSeq" => mbox[w].doneSeq = sw[w].reqSeq /\ seen[w].doneSeq < sw[w].reqSeq
    /\ mbox[w].doneSeq <= sw[w].reqSeq

\* The grant token: a worker is inflight exactly while its grant is on the way
\* to it, held by it, or on the way back.
GrantAtWorker(w) == GrantOnLink(w) \/ GrantInMailbox(w) \/ Holds(w)
GrantReturning(w) == mbox[w].doneValid \/ DoneOnLink(w)

GrantToken(w) ==
    /\ mgr.inflight[w] <=> GrantAtWorker(w) \/ GrantReturning(w)
    /\ GrantAtWorker(w) => ~GrantReturning(w) /\ mgr.inflightNode[w] = sw[w].node
    /\ ~(mbox[w].doneValid /\ DoneOnLink(w))

FinishToken(w) ==
    /\ mbox[w].finished \/ seen[w].finished <=> sw[w].phase \in {"drain", "left"}
    /\ ~(mbox[w].finished /\ seen[w].finished)
    /\ seen[w].finished <=> FinishedOnLink(w) \/ mgr.finished[w]
    /\ seen[w].finished => ~mbox[w].doneValid
    /\ mgr.finished[w] => reqOut[w] = <<>>

WorkerInv(w) ==
    /\ LinkShape(w)
    /\ RspShape(w)
    /\ RequestToken(w)
    /\ RequestWords(w)
    /\ DoneWords(w)
    /\ GrantToken(w)
    /\ FinishToken(w)

\* The manager on its own: exact counters within the cap, and at most one
\* queued request per worker.
InflightOn(m, n) == {w \in Workers : m.inflight[w] /\ m.inflightNode[w] = n}

ManagerInv(m) ==
    /\ \A w \in Workers : m.inflight[w] => m.inflightNode[w] \in Nodes
    /\ \A n \in Nodes : /\ m.inflightPerNode[n] = Cardinality(InflightOn(m, n))
                        /\ m.inflightPerNode[n] <= MaxInflightPerNode
    /\ \A i \in 1 .. Len(m.pendingQ) : m.pendingQ[i].node \in Nodes
    /\ \A i, j \in 1 .. Len(m.pendingQ) : m.pendingQ[i].slot = m.pendingQ[j].slot => i = j

\* A queued request is the one its worker waits for.
QueueMatches ==
    \A i \in 1 .. Len(mgr.pendingQ) :
        LET req == mgr.pendingQ[i] IN
        req.seq = sw[req.slot].reqSeq /\ req.node = sw[req.slot].node

GroupDoneSent ==
    (\E w \in Workers : mgr.rspOut[w] = <<GroupDone>> \/ mbox[w].groupDone)
        => AllWorkersFinished(mgr) /\ mgr.pendingQ = <<>>

\* The inductive invariant: every reachable state of the protocol satisfies it
\* and every handler, tick and software step preserves it.
IInv ==
    /\ TypeOK
    /\ ManagerInv(mgr)
    /\ \A w \in Workers : WorkerInv(w)
    /\ QueueMatches
    /\ NotStranded
    /\ GroupDoneSent

\* The request of worker w, or the grant that answers it, is under way.
UnderWay(w) ==
    \/ mbox[w].reqValid
    \/ RequestOnLink(w)
    \/ Queued(mgr, w)
    \/ GrantOnLink(w)
    \/ mbox[w].grantSeq = sw[w].reqSeq

\* A queue with a place for every worker drops nothing: what a worker waits
\* for is under way.
RequestKept ==
    QueueDepth >= Cardinality(Workers) =>
        \A w \in Workers : sw[w].phase = "wait" => UnderWay(w)

-----------------------------------------------------------------------------
(* What the handlers rely on in trySchedule and in the return of a grant.     *)

\* From m to t the manager did nothing to worker w.
Untouched(m, t, w) ==
    /\ t.inflight[w] <=> m.inflight[w]
    /\ t.inflightNode[w] = m.inflightNode[w]
    /\ t.rspOut[w] = m.rspOut[w]
    /\ Queued(t, w) <=> Queued(m, w)

\* From m to t the manager granted the queued request of worker w.
GrantedTo(m, t, w) ==
    /\ ~m.inflight[w] /\ t.inflight[w] /\ ~Queued(t, w)
    /\ \E i \in 1 .. Len(m.pendingQ) :
         /\ m.pendingQ[i].slot = w
         /\ t.inflightNode[w] = m.pendingQ[i].node
         /\ \E msg \in RspMsg : /\ msg.type = "GRANT" /\ msg.seq = m.pendingQ[i].seq
                                /\ t.rspOut[w] = Append(m.rspOut[w], msg)

\* From m to t the manager granted some of the queued requests.
Advanced(m, t) ==
    /\ t.finished = m.finished
    /\ \A j \in 1 .. Len(t.pendingQ) : \E i \in 1 .. Len(m.pendingQ) : t.pendingQ[j] = m.pendingQ[i]
    /\ \A w \in Workers : Untouched(m, t, w) \/ GrantedTo(m, t, w)

\* While requests are queued at m some worker is inflight.
QueueHasHolder(m) == m.pendingQ # <<>> => \E w \in Workers : m.inflight[w]

\* trySchedule grants some queued requests, keeps the accounting, and leaves
\* requests behind only if somebody is inflight.
ScheduleContract ==
    \A m \in Manager : ManagerInv(m) =>
        LET t == TrySchedule(m) IN
        t \in Manager /\ Advanced(m, t) /\ ManagerInv(t) /\ QueueHasHolder(t)

\* Returning a grant frees its node and touches no other worker.
ReturnContract ==
    \A m \in Manager : \A w \in Workers : m.inflight[w] /\ ManagerInv(m) =>
        LET t == ReturnGrant(m, w) IN
        /\ t \in Manager /\ ManagerInv(t) /\ ~t.inflight[w]
        /\ \A v \in Workers : v # w => Untouched(m, t, v)
        /\ t.pendingQ = m.pendingQ /\ t.finished = m.finished /\ t.rspOut = m.rspOut
=============================================================================
