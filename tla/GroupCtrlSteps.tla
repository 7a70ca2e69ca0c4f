--------------------------- MODULE GroupCtrlSteps ---------------------------
(* The manager's handlers and the worker's steps (its endpoint's tick and    *)
(* handleRsp, and every access of the software to the mailbox) preserve the  *)
(* inductive invariant of GroupCtrlInv, given that trySchedule and the       *)
(* return of a grant keep their contracts and that the step keeps the types. *)
(* Both are proved in the second half, for any number of workers up to four, *)
(* any number of nodes and any bounds.                                       *)
EXTENDS GroupCtrlInv, TLAPS

\* A leaf is tried with Zenon, then with SMT.
USE ZenonT(5), SMTT(20)

-----------------------------------------------------------------------------
(* Sequences. *)

LEMMA ElementInSet ==
    ASSUME NEW S, NEW s \in Seq(S), NEW i \in 1 .. Len(s)
    PROVE  s[i] \in S
OBVIOUS

LEMMA HeadInSet ==
    ASSUME NEW S, NEW s \in Seq(S), s # <<>>
    PROVE  Head(s) \in S /\ Head(s) = s[1]
OBVIOUS

LEMMA TailOfOne ==
    ASSUME NEW S, NEW s \in Seq(S), Len(s) = 1
    PROVE  Tail(s) = <<>>
<1> DEFINE t == Tail(s)
<1>1. t \in Seq(S) /\ Len(t) = 0
  OBVIOUS
<1> HIDE DEF t
<1>2. t = <<>>
  BY <1>1
<1> QED BY <1>2 DEF t

LEMMA ConcatElements ==
    ASSUME NEW S, NEW s \in Seq(S), NEW t \in Seq(S)
    PROVE  /\ s \o t \in Seq(S) /\ Len(s \o t) = Len(s) + Len(t)
           /\ \A i \in 1 .. Len(s) : (s \o t)[i] = s[i]
           /\ \A i \in 1 .. Len(t) : (s \o t)[i + Len(s)] = t[i]
OBVIOUS

LEMMA SameElements ==
    ASSUME NEW S, NEW s \in Seq(S), NEW t \in Seq(S),
           Len(s) = Len(t), \A i \in 1 .. Len(s) : s[i] = t[i]
    PROVE  s = t
OBVIOUS

-----------------------------------------------------------------------------
(* The workers. *)

LEMMA MsgKinds ==
    ASSUME NEW w
    PROVE  /\ R(w).type = "REQUEST" /\ D(w).type = "DONE" /\ Finished.type = "FINISHED"
           /\ R(w)'.type = "REQUEST" /\ D(w)'.type = "DONE"
           /\ R(w) # D(w) /\ R(w) # Finished /\ D(w) # Finished
           /\ R(w)' # D(w) /\ R(w)' # D(w)' /\ R(w) # D(w)' /\ R(w)' # Finished /\ D(w)' # Finished
BY DEF R, D, Request, Done, Finished

\* What worker v owns did not change.
SameWorker(v) ==
    /\ reqOut'[v] = reqOut[v]
    /\ seen'[v] = seen[v]
    /\ mbox'[v] = mbox[v]
    /\ sw'[v] = sw[v]

LEMMA SameWorkerFlags ==
    ASSUME NEW v \in Workers, SameWorker(v)
    PROVE  /\ LinkShape(v)' <=> LinkShape(v)
           /\ RequestOnLink(v)' <=> RequestOnLink(v)
           /\ DoneOnLink(v)' <=> DoneOnLink(v)
           /\ FinishedOnLink(v)' <=> FinishedOnLink(v)
           /\ RequestWords(v)' <=> RequestWords(v)
           /\ DoneWords(v)' <=> DoneWords(v)
           /\ GrantInMailbox(v)' <=> GrantInMailbox(v)
           /\ Holds(v)' <=> Holds(v)
<1>1. R(v)' = R(v) /\ D(v)' = D(v)
  BY DEF SameWorker, R, D
<1>2. /\ LinkShape(v)' <=> LinkShape(v)
      /\ RequestOnLink(v)' <=> RequestOnLink(v)
      /\ DoneOnLink(v)' <=> DoneOnLink(v)
      /\ FinishedOnLink(v)' <=> FinishedOnLink(v)
  BY <1>1 DEF SameWorker, LinkShape, RequestOnLink, DoneOnLink, FinishedOnLink
<1>3. /\ RequestWords(v)' <=> RequestWords(v)
      /\ DoneWords(v)' <=> DoneWords(v)
  BY DEF SameWorker, RequestWords, DoneWords
<1>4. /\ GrantInMailbox(v)' <=> GrantInMailbox(v)
      /\ Holds(v)' <=> Holds(v)
  BY DEF SameWorker, GrantInMailbox, Holds
<1> QED BY <1>2, <1>3, <1>4

\* The invariant of a worker that a step does not concern.
LEMMA WorkerFrame ==
    ASSUME NEW v \in Workers, WorkerInv(v), SameWorker(v), Untouched(mgr, mgr', v),
           mgr'.finished[v] <=> mgr.finished[v]
    PROVE  WorkerInv(v)'
<1>1. (GrantOnLink(v)' <=> GrantOnLink(v)) /\ (RspShape(v)' <=> RspShape(v))
  BY DEF SameWorker, Untouched, GrantOnLink, RspShape
<1>2. Queued(mgr, v)' <=> Queued(mgr, v)
  BY DEF Untouched, Queued
<1>3. RequestToken(v)'
  BY <1>1, <1>2, SameWorkerFlags DEF WorkerInv, RequestToken, SameWorker
<1>4. GrantToken(v)'
  BY <1>1, SameWorkerFlags
     DEF WorkerInv, GrantToken, GrantAtWorker, GrantReturning, SameWorker, Untouched
<1>5. FinishToken(v)'
  BY SameWorkerFlags DEF WorkerInv, FinishToken, SameWorker
<1> QED BY <1>1, <1>3, <1>4, <1>5, SameWorkerFlags DEF WorkerInv

\* The invariant of a worker whose queued request is granted.
LEMMA WorkerGranted ==
    ASSUME NEW v \in Workers, WorkerInv(v), SameWorker(v), TypeOK,
           QueueMatches, mgr.rspOut[v] # <<GroupDone>>,
           GrantedTo(mgr, mgr', v), mgr'.finished[v] <=> mgr.finished[v]
    PROVE  WorkerInv(v)'
<1>1. PICK i \in 1 .. Len(mgr.pendingQ), msg \in RspMsg :
        /\ mgr.pendingQ[i].slot = v
        /\ mgr'.inflightNode[v] = mgr.pendingQ[i].node
        /\ msg.type = "GRANT" /\ msg.seq = mgr.pendingQ[i].seq
        /\ mgr'.rspOut[v] = Append(mgr.rspOut[v], msg)
  BY DEF GrantedTo
<1>2. msg.seq = sw[v].reqSeq /\ mgr'.inflightNode[v] = sw[v].node
  BY <1>1 DEF QueueMatches
<1>3. Queued(mgr, v) /\ ~mgr.inflight[v] /\ mgr'.inflight[v] /\ ~Queued(mgr, v)'
  BY <1>1 DEF GrantedTo, Queued
<1>4. /\ sw[v].phase = "wait" /\ mbox[v].grantSeq # sw[v].reqSeq
      /\ ~mbox[v].reqValid /\ ~RequestOnLink(v) /\ ~GrantOnLink(v)
  BY <1>3 DEF WorkerInv, RequestToken
<1>5. mgr.rspOut[v] = <<>>
  BY <1>4 DEF WorkerInv, RspShape
<1>6. mgr'.rspOut[v] = <<msg>>
  BY <1>1, <1>5
<1>7. GrantOnLink(v)'
  BY <1>1, <1>2, <1>6 DEF GrantOnLink, SameWorker
<1>8. RequestToken(v)'
  BY <1>3, <1>4, <1>7, SameWorkerFlags DEF RequestToken, SameWorker
<1>9. GrantToken(v)'
  BY <1>2, <1>3, <1>7, SameWorkerFlags
     DEF WorkerInv, GrantToken, GrantAtWorker, GrantReturning, SameWorker
<1>10. FinishToken(v)'
  BY SameWorkerFlags DEF WorkerInv, FinishToken, SameWorker
<1> QED BY <1>7, <1>8, <1>9, <1>10, SameWorkerFlags DEF WorkerInv, RspShape

LEMMA ShortTuples ==
    ASSUME NEW a, NEW b
    PROVE  /\ Head(<<a>>) = a /\ Tail(<<a>>) = <<>>
           /\ Head(<<a, b>>) = a /\ Tail(<<a, b>>) = <<b>>
OBVIOUS

LEMMA TuplesDiffer ==
    ASSUME NEW r, NEW d, NEW f, r # d, r # f, d # f
    PROVE  /\ <<r>> # <<>> /\ <<d>> # <<>> /\ <<f>> # <<>>
           /\ <<r, d>> # <<>> /\ <<d, r>> # <<>> /\ <<d, f>> # <<>>
           /\ <<r>> # <<d>> /\ <<r>> # <<f>> /\ <<d>> # <<f>>
           /\ <<r>> # <<r, d>> /\ <<r>> # <<d, r>> /\ <<r>> # <<d, f>>
           /\ <<d>> # <<r, d>> /\ <<d>> # <<d, r>> /\ <<d>> # <<d, f>>
           /\ <<f>> # <<r, d>> /\ <<f>> # <<d, r>> /\ <<f>> # <<d, f>>
           /\ <<r, d>> # <<d, r>> /\ <<r, d>> # <<d, f>> /\ <<d, r>> # <<d, f>>
<1>1. \A a, b : <<a, b>> # <<>> /\ <<a>> # <<>>
  OBVIOUS
<1>2. \A a, b, c : <<a>> # <<b, c>>
  OBVIOUS
<1>3. \A a, b : <<a>> = <<b>> => a = b
  OBVIOUS
<1>4. \A a, b, c, e : <<a, b>> = <<c, e>> => a = c /\ b = e
  OBVIOUS
<1> QED BY <1>1, <1>2, <1>3, <1>4, Zenon

\* The shape of the link tells which messages are on it.
LEMMA LinkContents ==
    ASSUME NEW w
    PROVE  /\ reqOut[w] = <<>> => ~RequestOnLink(w) /\ ~DoneOnLink(w) /\ ~FinishedOnLink(w)
           /\ reqOut[w] = <<R(w)>> => RequestOnLink(w) /\ ~DoneOnLink(w) /\ ~FinishedOnLink(w)
           /\ reqOut[w] = <<D(w)>> => ~RequestOnLink(w) /\ DoneOnLink(w) /\ ~FinishedOnLink(w)
           /\ reqOut[w] = <<Finished>> => ~RequestOnLink(w) /\ ~DoneOnLink(w) /\ FinishedOnLink(w)
           /\ reqOut[w] = <<R(w), D(w)>> => RequestOnLink(w) /\ DoneOnLink(w) /\ ~FinishedOnLink(w)
           /\ reqOut[w] = <<D(w), R(w)>> => RequestOnLink(w) /\ DoneOnLink(w) /\ ~FinishedOnLink(w)
           /\ reqOut[w] = <<D(w), Finished>> =>
                ~RequestOnLink(w) /\ DoneOnLink(w) /\ FinishedOnLink(w)
<1>1. R(w) # D(w) /\ R(w) # Finished /\ D(w) # Finished
  BY MsgKinds
<1> DEFINE r == <<R(w)>>  d == <<D(w)>>  f == <<Finished>>
           rd == <<R(w), D(w)>>  dr == <<D(w), R(w)>>  df == <<D(w), Finished>>
<1>2. /\ r # <<>> /\ d # <<>> /\ f # <<>> /\ rd # <<>> /\ dr # <<>> /\ df # <<>>
      /\ r # d /\ r # f /\ d # f /\ r # rd /\ r # dr /\ r # df /\ d # rd /\ d # dr /\ d # df
      /\ f # rd /\ f # dr /\ f # df /\ rd # dr /\ rd # df /\ dr # df
  BY <1>1, TuplesDiffer
<1>3. /\ RequestOnLink(w) <=> reqOut[w] = r \/ reqOut[w] = rd \/ reqOut[w] = dr
      /\ DoneOnLink(w) <=>
           reqOut[w] = d \/ reqOut[w] = rd \/ reqOut[w] = dr \/ reqOut[w] = df
      /\ FinishedOnLink(w) <=> reqOut[w] = f \/ reqOut[w] = df
  BY DEF RequestOnLink, DoneOnLink, FinishedOnLink
<1> HIDE DEF r, d, f, rd, dr, df
<1>4. /\ reqOut[w] = <<>> => ~RequestOnLink(w) /\ ~DoneOnLink(w) /\ ~FinishedOnLink(w)
      /\ reqOut[w] = r => RequestOnLink(w) /\ ~DoneOnLink(w) /\ ~FinishedOnLink(w)
      /\ reqOut[w] = d => ~RequestOnLink(w) /\ DoneOnLink(w) /\ ~FinishedOnLink(w)
      /\ reqOut[w] = f => ~RequestOnLink(w) /\ ~DoneOnLink(w) /\ FinishedOnLink(w)
      /\ reqOut[w] = rd => RequestOnLink(w) /\ DoneOnLink(w) /\ ~FinishedOnLink(w)
      /\ reqOut[w] = dr => RequestOnLink(w) /\ DoneOnLink(w) /\ ~FinishedOnLink(w)
      /\ reqOut[w] = df => ~RequestOnLink(w) /\ DoneOnLink(w) /\ FinishedOnLink(w)
  BY <1>2, <1>3
<1> QED BY <1>4 DEF r, d, f, rd, dr, df

LEMMA LinkContentsPrimed ==
    ASSUME NEW w
    PROVE  /\ reqOut'[w] = <<>> => ~RequestOnLink(w)' /\ ~DoneOnLink(w)' /\ ~FinishedOnLink(w)'
           /\ reqOut'[w] = <<R(w)'>> =>
                RequestOnLink(w)' /\ ~DoneOnLink(w)' /\ ~FinishedOnLink(w)'
           /\ reqOut'[w] = <<D(w)'>> =>
                ~RequestOnLink(w)' /\ DoneOnLink(w)' /\ ~FinishedOnLink(w)'
           /\ reqOut'[w] = <<Finished>> =>
                ~RequestOnLink(w)' /\ ~DoneOnLink(w)' /\ FinishedOnLink(w)'
           /\ reqOut'[w] = <<R(w)', D(w)'>> =>
                RequestOnLink(w)' /\ DoneOnLink(w)' /\ ~FinishedOnLink(w)'
           /\ reqOut'[w] = <<D(w)', R(w)'>> =>
                RequestOnLink(w)' /\ DoneOnLink(w)' /\ ~FinishedOnLink(w)'
           /\ reqOut'[w] = <<D(w)', Finished>> =>
                ~RequestOnLink(w)' /\ DoneOnLink(w)' /\ FinishedOnLink(w)'
<1>1. R(w)' # D(w)' /\ R(w)' # Finished /\ D(w)' # Finished
  BY MsgKinds
<1>2. Finished' = Finished
  BY DEF Finished
<1> DEFINE r == <<R(w)'>>  d == <<D(w)'>>  f == <<Finished>>  s == reqOut'[w]
           rd == <<R(w)', D(w)'>>  dr == <<D(w)', R(w)'>>  df == <<D(w)', Finished>>
<1>3. /\ r # <<>> /\ d # <<>> /\ f # <<>> /\ rd # <<>> /\ dr # <<>> /\ df # <<>>
      /\ r # d /\ r # f /\ d # f /\ r # rd /\ r # dr /\ r # df /\ d # rd /\ d # dr /\ d # df
      /\ f # rd /\ f # dr /\ f # df /\ rd # dr /\ rd # df /\ dr # df
  BY <1>1, TuplesDiffer
<1>4. /\ RequestOnLink(w)' <=> s = r \/ s = rd \/ s = dr
      /\ DoneOnLink(w)' <=> s = d \/ s = rd \/ s = dr \/ s = df
      /\ FinishedOnLink(w)' <=> s = f \/ s = df
  BY <1>2 DEF RequestOnLink, DoneOnLink, FinishedOnLink
<1> HIDE DEF r, d, f, rd, dr, df, s
<1>5. /\ s = <<>> => ~RequestOnLink(w)' /\ ~DoneOnLink(w)' /\ ~FinishedOnLink(w)'
      /\ s = r => RequestOnLink(w)' /\ ~DoneOnLink(w)' /\ ~FinishedOnLink(w)'
      /\ s = d => ~RequestOnLink(w)' /\ DoneOnLink(w)' /\ ~FinishedOnLink(w)'
      /\ s = f => ~RequestOnLink(w)' /\ ~DoneOnLink(w)' /\ FinishedOnLink(w)'
      /\ s = rd => RequestOnLink(w)' /\ DoneOnLink(w)' /\ ~FinishedOnLink(w)'
      /\ s = dr => RequestOnLink(w)' /\ DoneOnLink(w)' /\ ~FinishedOnLink(w)'
      /\ s = df => ~RequestOnLink(w)' /\ DoneOnLink(w)' /\ FinishedOnLink(w)'
  BY <1>3, <1>4
<1> QED BY <1>5 DEF r, d, f, rd, dr, df, s

\* Taking the head of the link of worker w removes one message and concerns
\* no other worker.
LEMMA ReceiveLink ==
    ASSUME TypeOK, NEW w \in Workers, WorkerInv(w), NEW type, Receive(w, type)
    PROVE  /\ \A v \in Workers : v # w => SameWorker(v)
           /\ seen' = seen /\ mbox' = mbox /\ sw' = sw
           /\ LinkShape(w)'
           /\ RequestWords(w)' /\ DoneWords(w)'
           /\ GrantInMailbox(w)' <=> GrantInMailbox(w)
           /\ Holds(w)' <=> Holds(w)
           /\ ~mgr.finished[w]
           /\ type = "REQUEST" =>
                /\ Head(reqOut[w]) = R(w)
                /\ RequestOnLink(w) /\ ~RequestOnLink(w)'
                /\ DoneOnLink(w)' <=> DoneOnLink(w)
                /\ FinishedOnLink(w)' <=> FinishedOnLink(w)
           /\ type = "DONE" =>
                /\ DoneOnLink(w) /\ ~DoneOnLink(w)'
                /\ RequestOnLink(w)' <=> RequestOnLink(w)
                /\ FinishedOnLink(w)' <=> FinishedOnLink(w)
           /\ type = "FINISHED" =>
                /\ FinishedOnLink(w) /\ ~DoneOnLink(w) /\ ~RequestOnLink(w)
                /\ reqOut'[w] = <<>>
                /\ ~FinishedOnLink(w)' /\ ~DoneOnLink(w)' /\ ~RequestOnLink(w)'
<1>1. /\ reqOut[w] # <<>> /\ Head(reqOut[w]).type = type
      /\ reqOut' = [reqOut EXCEPT ![w] = Tail(reqOut[w])]
      /\ seen' = seen /\ mbox' = mbox /\ sw' = sw
  BY DEF Receive
<1>2. reqOut'[w] = Tail(reqOut[w]) /\ \A v \in Workers : v # w => reqOut'[v] = reqOut[v]
  BY <1>1 DEF TypeOK
<1>3. R(w)' = R(w) /\ D(w)' = D(w)
  BY <1>1 DEF R, D
<1>4. \A v \in Workers : v # w => SameWorker(v)
  BY <1>1, <1>2 DEF SameWorker
<1>5. /\ RequestWords(w)' /\ DoneWords(w)'
      /\ GrantInMailbox(w)' <=> GrantInMailbox(w)
      /\ Holds(w)' <=> Holds(w)
  BY <1>1 DEF WorkerInv, RequestWords, DoneWords, GrantInMailbox, Holds
<1>6. ~mgr.finished[w]
  BY <1>1 DEF WorkerInv, FinishToken
<1>7. \/ /\ type = "REQUEST" /\ Head(reqOut[w]) = R(w)
         /\ \/ reqOut[w] = <<R(w)>> /\ reqOut'[w] = <<>>
            \/ reqOut[w] = <<R(w), D(w)>> /\ reqOut'[w] = <<D(w)>>
      \/ /\ type = "DONE"
         /\ \/ reqOut[w] = <<D(w)>> /\ reqOut'[w] = <<>>
            \/ reqOut[w] = <<D(w), R(w)>> /\ reqOut'[w] = <<R(w)>>
            \/ reqOut[w] = <<D(w), Finished>> /\ reqOut'[w] = <<Finished>>
      \/ type = "FINISHED" /\ reqOut[w] = <<Finished>> /\ reqOut'[w] = <<>>
  <2>1. LinkShape(w)
    BY DEF WorkerInv
  <2>2. /\ R(w).type = "REQUEST" /\ D(w).type = "DONE" /\ Finished.type = "FINISHED"
    BY MsgKinds
  <2>3. CASE reqOut[w] = <<R(w)>>
    <3>1. Head(reqOut[w]) = R(w) /\ reqOut'[w] = <<>>
      BY <1>2, <2>3, ShortTuples
    <3> QED BY <1>1, <2>2, <2>3, <3>1
  <2>4. CASE reqOut[w] = <<R(w), D(w)>>
    <3>1. Head(reqOut[w]) = R(w) /\ reqOut'[w] = <<D(w)>>
      BY <1>2, <2>4, ShortTuples
    <3> QED BY <1>1, <2>2, <2>4, <3>1
  <2>5. CASE reqOut[w] = <<D(w)>>
    <3>1. Head(reqOut[w]) = D(w) /\ reqOut'[w] = <<>>
      BY <1>2, <2>5, ShortTuples
    <3> QED BY <1>1, <2>2, <2>5, <3>1
  <2>6. CASE reqOut[w] = <<D(w), R(w)>>
    <3>1. Head(reqOut[w]) = D(w) /\ reqOut'[w] = <<R(w)>>
      BY <1>2, <2>6, ShortTuples
    <3> QED BY <1>1, <2>2, <2>6, <3>1
  <2>7. CASE reqOut[w] = <<D(w), Finished>>
    <3>1. Head(reqOut[w]) = D(w) /\ reqOut'[w] = <<Finished>>
      BY <1>2, <2>7, ShortTuples
    <3> QED BY <1>1, <2>2, <2>7, <3>1
  <2>8. CASE reqOut[w] = <<Finished>>
    <3>1. reqOut'[w] = <<>> /\ Head(reqOut[w]) = Finished
      BY <1>2, <2>8, ShortTuples
    <3> QED BY <1>1, <2>2, <2>8, <3>1
  <2> QED BY <1>1, <2>1, <2>3, <2>4, <2>5, <2>6, <2>7, <2>8 DEF LinkShape
<1>8. LinkShape(w)'
  BY <1>3, <1>7 DEF LinkShape
<1>9. CASE type = "REQUEST"
  BY <1>1, <1>3, <1>4, <1>5, <1>6, <1>7, <1>8, <1>9, LinkContents, LinkContentsPrimed
<1>10. CASE type = "DONE"
  BY <1>1, <1>3, <1>4, <1>5, <1>6, <1>7, <1>8, <1>10, LinkContents, LinkContentsPrimed
<1>11. CASE type = "FINISHED"
  BY <1>1, <1>3, <1>4, <1>5, <1>6, <1>7, <1>8, <1>11, LinkContents, LinkContentsPrimed
<1> QED BY <1>7, <1>9, <1>10, <1>11

\* A GRANT at the end of a link is no GROUP_DONE.
LEMMA NoGroupDone ==
    ASSUME NEW m \in Manager, NEW t \in Manager, Advanced(m, t),
           NEW v \in Workers, m.rspOut[v] # <<GroupDone>>
    PROVE  t.rspOut[v] # <<GroupDone>>
<1>1. CASE Untouched(m, t, v)
  BY <1>1 DEF Untouched
<1>2. CASE GrantedTo(m, t, v)
  <2>1. PICK msg \in RspMsg : msg.type = "GRANT" /\ t.rspOut[v] = Append(m.rspOut[v], msg)
    BY <1>2 DEF GrantedTo
  <2>2. m.rspOut[v] \in Seq(RspMsg)
    BY DEF Manager
  <2>3. /\ Len(t.rspOut[v]) = Len(m.rspOut[v]) + 1
        /\ t.rspOut[v][Len(m.rspOut[v]) + 1] = msg
    BY <2>1, <2>2
  <2>4. msg # GroupDone
    BY <2>1 DEF GroupDone
  <2> SUFFICES ASSUME t.rspOut[v] = <<GroupDone>> PROVE FALSE
    OBVIOUS
  <2>5. Len(m.rspOut[v]) + 1 = 1
    BY <2>3
  <2> QED BY <2>3, <2>4, <2>5
<1> QED BY <1>1, <1>2 DEF Advanced

\* A message of worker w is on its link, so w has not finished and no
\* GROUP_DONE has been sent.
LEMMA NotDoneYet ==
    ASSUME IInv, TypeOK', NEW w \in Workers, reqOut[w] # <<>>
    PROVE  /\ ~AllWorkersFinished(mgr)
           /\ \A v \in Workers : mgr.rspOut[v] # <<GroupDone>> /\ ~mbox[v].groupDone
<1>1. ~mgr.finished[w]
  BY DEF IInv, WorkerInv, FinishToken
<1> QED BY <1>1 DEF IInv, GroupDoneSent, AllWorkersFinished

\* handleReq, REQUEST: the manager after the request has been queued.
Enqueued(m, w, msg) ==
    [m EXCEPT !.pendingQ = Append(@,
        [slot |-> w, seq |-> msg.seq, node |-> msg.node, window |-> msg.window])]

LEMMA EnqueuedEffect ==
    ASSUME NEW m \in Manager, NEW w \in Workers, NEW msg \in ReqMsg,
           ManagerInv(m), ~Queued(m, w), msg.node \in Nodes
    PROVE  LET t == Enqueued(m, w, msg) IN
           /\ t \in Manager /\ ManagerInv(t)
           /\ t.inflight = m.inflight /\ t.inflightNode = m.inflightNode
           /\ t.finished = m.finished /\ t.rspOut = m.rspOut
           /\ \A i \in 1 .. Len(t.pendingQ) :
                \/ \E k \in 1 .. Len(m.pendingQ) : t.pendingQ[i] = m.pendingQ[k]
                \/ /\ t.pendingQ[i].slot = w /\ t.pendingQ[i].seq = msg.seq
                   /\ t.pendingQ[i].node = msg.node
           /\ Queued(t, w)
           /\ \A v \in Workers : v # w => (Queued(t, v) <=> Queued(m, v))
<1> DEFINE req == [slot |-> w, seq |-> msg.seq, node |-> msg.node, window |-> msg.window]
           q == m.pendingQ
           p == Append(q, req)
           t == [m EXCEPT !.pendingQ = p]
<1>0. Enqueued(m, w, msg) = t
  BY DEF Enqueued
<1>1. req \in PendingReq /\ req.slot = w /\ req.seq = msg.seq /\ req.node = msg.node
  BY DEF ReqMsg, PendingReq
<1>2. q \in Seq(PendingReq) /\ Len(q) \in Nat
  BY DEF Manager
<1> HIDE DEF req
<1>3. /\ p \in Seq(PendingReq) /\ Len(p) = Len(q) + 1
      /\ \A i \in 1 .. Len(q) : p[i] = q[i]
      /\ p[Len(q) + 1] = req
  BY <1>1, <1>2
<1> HIDE DEF p
<1>4. /\ t \in Manager /\ t.pendingQ = p /\ t.inflight = m.inflight
      /\ t.inflightNode = m.inflightNode /\ t.inflightPerNode = m.inflightPerNode
      /\ t.finished = m.finished /\ t.rspOut = m.rspOut
  BY <1>3 DEF Manager
<1> HIDE DEF t, q
<1>5. ASSUME NEW i \in 1 .. Len(p)
      PROVE  (i \in 1 .. Len(q) /\ p[i] = q[i]) \/ (i = Len(q) + 1 /\ p[i] = req)
  BY <1>2, <1>3
<1>6. \A i \in 1 .. Len(q) : q[i].slot # w
  BY DEF Queued, q
<1>7. \A i, j \in 1 .. Len(q) : q[i].slot = q[j].slot => i = j
  BY DEF ManagerInv, q
<1>8. \A i, j \in 1 .. Len(p) : p[i].slot = p[j].slot => i = j
  BY <1>1, <1>5, <1>6, <1>7
<1>9. \A i \in 1 .. Len(p) : p[i].node \in Nodes
  BY <1>1, <1>5 DEF ManagerInv, q
<1>10. ManagerInv(t)
  <2>1. \A n \in Nodes : InflightOn(t, n) = InflightOn(m, n)
    BY <1>4 DEF InflightOn
  <2> QED BY <1>4, <1>8, <1>9, <2>1 DEF ManagerInv
<1>11. \A i \in 1 .. Len(q) : i \in 1 .. Len(p)
  BY <1>2, <1>3
<1>12. Len(q) + 1 \in 1 .. Len(p)
  BY <1>2, <1>3
<1>13. Queued(t, w)
  BY <1>1, <1>3, <1>4, <1>12 DEF Queued
<1>14. \A v \in Workers : v # w => (Queued(t, v) <=> Queued(m, v))
  BY <1>1, <1>3, <1>4, <1>5, <1>11 DEF Queued, q
<1>15. \A i \in 1 .. Len(t.pendingQ) :
                \/ \E k \in 1 .. Len(m.pendingQ) : t.pendingQ[i] = m.pendingQ[k]
                \/ /\ t.pendingQ[i].slot = w /\ t.pendingQ[i].seq = msg.seq
                   /\ t.pendingQ[i].node = msg.node
  BY <1>1, <1>4, <1>5 DEF q
<1> QED BY <1>0, <1>4, <1>10, <1>13, <1>14, <1>15

\* What trySchedule, run on a manager m that differs from mgr only in what
\* concerns worker w, does to the others.
LEMMA OthersAdvanced ==
    ASSUME IInv, TypeOK', NEW w \in Workers, reqOut[w] # <<>>,
           NEW m \in Manager, NEW v \in Workers, v # w, SameWorker(v),
           Untouched(mgr, m, v), m.finished = mgr.finished,
           \A i \in 1 .. Len(m.pendingQ) : m.pendingQ[i].slot = v =>
                \E k \in 1 .. Len(mgr.pendingQ) : m.pendingQ[i] = mgr.pendingQ[k],
           Advanced(m, mgr')
    PROVE  WorkerInv(v)'
<1>0. TypeOK /\ QueueMatches /\ WorkerInv(v) /\ mgr.rspOut[v] # <<GroupDone>>
  BY NotDoneYet DEF IInv
<1>1. mgr'.finished[v] <=> mgr.finished[v]
  BY DEF Advanced
<1>2. CASE Untouched(m, mgr', v)
  <2>1. Untouched(mgr, mgr', v)
    BY <1>2 DEF Untouched
  <2> QED BY <1>0, <1>1, <2>1, WorkerFrame
<1>3. CASE GrantedTo(m, mgr', v)
  <2>1. GrantedTo(mgr, mgr', v)
    <3>1. PICK i \in 1 .. Len(m.pendingQ) :
            /\ m.pendingQ[i].slot = v
            /\ mgr'.inflightNode[v] = m.pendingQ[i].node
            /\ \E msg \in RspMsg : /\ msg.type = "GRANT" /\ msg.seq = m.pendingQ[i].seq
                                   /\ mgr'.rspOut[v] = Append(m.rspOut[v], msg)
      BY <1>3 DEF GrantedTo
    <3>2. PICK k \in 1 .. Len(mgr.pendingQ) : m.pendingQ[i] = mgr.pendingQ[k]
      BY <3>1
    <3>3. ~mgr.inflight[v] /\ mgr'.inflight[v] /\ ~Queued(mgr', v) /\ mgr.rspOut[v] = m.rspOut[v]
      BY <1>3 DEF GrantedTo, Untouched
    <3>4. /\ mgr.pendingQ[k].slot = v /\ mgr'.inflightNode[v] = mgr.pendingQ[k].node
          /\ \E msg \in RspMsg : /\ msg.type = "GRANT" /\ msg.seq = mgr.pendingQ[k].seq
                                 /\ mgr'.rspOut[v] = Append(mgr.rspOut[v], msg)
      BY <3>1, <3>2, <3>3
    <3> QED BY <3>3, <3>4 DEF GrantedTo
  <2> QED BY <1>0, <1>1, <2>1, WorkerGranted
<1> QED BY <1>2, <1>3 DEF Advanced

LEMMA HandleRequestInv ==
    ASSUME ScheduleContract, IInv, TypeOK', NEW w \in Workers, HandleRequest(w)
    PROVE  IInv'
<1> DEFINE msg == Head(reqOut[w])
           m == Enqueued(mgr, w, msg)
<1>1. Receive(w, "REQUEST") /\ reqOut[w] # <<>> /\ mgr' = OnRequest(mgr, w, msg)
  BY DEF HandleRequest, Receive
<1>2. TypeOK /\ mgr \in Manager /\ ManagerInv(mgr) /\ WorkerInv(w)
  BY DEF IInv, TypeOK
<1>3. TypeOK'
  OBVIOUS
<1>4. /\ \A v \in Workers : v # w => SameWorker(v)
      /\ seen' = seen /\ mbox' = mbox /\ sw' = sw
      /\ LinkShape(w)' /\ RequestWords(w)' /\ DoneWords(w)'
      /\ GrantInMailbox(w)' <=> GrantInMailbox(w)
      /\ Holds(w)' <=> Holds(w)
      /\ ~mgr.finished[w]
      /\ msg = R(w)
      /\ RequestOnLink(w) /\ ~RequestOnLink(w)'
      /\ DoneOnLink(w)' <=> DoneOnLink(w)
      /\ FinishedOnLink(w)' <=> FinishedOnLink(w)
  BY <1>1, <1>2, ReceiveLink
<1>5. \A v \in Workers : mgr.rspOut[v] # <<GroupDone>> /\ ~mbox[v].groupDone
  BY <1>1, NotDoneYet
<1>6. /\ sw[w].phase = "wait" /\ mbox[w].grantSeq # sw[w].reqSeq
      /\ ~mbox[w].reqValid /\ ~Queued(mgr, w) /\ ~GrantOnLink(w)
  BY <1>2, <1>4 DEF WorkerInv, RequestToken
<1>7. mgr.rspOut[w] = <<>>
  BY <1>2, <1>5, <1>6 DEF WorkerInv, RspShape
<1>8. CASE Len(mgr.pendingQ) >= QueueDepth
  <2>1. mgr' = mgr
    BY <1>1, <1>8 DEF OnRequest
  <2>2. \A v \in Workers : Untouched(mgr, mgr', v) /\ (mgr'.finished[v] <=> mgr.finished[v])
    BY <2>1 DEF Untouched
  <2>3. \A v \in Workers : v # w => WorkerInv(v)'
    BY <1>4, <2>2, WorkerFrame DEF IInv
  <2>4. WorkerInv(w)'
    <3>1. (GrantOnLink(w)' <=> GrantOnLink(w)) /\ (RspShape(w)' <=> RspShape(w))
      BY <1>4, <2>1 DEF GrantOnLink, RspShape
    <3>2. ~Queued(mgr, w)'
      BY <1>6, <2>1 DEF Queued
    <3>3. RequestToken(w)'
      BY <1>4, <1>6, <3>1, <3>2 DEF RequestToken
    <3>4. GrantToken(w)'
      BY <1>2, <1>4, <2>1, <3>1 DEF WorkerInv, GrantToken, GrantAtWorker, GrantReturning
    <3>5. FinishToken(w)'
      BY <1>2, <1>4, <2>1 DEF WorkerInv, FinishToken
    <3> QED BY <1>2, <1>4, <3>1, <3>3, <3>4, <3>5 DEF WorkerInv
  <2>5. QueueMatches' /\ NotStranded'
    BY <1>4, <2>1 DEF IInv, QueueMatches, NotStranded
  <2>6. GroupDoneSent'
    BY <1>4, <1>5, <2>1 DEF GroupDoneSent
  <2>7. ManagerInv(mgr)'
    BY <1>2, <2>1 DEF ManagerInv, InflightOn
  <2> QED BY <1>3, <2>3, <2>4, <2>5, <2>6, <2>7 DEF IInv
<1>9. CASE ~(Len(mgr.pendingQ) >= QueueDepth)
  <2>1. mgr' = TrySchedule(m)
    BY <1>1, <1>9 DEF OnRequest, Enqueued
  <2>2. /\ msg \in ReqMsg /\ msg.node \in Nodes
        /\ msg.seq = sw[w].reqSeq /\ msg.node = sw[w].node
    <3>1. reqOut[w] \in Seq(ReqMsg)
      BY <1>2 DEF TypeOK
    <3>2. msg \in ReqMsg
      BY <1>1, <3>1, HeadInSet
    <3> QED BY <1>2, <1>4, <3>2 DEF R, Request, WorkerInv, RequestWords
  <2>3. /\ m \in Manager /\ ManagerInv(m)
        /\ m.inflight = mgr.inflight /\ m.inflightNode = mgr.inflightNode
        /\ m.finished = mgr.finished /\ m.rspOut = mgr.rspOut
        /\ \A i \in 1 .. Len(m.pendingQ) :
             \/ \E k \in 1 .. Len(mgr.pendingQ) : m.pendingQ[i] = mgr.pendingQ[k]
             \/ /\ m.pendingQ[i].slot = w /\ m.pendingQ[i].seq = msg.seq
                /\ m.pendingQ[i].node = msg.node
        /\ Queued(m, w)
        /\ \A v \in Workers : v # w => (Queued(m, v) <=> Queued(mgr, v))
    BY <1>2, <1>6, <2>2, EnqueuedEffect
  <2> HIDE DEF m
  <2>4. /\ Advanced(m, mgr') /\ ManagerInv(mgr') /\ QueueHasHolder(mgr')
    BY <2>1, <2>3 DEF ScheduleContract
  <2>5. ASSUME NEW v \in Workers, v # w PROVE WorkerInv(v)'
    <3>1. Untouched(mgr, m, v)
      BY <2>3, <2>5 DEF Untouched
    <3>2. \A i \in 1 .. Len(m.pendingQ) : m.pendingQ[i].slot = v =>
                \E k \in 1 .. Len(mgr.pendingQ) : m.pendingQ[i] = mgr.pendingQ[k]
      BY <2>3, <2>5
    <3> QED BY <1>1, <1>4, <2>3, <2>4, <2>5, <3>1, <3>2, OthersAdvanced
  <2>6. \A i \in 1 .. Len(m.pendingQ) :
          /\ m.pendingQ[i].seq = sw[m.pendingQ[i].slot].reqSeq
          /\ m.pendingQ[i].node = sw[m.pendingQ[i].slot].node
    <3>1. \A k \in 1 .. Len(mgr.pendingQ) :
            /\ mgr.pendingQ[k].seq = sw[mgr.pendingQ[k].slot].reqSeq
            /\ mgr.pendingQ[k].node = sw[mgr.pendingQ[k].slot].node
      BY DEF IInv, QueueMatches
    <3> SUFFICES ASSUME NEW i \in 1 .. Len(m.pendingQ)
                 PROVE  /\ m.pendingQ[i].seq = sw[m.pendingQ[i].slot].reqSeq
                        /\ m.pendingQ[i].node = sw[m.pendingQ[i].slot].node
      OBVIOUS
    <3>2. CASE \E k \in 1 .. Len(mgr.pendingQ) : m.pendingQ[i] = mgr.pendingQ[k]
      BY <3>1, <3>2
    <3>3. CASE m.pendingQ[i].slot = w /\ m.pendingQ[i].seq = msg.seq /\ m.pendingQ[i].node = msg.node
      BY <2>2, <3>3
    <3> QED BY <2>3, <3>2, <3>3
  <2>7. QueueMatches'
    BY <1>4, <2>4, <2>6 DEF QueueMatches, Advanced
  <2>8. NotStranded'
    BY <2>4 DEF NotStranded, QueueHasHolder
  <2>9. GroupDoneSent'
    <3>1. \A v \in Workers : mgr'.rspOut[v] # <<GroupDone>>
      BY <1>3, <1>5, <2>3, <2>4, NoGroupDone DEF TypeOK
    <3> QED BY <1>4, <1>5, <3>1 DEF GroupDoneSent, GroupDone
  <2>10. mgr'.finished = mgr.finished
    BY <2>3, <2>4 DEF Advanced
  <2>11. CASE Untouched(m, mgr', w)
    <3>1. /\ mgr'.rspOut[w] = <<>> /\ Queued(mgr, w)'
          /\ mgr'.inflight[w] <=> mgr.inflight[w]
          /\ mgr'.inflightNode[w] = mgr.inflightNode[w]
      BY <1>7, <2>3, <2>11 DEF Untouched, Queued
    <3>2. ~GrantOnLink(w)'
      BY <3>1 DEF GrantOnLink
    <3>3. RequestToken(w)'
      BY <1>4, <1>6, <3>1, <3>2 DEF RequestToken
    <3>4. GrantToken(w)'
      BY <1>2, <1>4, <1>6, <3>1, <3>2 DEF WorkerInv, GrantToken, GrantAtWorker, GrantReturning
    <3>5. FinishToken(w)'
      BY <1>2, <1>4, <2>10 DEF WorkerInv, FinishToken
    <3>6. WorkerInv(w)'
      BY <1>4, <3>1, <3>3, <3>4, <3>5 DEF WorkerInv, RspShape
    <3> QED BY <1>3, <2>4, <2>5, <2>7, <2>8, <2>9, <3>6 DEF IInv, ManagerInv, InflightOn
  <2>12. CASE GrantedTo(m, mgr', w)
    <3>1. PICK i \in 1 .. Len(m.pendingQ), g \in RspMsg :
            /\ m.pendingQ[i].slot = w
            /\ mgr'.inflightNode[w] = m.pendingQ[i].node
            /\ g.type = "GRANT" /\ g.seq = m.pendingQ[i].seq
            /\ mgr'.rspOut[w] = Append(m.rspOut[w], g)
      BY <2>12 DEF GrantedTo
    <3>2. mgr'.rspOut[w] = <<g>> /\ g.seq = sw[w].reqSeq /\ mgr'.inflightNode[w] = sw[w].node
      BY <1>7, <2>3, <2>6, <3>1
    <3>3. ~mgr.inflight[w] /\ mgr'.inflight[w] /\ ~Queued(mgr, w)'
      BY <2>3, <2>12 DEF GrantedTo, Queued
    <3>4. GrantOnLink(w)'
      BY <1>4, <3>1, <3>2 DEF GrantOnLink
    <3>5. RequestToken(w)'
      BY <1>4, <1>6, <3>3, <3>4 DEF RequestToken
    <3>6. GrantToken(w)'
      BY <1>2, <1>4, <3>2, <3>3, <3>4 DEF WorkerInv, GrantToken, GrantAtWorker, GrantReturning
    <3>7. FinishToken(w)'
      BY <1>2, <1>4, <2>10 DEF WorkerInv, FinishToken
    <3>8. WorkerInv(w)'
      BY <1>4, <3>4, <3>5, <3>6, <3>7 DEF WorkerInv, RspShape
    <3> QED BY <1>3, <2>4, <2>5, <2>7, <2>8, <2>9, <3>8 DEF IInv, ManagerInv, InflightOn
  <2> QED BY <2>4, <2>11, <2>12 DEF Advanced
<1> QED BY <1>8, <1>9

LEMMA HandleDoneInv ==
    ASSUME ScheduleContract, ReturnContract, IInv, TypeOK', NEW w \in Workers, HandleDone(w)
    PROVE  IInv'
<1> DEFINE m == ReturnGrant(mgr, w)
           t == TrySchedule(m)
<1>1. Receive(w, "DONE") /\ reqOut[w] # <<>> /\ mgr' = MaybeSendGroupDone(t)
  BY DEF HandleDone, Receive, OnDone
<1>2. TypeOK /\ mgr \in Manager /\ ManagerInv(mgr) /\ WorkerInv(w)
  BY DEF IInv, TypeOK
<1>3. TypeOK'
  OBVIOUS
<1>4. /\ \A v \in Workers : v # w => SameWorker(v)
      /\ seen' = seen /\ mbox' = mbox /\ sw' = sw
      /\ LinkShape(w)' /\ RequestWords(w)' /\ DoneWords(w)'
      /\ GrantInMailbox(w)' <=> GrantInMailbox(w)
      /\ Holds(w)' <=> Holds(w)
      /\ ~mgr.finished[w]
      /\ DoneOnLink(w) /\ ~DoneOnLink(w)'
      /\ RequestOnLink(w)' <=> RequestOnLink(w)
      /\ FinishedOnLink(w)' <=> FinishedOnLink(w)
  BY <1>1, <1>2, ReceiveLink
<1>5. \A v \in Workers : mgr.rspOut[v] # <<GroupDone>> /\ ~mbox[v].groupDone
  BY <1>1, NotDoneYet
<1>6. /\ mgr.inflight[w] /\ ~mbox[w].doneValid
      /\ ~GrantOnLink(w) /\ ~GrantInMailbox(w) /\ ~Holds(w)
  BY <1>2, <1>4 DEF WorkerInv, GrantToken, GrantAtWorker, GrantReturning
<1>7. mgr.rspOut[w] = <<>>
  BY <1>2, <1>5, <1>6 DEF WorkerInv, RspShape
<1>8. /\ m \in Manager /\ ManagerInv(m) /\ ~m.inflight[w]
      /\ \A v \in Workers : v # w => Untouched(mgr, m, v)
      /\ m.pendingQ = mgr.pendingQ /\ m.finished = mgr.finished /\ m.rspOut = mgr.rspOut
  BY <1>2, <1>6 DEF ReturnContract
<1> HIDE DEF m
<1>9. t \in Manager /\ Advanced(m, t) /\ ManagerInv(t) /\ QueueHasHolder(t)
  BY <1>8 DEF ScheduleContract
<1> HIDE DEF t
<1>10. t.finished = mgr.finished
  BY <1>8, <1>9 DEF Advanced
<1>11. mgr' = t
  BY <1>1, <1>4, <1>10 DEF MaybeSendGroupDone, AllWorkersFinished
<1>12. ASSUME NEW v \in Workers, v # w PROVE WorkerInv(v)'
  <2>1. Untouched(mgr, m, v) /\ Advanced(m, mgr')
    BY <1>8, <1>9, <1>11, <1>12
  <2>2. \A i \in 1 .. Len(m.pendingQ) : m.pendingQ[i].slot = v =>
              \E k \in 1 .. Len(mgr.pendingQ) : m.pendingQ[i] = mgr.pendingQ[k]
    BY <1>8
  <2> QED BY <1>1, <1>4, <1>8, <1>12, <2>1, <2>2, OthersAdvanced
<1>13. \A i \in 1 .. Len(m.pendingQ) :
          /\ m.pendingQ[i].seq = sw[m.pendingQ[i].slot].reqSeq
          /\ m.pendingQ[i].node = sw[m.pendingQ[i].slot].node
  BY <1>8 DEF IInv, QueueMatches
<1>14. QueueMatches'
  <2>1. ASSUME NEW j \in 1 .. Len(t.pendingQ)
        PROVE  /\ t.pendingQ[j].seq = sw[t.pendingQ[j].slot].reqSeq
               /\ t.pendingQ[j].node = sw[t.pendingQ[j].slot].node
    <3>1. PICK i \in 1 .. Len(m.pendingQ) : t.pendingQ[j] = m.pendingQ[i]
      BY <1>9 DEF Advanced
    <3> QED BY <1>13, <3>1
  <2> QED BY <1>4, <1>11, <2>1 DEF QueueMatches
<1>15. NotStranded'
  BY <1>9, <1>11 DEF NotStranded, QueueHasHolder
<1>16. GroupDoneSent'
  <2>1. \A v \in Workers : mgr'.rspOut[v] # <<GroupDone>>
    BY <1>5, <1>8, <1>9, <1>11, NoGroupDone
  <2> QED BY <1>4, <1>5, <2>1 DEF GroupDoneSent, GroupDone
<1>17. FinishToken(w)'
  BY <1>2, <1>4, <1>10, <1>11 DEF WorkerInv, FinishToken
<1>18. ManagerInv(mgr)'
  BY <1>9, <1>11 DEF ManagerInv, InflightOn
<1>19. CASE Untouched(m, t, w)
  <2>1. /\ mgr'.rspOut[w] = <<>> /\ ~mgr'.inflight[w]
        /\ Queued(mgr, w)' <=> Queued(mgr, w)
    BY <1>7, <1>8, <1>11, <1>19 DEF Untouched, Queued
  <2>2. ~GrantOnLink(w)'
    BY <2>1 DEF GrantOnLink
  <2>3. RequestToken(w)'
    BY <1>2, <1>4, <1>6, <2>1, <2>2 DEF WorkerInv, RequestToken
  <2>4. GrantToken(w)'
    BY <1>4, <1>6, <2>1, <2>2 DEF GrantToken, GrantAtWorker, GrantReturning
  <2>5. WorkerInv(w)'
    BY <1>4, <1>17, <2>1, <2>3, <2>4 DEF WorkerInv, RspShape
  <2> QED BY <1>3, <1>12, <1>14, <1>15, <1>16, <1>18, <2>5 DEF IInv
<1>20. CASE GrantedTo(m, t, w)
  <2>1. PICK i \in 1 .. Len(m.pendingQ), g \in RspMsg :
          /\ m.pendingQ[i].slot = w
          /\ t.inflightNode[w] = m.pendingQ[i].node
          /\ g.type = "GRANT" /\ g.seq = m.pendingQ[i].seq
          /\ t.rspOut[w] = Append(m.rspOut[w], g)
    BY <1>20 DEF GrantedTo
  <2>2. /\ mgr'.rspOut[w] = <<g>> /\ g.seq = sw[w].reqSeq
        /\ mgr'.inflightNode[w] = sw[w].node
    BY <1>7, <1>8, <1>11, <1>13, <2>1
  <2>3. mgr'.inflight[w] /\ ~Queued(mgr, w)' /\ Queued(mgr, w)
    BY <1>8, <1>11, <1>20, <2>1 DEF GrantedTo, Queued
  <2>4. GrantOnLink(w)'
    BY <1>4, <2>1, <2>2 DEF GrantOnLink
  <2>5. RequestToken(w)'
    BY <1>2, <1>4, <2>3, <2>4 DEF WorkerInv, RequestToken
  <2>6. GrantToken(w)'
    BY <1>4, <1>6, <2>2, <2>3, <2>4 DEF GrantToken, GrantAtWorker, GrantReturning
  <2>7. WorkerInv(w)'
    BY <1>4, <1>17, <2>4, <2>5, <2>6 DEF WorkerInv, RspShape
  <2> QED BY <1>3, <1>12, <1>14, <1>15, <1>16, <1>18, <2>7 DEF IInv
<1> QED BY <1>9, <1>19, <1>20 DEF Advanced

LEMMA ManagerInvFrame ==
    ASSUME NEW m, NEW t, ManagerInv(m),
           t.inflight = m.inflight, t.inflightNode = m.inflightNode,
           t.inflightPerNode = m.inflightPerNode, t.pendingQ = m.pendingQ
    PROVE  ManagerInv(t)
<1>1. \A n \in Nodes : InflightOn(t, n) = InflightOn(m, n)
  BY DEF InflightOn
<1> QED BY <1>1 DEF ManagerInv

\* The coarse branch of FINISHED is dead: the worker has no grant to return.
LEMMA HandleFinishedInv ==
    ASSUME IInv, TypeOK', NEW w \in Workers, HandleFinished(w)
    PROVE  IInv'
<1> DEFINE fin == [mgr.finished EXCEPT ![w] = TRUE]
           f == [mgr EXCEPT !.finished = fin]
           out == [v \in Workers |-> Append(mgr.rspOut[v], GroupDone)]
<1>1. Receive(w, "FINISHED") /\ reqOut[w] # <<>> /\ mgr' = OnFinished(mgr, w)
  BY DEF HandleFinished, Receive
<1>2. TypeOK /\ mgr \in Manager /\ ManagerInv(mgr) /\ WorkerInv(w)
  BY DEF IInv, TypeOK
<1>3. TypeOK'
  OBVIOUS
<1>4. /\ \A v \in Workers : v # w => SameWorker(v)
      /\ seen' = seen /\ mbox' = mbox /\ sw' = sw
      /\ LinkShape(w)' /\ RequestWords(w)' /\ DoneWords(w)'
      /\ GrantInMailbox(w)' <=> GrantInMailbox(w)
      /\ Holds(w)' <=> Holds(w)
      /\ ~mgr.finished[w]
      /\ FinishedOnLink(w) /\ ~DoneOnLink(w) /\ ~RequestOnLink(w)
      /\ reqOut'[w] = <<>>
      /\ ~FinishedOnLink(w)' /\ ~DoneOnLink(w)' /\ ~RequestOnLink(w)'
  BY <1>1, <1>2, ReceiveLink
<1>5. \A v \in Workers : mgr.rspOut[v] # <<GroupDone>> /\ ~mbox[v].groupDone
  BY <1>1, NotDoneYet
<1>6. sw[w].phase \in {"drain", "left"} /\ ~mbox[w].doneValid /\ seen[w].finished
  BY <1>2, <1>4 DEF WorkerInv, FinishToken
<1>7. ~mgr.inflight[w] /\ ~GrantOnLink(w)
  BY <1>2, <1>4, <1>6
     DEF WorkerInv, GrantToken, GrantAtWorker, GrantReturning, GrantInMailbox, Holds, RequestToken
<1>8. mgr' = MaybeSendGroupDone(f)
  BY <1>1, <1>7 DEF OnFinished
<1>9. fin[w] /\ \A v \in Workers : v # w => (fin[v] <=> mgr.finished[v])
  BY <1>2 DEF Manager
<1> HIDE DEF fin
<1>10. /\ f.finished = fin /\ f.inflight = mgr.inflight /\ f.inflightNode = mgr.inflightNode
       /\ f.inflightPerNode = mgr.inflightPerNode /\ f.pendingQ = mgr.pendingQ
       /\ f.rspOut = mgr.rspOut
  BY <1>2 DEF Manager
<1>11. CASE ~(AllWorkersFinished(f) /\ GroupDrained(f))
  <2>1. mgr' = f
    BY <1>8, <1>11 DEF MaybeSendGroupDone
  <2> HIDE DEF f
  <2>2. ASSUME NEW v \in Workers, v # w PROVE WorkerInv(v)'
    <3>1. Untouched(mgr, mgr', v) /\ (mgr'.finished[v] <=> mgr.finished[v])
      BY <1>9, <1>10, <2>1, <2>2 DEF Untouched, Queued
    <3> QED BY <1>4, <2>2, <3>1, WorkerFrame DEF IInv
  <2>3. WorkerInv(w)'
    <3>1. (GrantOnLink(w)' <=> GrantOnLink(w)) /\ (RspShape(w)' <=> RspShape(w))
      BY <1>4, <1>10, <2>1 DEF GrantOnLink, RspShape
    <3>2. Queued(mgr, w)' <=> Queued(mgr, w)
      BY <1>10, <2>1 DEF Queued
    <3>3. RequestToken(w)'
      BY <1>2, <1>4, <3>1, <3>2 DEF WorkerInv, RequestToken
    <3>4. GrantToken(w)'
      BY <1>2, <1>4, <1>10, <2>1, <3>1 DEF WorkerInv, GrantToken, GrantAtWorker, GrantReturning
    <3>5. FinishToken(w)'
      BY <1>2, <1>4, <1>6, <1>9, <1>10, <2>1 DEF WorkerInv, FinishToken
    <3> QED BY <1>2, <1>4, <3>1, <3>3, <3>4, <3>5 DEF WorkerInv
  <2>4. QueueMatches' /\ NotStranded'
    BY <1>4, <1>10, <2>1 DEF IInv, QueueMatches, NotStranded
  <2>5. GroupDoneSent'
    BY <1>4, <1>5, <1>10, <2>1 DEF GroupDoneSent, GroupDone
  <2>6. ManagerInv(mgr)'
    <3>1. ManagerInv(mgr')
      BY <1>2, <1>10, <2>1, ManagerInvFrame
    <3> QED BY <3>1 DEF ManagerInv, InflightOn
  <2> QED BY <1>3, <2>2, <2>3, <2>4, <2>5, <2>6 DEF IInv
<1>12. CASE AllWorkersFinished(f) /\ GroupDrained(f)
  <2>1. mgr' = [f EXCEPT !.rspOut = out]
    BY <1>8, <1>10, <1>12 DEF MaybeSendGroupDone
  <2> HIDE DEF out
  <2>2. /\ mgr'.finished = fin /\ mgr'.inflight = mgr.inflight
        /\ mgr'.inflightNode = mgr.inflightNode /\ mgr'.inflightPerNode = mgr.inflightPerNode
        /\ mgr'.pendingQ = mgr.pendingQ /\ mgr'.rspOut = out
    BY <1>2, <2>1 DEF Manager
  <2> HIDE DEF f
  <2>3. /\ mgr.pendingQ = <<>> /\ \A v \in Workers : ~mgr.inflight[v] /\ fin[v]
    BY <1>10, <1>12 DEF AllWorkersFinished, GroupDrained
  <2>4. ASSUME NEW v \in Workers PROVE mgr.rspOut[v] = <<>> /\ ~GrantOnLink(v)
    <3>1. WorkerInv(v) /\ ~mgr.inflight[v]
      BY <2>3 DEF IInv
    <3>2. ~GrantOnLink(v)
      BY <3>1 DEF WorkerInv, GrantToken, GrantAtWorker
    <3> QED BY <1>5, <3>1, <3>2 DEF WorkerInv, RspShape
  <2>5. ASSUME NEW v \in Workers PROVE mgr'.rspOut[v] = <<GroupDone>> /\ ~GrantOnLink(v)'
    <3>a. out[v] = Append(mgr.rspOut[v], GroupDone)
      BY DEF out
    <3>b. mgr.rspOut[v] = <<>>
      BY <2>4
    <3>c. \A x : Append(<<>>, x) = <<x>>
      OBVIOUS
    <3>1. mgr'.rspOut[v] = <<GroupDone>>
      BY <2>2, <3>a, <3>b, <3>c, Zenon
    <3>2. GroupDone.type # "GRANT"
      BY DEF GroupDone
    <3> QED BY <3>1, <3>2 DEF GrantOnLink
  <2>6. ASSUME NEW v \in Workers, v # w PROVE WorkerInv(v)'
    <3>0. WorkerInv(v) /\ SameWorker(v)
      BY <1>4, <2>6 DEF IInv
    <3>1. Queued(mgr, v)' <=> Queued(mgr, v)
      BY <2>2 DEF Queued
    <3>2. RequestToken(v)'
      BY <2>4, <2>5, <3>0, <3>1, SameWorkerFlags DEF WorkerInv, RequestToken, SameWorker
    <3>3. GrantToken(v)'
      BY <2>2, <2>4, <2>5, <3>0, SameWorkerFlags
         DEF WorkerInv, GrantToken, GrantAtWorker, GrantReturning, SameWorker
    <3>4. FinishToken(v)'
      BY <1>9, <2>2, <2>6, <3>0, SameWorkerFlags DEF WorkerInv, FinishToken, SameWorker
    <3>5. RspShape(v)'
      BY <2>5 DEF RspShape, GroupDone
    <3> QED BY <3>0, <3>2, <3>3, <3>4, <3>5, SameWorkerFlags DEF WorkerInv
  <2>7. WorkerInv(w)'
    <3>1. Queued(mgr, w)' <=> Queued(mgr, w)
      BY <2>2 DEF Queued
    <3>2. RequestToken(w)'
      BY <1>2, <1>4, <2>4, <2>5, <3>1 DEF WorkerInv, RequestToken
    <3>3. GrantToken(w)'
      BY <1>2, <1>4, <2>2, <2>4, <2>5 DEF WorkerInv, GrantToken, GrantAtWorker, GrantReturning
    <3>4. FinishToken(w)'
      BY <1>2, <1>4, <1>6, <1>9, <2>2 DEF WorkerInv, FinishToken
    <3>5. RspShape(w)'
      BY <2>5 DEF RspShape, GroupDone
    <3> QED BY <1>4, <3>2, <3>3, <3>4, <3>5 DEF WorkerInv
  <2>8. QueueMatches' /\ NotStranded'
    BY <1>4, <2>2 DEF IInv, QueueMatches, NotStranded
  <2>9. GroupDoneSent'
    BY <2>2, <2>3 DEF GroupDoneSent, AllWorkersFinished
  <2>10. ManagerInv(mgr)'
    <3>1. ManagerInv(mgr')
      BY <1>2, <2>2, ManagerInvFrame
    <3> QED BY <3>1 DEF ManagerInv, InflightOn
  <2> QED BY <1>3, <2>6, <2>7, <2>8, <2>9, <2>10 DEF IInv
<1> QED BY <1>11, <1>12

-----------------------------------------------------------------------------
(* The steps of a worker. *)

\* A step of worker w alone.
LEMMA LocalStep ==
    ASSUME IInv, TypeOK', NEW w \in Workers, TypeOK', mgr' = mgr,
           \A v \in Workers : v # w => SameWorker(v),
           WorkerInv(w)',
           mbox'[w].groupDone => mbox[w].groupDone,
           Queued(mgr, w) => sw'[w].reqSeq = sw[w].reqSeq /\ sw'[w].node = sw[w].node
    PROVE  IInv'
<1>1. ASSUME NEW v \in Workers, v # w PROVE WorkerInv(v)'
  <2>1. Untouched(mgr, mgr', v) /\ (mgr'.finished[v] <=> mgr.finished[v])
    BY DEF Untouched
  <2> QED BY <1>1, <2>1, WorkerFrame DEF IInv
<1>2. QueueMatches'
  <2> SUFFICES ASSUME NEW i \in 1 .. Len(mgr.pendingQ)
               PROVE  /\ mgr.pendingQ[i].seq = sw'[mgr.pendingQ[i].slot].reqSeq
                      /\ mgr.pendingQ[i].node = sw'[mgr.pendingQ[i].slot].node
    BY DEF QueueMatches
  <2>1. mgr.pendingQ[i] \in PendingReq
    BY ElementInSet DEF IInv, TypeOK, Manager
  <2>2. mgr.pendingQ[i].slot \in Workers
    BY <2>1 DEF PendingReq
  <2>3. /\ mgr.pendingQ[i].seq = sw[mgr.pendingQ[i].slot].reqSeq
        /\ mgr.pendingQ[i].node = sw[mgr.pendingQ[i].slot].node
    BY DEF IInv, QueueMatches
  <2>4. CASE mgr.pendingQ[i].slot = w
    BY <2>3, <2>4 DEF Queued
  <2>5. CASE mgr.pendingQ[i].slot # w
    BY <2>2, <2>3, <2>5 DEF SameWorker
  <2> QED BY <2>4, <2>5
<1>3. NotStranded'
  BY DEF IInv, NotStranded
<1>4. GroupDoneSent'
  <2>1. \A v \in Workers : mbox'[v].groupDone => mbox[v].groupDone
    BY DEF SameWorker
  <2> QED BY <2>1 DEF IInv, GroupDoneSent, AllWorkersFinished, GroupDone
<1>5. ManagerInv(mgr)'
  <2>1. ManagerInv(mgr')
    BY DEF IInv
  <2> QED BY <2>1 DEF ManagerInv, InflightOn
<1> QED BY <1>1, <1>2, <1>3, <1>4, <1>5 DEF IInv

LEMMA TickFields ==
    ASSUME TypeOK, NEW w \in Workers, Tick(w)
    PROVE  /\ \A v \in Workers : v # w => SameWorker(v)
           /\ mgr' = mgr /\ sw' = sw /\ reqOut'[w] = reqOut[w] \o Outbox(w)
           /\ seen'[w].doneSeq = (IF DonePosted(w) THEN mbox[w].doneSeq ELSE seen[w].doneSeq)
           /\ seen'[w].finished <=> seen[w].finished \/ FinishedPosted(w)
           /\ mbox'[w].reqValid <=> mbox[w].reqValid /\ ~RequestPosted(w)
           /\ mbox'[w].doneValid <=> mbox[w].doneValid /\ ~DonePosted(w)
           /\ mbox'[w].finished <=> mbox[w].finished /\ ~FinishedPosted(w)
           /\ mbox'[w].reqSeq = mbox[w].reqSeq /\ mbox'[w].reqNode = mbox[w].reqNode
           /\ mbox'[w].reqWindow = mbox[w].reqWindow /\ mbox'[w].doneSeq = mbox[w].doneSeq
           /\ mbox'[w].grantSeq = mbox[w].grantSeq /\ mbox'[w].groupDone = mbox[w].groupDone
<1>1. mgr' = mgr /\ sw' = sw /\ reqOut'[w] = reqOut[w] \o Outbox(w)
  BY DEF Tick, TypeOK
<1>2. \A v \in Workers : v # w => SameWorker(v)
  BY DEF Tick, TypeOK, SameWorker
<1>3. seen[w] \in Endpoint /\ mbox[w] \in Mailbox
  BY DEF TypeOK
<1>4. /\ seen'[w].doneSeq = (IF DonePosted(w) THEN mbox[w].doneSeq ELSE seen[w].doneSeq)
      /\ seen'[w].finished <=> seen[w].finished \/ FinishedPosted(w)
  <2> DEFINE rp == RequestPosted(w)  dp == DonePosted(w)  fp == FinishedPosted(w)
  <2>1. seen' = [seen EXCEPT
            ![w].reqSeq   = IF rp THEN mbox[w].reqSeq ELSE @,
            ![w].doneSeq  = IF dp THEN mbox[w].doneSeq ELSE @,
            ![w].finished = @ \/ fp]
    BY DEF Tick
  <2> HIDE DEF rp, dp, fp
  <2>2. /\ seen'[w].doneSeq = (IF dp THEN mbox[w].doneSeq ELSE seen[w].doneSeq)
        /\ seen'[w].finished <=> seen[w].finished \/ fp
    BY <1>3, <2>1 DEF TypeOK, Endpoint
  <2> QED BY <2>2 DEF dp, fp
<1>5. /\ mbox'[w].reqValid <=> mbox[w].reqValid /\ ~RequestPosted(w)
      /\ mbox'[w].doneValid <=> mbox[w].doneValid /\ ~DonePosted(w)
      /\ mbox'[w].finished <=> mbox[w].finished /\ ~FinishedPosted(w)
      /\ mbox'[w].reqSeq = mbox[w].reqSeq /\ mbox'[w].reqNode = mbox[w].reqNode
      /\ mbox'[w].reqWindow = mbox[w].reqWindow /\ mbox'[w].doneSeq = mbox[w].doneSeq
      /\ mbox'[w].grantSeq = mbox[w].grantSeq /\ mbox'[w].groupDone = mbox[w].groupDone
  <2> DEFINE rp == RequestPosted(w)  dp == DonePosted(w)  fp == FinishedPosted(w)
  <2>1. mbox' = [mbox EXCEPT
            ![w].reqValid  = @ /\ ~rp,
            ![w].doneValid = @ /\ ~dp,
            ![w].finished  = @ /\ ~fp]
    BY DEF Tick
  <2> HIDE DEF rp, dp, fp
  <2>2. /\ mbox'[w].reqValid <=> mbox[w].reqValid /\ ~rp
        /\ mbox'[w].doneValid <=> mbox[w].doneValid /\ ~dp
        /\ mbox'[w].finished <=> mbox[w].finished /\ ~fp
        /\ mbox'[w].reqSeq = mbox[w].reqSeq /\ mbox'[w].reqNode = mbox[w].reqNode
        /\ mbox'[w].reqWindow = mbox[w].reqWindow /\ mbox'[w].doneSeq = mbox[w].doneSeq
        /\ mbox'[w].grantSeq = mbox[w].grantSeq /\ mbox'[w].groupDone = mbox[w].groupDone
    BY <1>3, <2>1 DEF TypeOK, Mailbox
  <2> QED BY <2>2 DEF rp, dp, fp
<1> QED BY <1>1, <1>2, <1>4, <1>5

LEMMA ShortConcats ==
    ASSUME NEW a, NEW b
    PROVE  /\ <<>> \o <<>> = <<>>
           /\ <<>> \o <<a>> = <<a>> /\ <<a>> \o <<>> = <<a>>
           /\ <<a>> \o <<b>> = <<a, b>>
           /\ <<>> \o <<a, b>> = <<a, b>> /\ <<a, b>> \o <<>> = <<a, b>>
<1>1. /\ <<>> \o <<>> = <<>>
      /\ <<>> \o <<a>> = <<a>> /\ <<a>> \o <<>> = <<a>>
      /\ <<>> \o <<a, b>> = <<a, b>> /\ <<a, b>> \o <<>> = <<a, b>>
  OBVIOUS
<1>2. <<a>> \o <<b>> = <<a, b>>
  <2> DEFINE S == {a, b}  x == <<a>>  y == <<b>>  s == x \o y  t == <<a, b>>
  <2>1. x \in Seq(S) /\ y \in Seq(S) /\ t \in Seq(S)
    OBVIOUS
  <2>2. /\ Len(x) = 1 /\ x[1] = a /\ Len(y) = 1 /\ y[1] = b
        /\ Len(t) = 2 /\ t[1] = a /\ t[2] = b
    OBVIOUS
  <2> HIDE DEF S, x, y, t
  <2>3. s \in Seq(S) /\ Len(s) = 2 /\ s[1] = a /\ s[2] = b
    <3>1. /\ s \in Seq(S) /\ Len(s) = Len(x) + Len(y)
          /\ \A i \in 1 .. Len(x) : s[i] = x[i]
          /\ \A i \in 1 .. Len(y) : s[i + Len(x)] = y[i]
      BY <2>1, ConcatElements
    <3> HIDE DEF s
    <3>2. s[1] = x[1] /\ s[1 + 1] = y[1]
      BY <2>2, <3>1
    <3> QED BY <2>2, <3>1, <3>2
  <2> HIDE DEF s
  <2>4. \A i \in 1 .. Len(s) : s[i] = t[i]
    BY <2>2, <2>3
  <2>5. s = t
    BY <2>1, <2>2, <2>3, <2>4, SameElements
  <2> QED BY <2>5 DEF s, x, y, t
<1> QED BY <1>1, <1>2

\* What one tick adds to the link.
LEMMA TickLink ==
    ASSUME TypeOK, NEW w \in Workers, WorkerInv(w), Tick(w)
    PROVE  /\ LinkShape(w)'
           /\ RequestOnLink(w)' <=> RequestOnLink(w) \/ RequestPosted(w)
           /\ DoneOnLink(w)' <=> DoneOnLink(w) \/ DonePosted(w)
           /\ FinishedOnLink(w)' <=> FinishedOnLink(w) \/ FinishedPosted(w)
<1> DEFINE s == reqOut[w]
           a == IF RequestPosted(w)
                THEN <<Request(mbox[w].reqSeq, mbox[w].reqNode, mbox[w].reqWindow)>> ELSE <<>>
           b == IF DonePosted(w) THEN <<Done(mbox[w].doneSeq)>> ELSE <<>>
           c == IF FinishedPosted(w) THEN <<Finished>> ELSE <<>>
<1>1. reqOut'[w] = s \o ((a \o b) \o c) /\ Outbox(w) = (a \o b) \o c /\ Outbox(w) # <<>>
  BY TickFields DEF Tick, Outbox
<1>2. /\ sw' = sw /\ R(w)' = R(w)
      /\ DonePosted(w) => D(w)' = Done(mbox[w].doneSeq)
      /\ ~DonePosted(w) => D(w)' = D(w)
      /\ Finished' = Finished
  BY TickFields DEF R, D, Finished
<1>3. RequestPosted(w) =>
        /\ Request(mbox[w].reqSeq, mbox[w].reqNode, mbox[w].reqWindow) = R(w)
        /\ sw[w].phase = "wait" /\ ~RequestOnLink(w)
  BY DEF RequestPosted, WorkerInv, RequestWords, RequestToken, R
<1>4. DonePosted(w) => ~DoneOnLink(w) /\ ~seen[w].finished
  BY DEF DonePosted, WorkerInv, GrantToken, FinishToken
<1>5. FinishedPosted(w) => sw[w].phase \in {"drain", "left"} /\ ~seen[w].finished
  BY DEF FinishedPosted, WorkerInv, FinishToken
<1>6. /\ FinishedOnLink(w) => seen[w].finished /\ sw[w].phase \in {"drain", "left"}
      /\ RequestOnLink(w) => sw[w].phase = "wait"
  BY DEF WorkerInv, FinishToken, RequestToken
<1>7. a = IF RequestPosted(w) THEN <<R(w)'>> ELSE <<>>
  BY <1>2, <1>3
<1>8. b = IF DonePosted(w) THEN <<D(w)'>> ELSE <<>>
  BY <1>2
<1>9. LinkShape(w)
  BY DEF WorkerInv
<1> HIDE DEF a, b, s
<1>10. CASE RequestPosted(w) /\ DonePosted(w)
  <2>1. ~FinishedPosted(w) /\ ~FinishedOnLink(w) /\ ~RequestOnLink(w) /\ ~DoneOnLink(w)
    BY <1>3, <1>4, <1>5, <1>6, <1>10
  <2>2. s = <<>>
    BY <1>9, <2>1, LinkContents DEF LinkShape, s
  <2>3. reqOut'[w] = <<R(w)', D(w)'>>
    BY <1>1, <1>7, <1>8, <1>10, <2>1, <2>2, ShortConcats
  <2> QED BY <1>10, <2>1, <2>3, LinkContentsPrimed DEF LinkShape
<1>11. CASE RequestPosted(w) /\ ~DonePosted(w)
  <2>1. ~FinishedPosted(w) /\ ~FinishedOnLink(w) /\ ~RequestOnLink(w)
    BY <1>3, <1>5, <1>6, <1>11
  <2>2. s = <<>> \/ s = <<D(w)'>>
    BY <1>2, <1>9, <1>11, <2>1, LinkContents DEF LinkShape, s
  <2>3. (a \o b) \o c = <<R(w)'>>
    BY <1>7, <1>8, <1>11, <2>1, ShortConcats
  <2>4. CASE s = <<>>
    <3>1. reqOut'[w] = <<R(w)'>>
      BY <1>1, <2>3, <2>4, ShortConcats
    <3> QED BY <1>11, <2>1, <2>4, <3>1, LinkContents, LinkContentsPrimed DEF LinkShape, s
  <2>5. CASE s = <<D(w)'>>
    <3>1. reqOut'[w] = <<D(w)', R(w)'>>
      BY <1>1, <2>3, <2>5, ShortConcats
    <3>2. DoneOnLink(w)
      BY <1>2, <1>11, <2>5, LinkContents DEF s
    <3> QED BY <1>11, <2>1, <3>1, <3>2, LinkContentsPrimed DEF LinkShape
  <2> QED BY <2>2, <2>4, <2>5
<1>12. CASE ~RequestPosted(w) /\ DonePosted(w) /\ ~FinishedPosted(w)
  <2>1. ~FinishedOnLink(w) /\ ~DoneOnLink(w)
    BY <1>4, <1>6, <1>12
  <2>2. s = <<>> \/ s = <<R(w)'>>
    BY <1>2, <1>9, <1>12, <2>1, LinkContents DEF LinkShape, s
  <2>3. (a \o b) \o c = <<D(w)'>>
    BY <1>7, <1>8, <1>12, ShortConcats
  <2>4. CASE s = <<>>
    <3>1. reqOut'[w] = <<D(w)'>>
      BY <1>1, <2>3, <2>4, ShortConcats
    <3> QED BY <1>12, <2>1, <2>4, <3>1, LinkContents, LinkContentsPrimed DEF LinkShape, s
  <2>5. CASE s = <<R(w)'>>
    <3>1. reqOut'[w] = <<R(w)', D(w)'>>
      BY <1>1, <2>3, <2>5, ShortConcats
    <3>2. RequestOnLink(w)
      BY <1>2, <2>5, LinkContents DEF s
    <3> QED BY <1>12, <2>1, <3>1, <3>2, LinkContentsPrimed DEF LinkShape
  <2> QED BY <2>2, <2>4, <2>5
<1>13. CASE ~RequestPosted(w) /\ DonePosted(w) /\ FinishedPosted(w)
  <2>1. ~FinishedOnLink(w) /\ ~RequestOnLink(w) /\ ~DoneOnLink(w)
    BY <1>4, <1>5, <1>6, <1>13
  <2>2. s = <<>>
    BY <1>9, <2>1, LinkContents DEF LinkShape, s
  <2>3. reqOut'[w] = <<D(w)', Finished>>
    BY <1>1, <1>7, <1>8, <1>13, <2>2, ShortConcats
  <2> QED BY <1>2, <1>13, <2>1, <2>3, LinkContentsPrimed DEF LinkShape
<1>14. CASE ~RequestPosted(w) /\ ~DonePosted(w) /\ FinishedPosted(w)
  <2>1. ~FinishedOnLink(w) /\ ~RequestOnLink(w)
    BY <1>5, <1>6, <1>14
  <2>2. s = <<>> \/ s = <<D(w)'>>
    BY <1>2, <1>9, <1>14, <2>1, LinkContents DEF LinkShape, s
  <2>3. (a \o b) \o c = <<Finished>>
    BY <1>7, <1>8, <1>14, ShortConcats
  <2>4. CASE s = <<>>
    <3>1. reqOut'[w] = <<Finished>>
      BY <1>1, <2>3, <2>4, ShortConcats
    <3> QED BY <1>2, <1>14, <2>1, <2>4, <3>1, LinkContents, LinkContentsPrimed DEF LinkShape, s
  <2>5. CASE s = <<D(w)'>>
    <3>1. reqOut'[w] = <<D(w)', Finished>>
      BY <1>1, <2>3, <2>5, ShortConcats
    <3>2. DoneOnLink(w)
      BY <1>2, <1>14, <2>5, LinkContents DEF s
    <3> QED BY <1>2, <1>14, <2>1, <3>1, <3>2, LinkContentsPrimed DEF LinkShape
  <2> QED BY <2>2, <2>4, <2>5
<1>15. CASE ~RequestPosted(w) /\ ~DonePosted(w) /\ ~FinishedPosted(w)
  <2>1. (a \o b) \o c = <<>>
    BY <1>7, <1>8, <1>15, ShortConcats
  <2> QED BY <1>1, <2>1
<1> QED BY <1>10, <1>11, <1>12, <1>13, <1>14, <1>15

LEMMA TickInv ==
    ASSUME IInv, TypeOK', NEW w \in Workers, Tick(w)
    PROVE  IInv'
<1>1. TypeOK /\ WorkerInv(w) /\ TypeOK'
  BY DEF IInv
<1>2. /\ mgr' = mgr /\ sw' = sw /\ \A v \in Workers : v # w => SameWorker(v)
      /\ seen'[w].doneSeq = (IF DonePosted(w) THEN mbox[w].doneSeq ELSE seen[w].doneSeq)
      /\ seen'[w].finished <=> seen[w].finished \/ FinishedPosted(w)
      /\ mbox'[w].reqValid <=> mbox[w].reqValid /\ ~RequestPosted(w)
      /\ mbox'[w].doneValid <=> mbox[w].doneValid /\ ~DonePosted(w)
      /\ mbox'[w].finished <=> mbox[w].finished /\ ~FinishedPosted(w)
      /\ mbox'[w].reqSeq = mbox[w].reqSeq /\ mbox'[w].reqNode = mbox[w].reqNode
      /\ mbox'[w].reqWindow = mbox[w].reqWindow /\ mbox'[w].doneSeq = mbox[w].doneSeq
      /\ mbox'[w].grantSeq = mbox[w].grantSeq /\ mbox'[w].groupDone = mbox[w].groupDone
  BY <1>1, TickFields
<1>3. /\ LinkShape(w)'
      /\ RequestOnLink(w)' <=> RequestOnLink(w) \/ RequestPosted(w)
      /\ DoneOnLink(w)' <=> DoneOnLink(w) \/ DonePosted(w)
      /\ FinishedOnLink(w)' <=> FinishedOnLink(w) \/ FinishedPosted(w)
  BY <1>1, TickLink
<1>4. /\ (GrantOnLink(w)' <=> GrantOnLink(w)) /\ RspShape(w)'
      /\ (Queued(mgr, w)' <=> Queued(mgr, w))
      /\ (GrantInMailbox(w)' <=> GrantInMailbox(w)) /\ (Holds(w)' <=> Holds(w))
  BY <1>1, <1>2 DEF WorkerInv, GrantOnLink, RspShape, Queued, GrantInMailbox, Holds
<1>5. /\ RequestPosted(w) => mbox[w].reqValid
      /\ DonePosted(w) <=> mbox[w].doneValid
      /\ FinishedPosted(w) => mbox[w].finished /\ ~seen[w].finished
  <2>1. seen[w].doneSeq \in Nat /\ mbox[w].doneSeq \in Nat
    BY <1>1 DEF TypeOK, Endpoint, Mailbox
  <2>2. mbox[w].doneValid => mbox[w].doneSeq > seen[w].doneSeq
    BY <1>1, <2>1 DEF WorkerInv, DoneWords
  <2> QED BY <2>2 DEF RequestPosted, DonePosted, FinishedPosted
<1>6. RequestToken(w)'
  BY <1>1, <1>2, <1>3, <1>4, <1>5 DEF WorkerInv, RequestToken
<1>7. RequestWords(w)'
  BY <1>1, <1>2 DEF WorkerInv, RequestWords
<1>8. GrantToken(w)'
  BY <1>1, <1>2, <1>3, <1>4, <1>5 DEF WorkerInv, GrantToken, GrantAtWorker, GrantReturning
<1>9. DoneWords(w)'
  <2>1. mbox[w].doneValid => ~Holds(w)
    BY <1>1 DEF WorkerInv, GrantToken, GrantAtWorker, GrantReturning
  <2>2. mbox[w].doneSeq \in Nat
    BY <1>1 DEF TypeOK, Mailbox
  <2>3. DoneWords(w)
    BY <1>1 DEF WorkerInv
  <2>4. CASE DonePosted(w)
    <3>1. /\ seen'[w].doneSeq = mbox[w].doneSeq /\ ~mbox'[w].doneValid
          /\ mbox'[w].doneSeq = mbox[w].doneSeq /\ sw'[w] = sw[w]
          /\ sw[w].phase # "doneSeq"
      BY <1>2, <1>5, <2>1, <2>4 DEF Holds
    <3> QED BY <2>2, <2>3, <3>1 DEF DoneWords
  <2>5. CASE ~DonePosted(w)
    <3>1. /\ seen'[w].doneSeq = seen[w].doneSeq /\ (mbox'[w].doneValid <=> mbox[w].doneValid)
          /\ mbox'[w].doneSeq = mbox[w].doneSeq /\ sw'[w] = sw[w]
      BY <1>2, <1>5, <2>5
    <3> QED BY <2>3, <3>1 DEF DoneWords
  <2> QED BY <2>4, <2>5
<1>10. FinishToken(w)'
  <2>1. mgr.finished[w] => ~FinishedPosted(w) /\ ~RequestPosted(w) /\ ~DonePosted(w)
    BY <1>1, <1>5 DEF WorkerInv, FinishToken, RequestToken
  <2>2. mgr'.finished[w] => reqOut'[w] = <<>>
    <3>1. ~(RequestPosted(w) \/ DonePosted(w) \/ FinishedPosted(w)) => Outbox(w) = <<>>
      BY ShortConcats DEF Outbox
    <3> QED BY <1>2, <2>1, <3>1 DEF Tick
  <2>3. /\ mbox'[w].finished \/ seen'[w].finished <=> mbox[w].finished \/ seen[w].finished
        /\ ~(mbox'[w].finished /\ seen'[w].finished)
    BY <1>1, <1>2, <1>5 DEF WorkerInv, FinishToken
  <2>4. /\ seen'[w].finished <=> FinishedOnLink(w)' \/ mgr'.finished[w]
        /\ seen'[w].finished => ~mbox'[w].doneValid
    BY <1>1, <1>2, <1>3, <1>5 DEF WorkerInv, FinishToken
  <2> QED BY <1>1, <1>2, <2>2, <2>3, <2>4 DEF WorkerInv, FinishToken
<1>11. WorkerInv(w)'
  BY <1>3, <1>4, <1>6, <1>7, <1>8, <1>9, <1>10 DEF WorkerInv
<1> QED BY <1>1, <1>2, <1>11, LocalStep

LEMMA HandleRspInv ==
    ASSUME IInv, TypeOK', NEW w \in Workers, HandleRsp(w)
    PROVE  IInv'
<1> DEFINE msg == Head(mgr.rspOut[w])
           out == [mgr.rspOut EXCEPT ![w] = Tail(mgr.rspOut[w])]
<1>1. TypeOK /\ mgr \in Manager /\ ManagerInv(mgr) /\ WorkerInv(w) /\ TypeOK'
  BY DEF IInv, TypeOK
<1>2. /\ mgr.rspOut[w] # <<>> /\ mgr' = [mgr EXCEPT !.rspOut = out]
      /\ mbox' = IF msg.type = "GRANT" THEN [mbox EXCEPT ![w].grantSeq = msg.seq]
                                       ELSE [mbox EXCEPT ![w].groupDone = TRUE]
      /\ reqOut' = reqOut /\ seen' = seen /\ sw' = sw
  BY DEF HandleRsp
<1>3. mgr.rspOut \in [Workers -> Seq(RspMsg)]
  BY <1>1 DEF Manager
<1>4. out[w] = Tail(mgr.rspOut[w]) /\ \A v \in Workers : v # w => out[v] = mgr.rspOut[v]
  BY <1>3
<1> HIDE DEF out
<1>5. /\ mgr'.rspOut = out /\ mgr'.inflight = mgr.inflight
      /\ mgr'.inflightNode = mgr.inflightNode /\ mgr'.inflightPerNode = mgr.inflightPerNode
      /\ mgr'.pendingQ = mgr.pendingQ /\ mgr'.finished = mgr.finished
  BY <1>1, <1>2 DEF Manager
<1>6. GrantOnLink(w) \/ mgr.rspOut[w] = <<GroupDone>>
  BY <1>1, <1>2 DEF WorkerInv, RspShape
<1>7. mgr'.rspOut[w] = <<>>
  <2>1. Len(mgr.rspOut[w]) = 1
    BY <1>6 DEF GrantOnLink
  <2>2. Tail(mgr.rspOut[w]) = <<>>
    <3> DEFINE s == mgr.rspOut[w]
    <3>1. s \in Seq(RspMsg) /\ s # <<>> /\ Len(s) = 1
      BY <1>2, <1>3, <2>1
    <3> HIDE DEF s
    <3>2. Tail(s) = <<>>
      BY <3>1, TailOfOne
    <3> QED BY <3>2 DEF s
  <2> QED BY <1>4, <1>5, <2>2
<1>8. ~GrantOnLink(w)' /\ RspShape(w)'
  BY <1>7 DEF GrantOnLink, RspShape
<1>9. ASSUME NEW v \in Workers, v # w PROVE SameWorker(v) /\ WorkerInv(v)'
  <2>1. SameWorker(v)
    BY <1>1, <1>2, <1>9 DEF SameWorker, TypeOK
  <2>2. Untouched(mgr, mgr', v) /\ (mgr'.finished[v] <=> mgr.finished[v])
    BY <1>4, <1>5, <1>9 DEF Untouched, Queued
  <2> QED BY <2>1, <2>2, WorkerFrame DEF IInv
<1>10. R(w)' = R(w) /\ D(w)' = D(w) /\ (Queued(mgr, w)' <=> Queued(mgr, w))
  BY <1>2, <1>5 DEF R, D, Queued
<1>11. /\ LinkShape(w)' /\ (RequestOnLink(w)' <=> RequestOnLink(w))
       /\ (DoneOnLink(w)' <=> DoneOnLink(w)) /\ (FinishedOnLink(w)' <=> FinishedOnLink(w))
       /\ (Holds(w)' <=> Holds(w))
  BY <1>1, <1>2, <1>10
     DEF WorkerInv, LinkShape, RequestOnLink, DoneOnLink, FinishedOnLink, Holds
<1>12. QueueMatches' /\ NotStranded'
  BY <1>2, <1>5 DEF IInv, QueueMatches, NotStranded
<1>13. ManagerInv(mgr)'
  <2>1. ManagerInv(mgr')
    BY <1>1, <1>5, ManagerInvFrame
  <2> QED BY <2>1 DEF ManagerInv, InflightOn
<1>14. CASE GrantOnLink(w)
  <2>1. msg.type = "GRANT" /\ msg.seq = sw[w].reqSeq
    <3>1. msg = mgr.rspOut[w][1]
      BY <1>2, <1>3, HeadInSet
    <3> QED BY <1>14, <3>1 DEF GrantOnLink
  <2>2. mbox' = [mbox EXCEPT ![w].grantSeq = sw[w].reqSeq]
    BY <1>2, <2>1
  <2>3. /\ mbox'[w].grantSeq = sw[w].reqSeq
        /\ mbox'[w].reqValid <=> mbox[w].reqValid
        /\ mbox'[w].doneValid <=> mbox[w].doneValid
        /\ mbox'[w].finished <=> mbox[w].finished
        /\ mbox'[w].groupDone <=> mbox[w].groupDone
        /\ mbox'[w].reqSeq = mbox[w].reqSeq /\ mbox'[w].reqNode = mbox[w].reqNode
        /\ mbox'[w].reqWindow = mbox[w].reqWindow /\ mbox'[w].doneSeq = mbox[w].doneSeq
    BY <1>1, <2>2 DEF TypeOK, Mailbox
  <2>4. /\ sw[w].phase = "wait" /\ ~mbox[w].reqValid /\ ~RequestOnLink(w) /\ ~Queued(mgr, w)
    BY <1>1, <1>14 DEF WorkerInv, RequestToken
  <2>5. RequestToken(w)'
    BY <1>8, <1>10, <1>11, <2>3, <2>4 DEF RequestToken
  <2>6. RequestWords(w)'
    <3>1. sw[w].reqSeq \in Nat
      BY <1>1 DEF TypeOK, Software
    <3> QED BY <1>1, <1>2, <2>3, <2>4, <3>1 DEF WorkerInv, RequestWords
  <2>7. DoneWords(w)'
    BY <1>1, <1>2, <2>3 DEF WorkerInv, DoneWords
  <2>8. GrantToken(w)'
    BY <1>1, <1>2, <1>5, <1>8, <1>11, <1>14, <2>3, <2>4
       DEF WorkerInv, GrantToken, GrantAtWorker, GrantReturning, GrantInMailbox
  <2>9. FinishToken(w)'
    BY <1>1, <1>2, <1>5, <1>11, <2>3 DEF WorkerInv, FinishToken
  <2>10. WorkerInv(w)'
    BY <1>8, <1>11, <2>5, <2>6, <2>7, <2>8, <2>9 DEF WorkerInv
  <2>11. GroupDoneSent'
    <3>1. \A v \in Workers : mbox'[v].groupDone => mbox[v].groupDone
      BY <1>9, <2>3 DEF SameWorker
    <3>2. \A v \in Workers : mgr'.rspOut[v] = <<GroupDone>> => mgr.rspOut[v] = <<GroupDone>>
      <4>1. mgr'.rspOut[w] # <<GroupDone>>
        BY <1>7
      <4> QED BY <1>4, <1>5, <4>1, Zenon
    <3> QED BY <1>5, <3>1, <3>2 DEF IInv, GroupDoneSent, AllWorkersFinished, GroupDone
  <2> QED BY <1>1, <1>9, <1>12, <1>13, <2>10, <2>11 DEF IInv
<1>15. CASE mgr.rspOut[w] = <<GroupDone>>
  <2>1. msg.type # "GRANT"
    BY <1>15, ShortTuples DEF GroupDone
  <2>2. mbox' = [mbox EXCEPT ![w].groupDone = TRUE]
    BY <1>2, <2>1
  <2>3. /\ mbox'[w].grantSeq = mbox[w].grantSeq
        /\ mbox'[w].reqValid <=> mbox[w].reqValid
        /\ mbox'[w].doneValid <=> mbox[w].doneValid
        /\ mbox'[w].finished <=> mbox[w].finished
        /\ mbox'[w].reqSeq = mbox[w].reqSeq /\ mbox'[w].reqNode = mbox[w].reqNode
        /\ mbox'[w].reqWindow = mbox[w].reqWindow /\ mbox'[w].doneSeq = mbox[w].doneSeq
    BY <1>1, <2>2 DEF TypeOK, Mailbox
  <2>4. ~GrantOnLink(w)
    BY <1>15 DEF GrantOnLink, GroupDone
  <2>5. RequestToken(w)'
    BY <1>1, <1>2, <1>8, <1>10, <1>11, <2>3 DEF WorkerInv, RequestToken
  <2>6. RequestWords(w)' /\ DoneWords(w)'
    BY <1>1, <1>2, <2>3 DEF WorkerInv, RequestWords, DoneWords
  <2>7. GrantToken(w)'
    BY <1>1, <1>2, <1>5, <1>8, <1>11, <2>3, <2>4
       DEF WorkerInv, GrantToken, GrantAtWorker, GrantReturning, GrantInMailbox
  <2>8. FinishToken(w)'
    BY <1>1, <1>2, <1>5, <1>11, <2>3 DEF WorkerInv, FinishToken
  <2>9. WorkerInv(w)'
    BY <1>8, <1>11, <2>5, <2>6, <2>7, <2>8 DEF WorkerInv
  <2>10. GroupDoneSent'
    BY <1>5, <1>15 DEF IInv, GroupDoneSent, AllWorkersFinished
  <2> QED BY <1>1, <1>9, <1>12, <1>13, <2>9, <2>10 DEF IInv
<1> QED BY <1>6, <1>14, <1>15

\* The link flags when the software changes its request while none is on the
\* link, or leaves it alone.
LEMMA SoftwareLink ==
    ASSUME NEW w \in Workers, WorkerInv(w), UNCHANGED <<mgr, reqOut, seen>>,
           R(w)' = R(w) \/ ~RequestOnLink(w)
    PROVE  /\ LinkShape(w)'
           /\ RequestOnLink(w)' <=> RequestOnLink(w)
           /\ DoneOnLink(w)' <=> DoneOnLink(w)
           /\ FinishedOnLink(w)' <=> FinishedOnLink(w)
           /\ Queued(mgr, w)' <=> Queued(mgr, w)
<1>1. D(w)' = D(w) /\ reqOut'[w] = reqOut[w] /\ Finished' = Finished
  BY DEF D, Finished
<1>2. Queued(mgr, w)' <=> Queued(mgr, w)
  BY DEF Queued
<1>3. CASE R(w)' = R(w)
  BY <1>1, <1>2, <1>3 DEF WorkerInv, LinkShape, RequestOnLink, DoneOnLink, FinishedOnLink
<1>4. CASE ~RequestOnLink(w)
  <2>1. \/ reqOut[w] = <<>> \/ reqOut[w] = <<D(w)>>
        \/ reqOut[w] = <<Finished>> \/ reqOut[w] = <<D(w), Finished>>
    BY <1>4 DEF WorkerInv, LinkShape, RequestOnLink
  <2>2. LinkShape(w)'
    BY <1>1, <2>1 DEF LinkShape
  <2> QED BY <1>1, <1>2, <1>4, <2>1, <2>2, LinkContents, LinkContentsPrimed
<1> QED BY <1>3, <1>4

\* Away from the wait phase no GRANT is on the link.
LEMMA SoftwareRsp ==
    ASSUME NEW w \in Workers, WorkerInv(w), UNCHANGED <<mgr, reqOut, seen>>,
           sw'[w].reqSeq = sw[w].reqSeq \/ ~GrantOnLink(w)
    PROVE  RspShape(w)' /\ (GrantOnLink(w)' <=> GrantOnLink(w))
<1>1. CASE sw'[w].reqSeq = sw[w].reqSeq
  BY <1>1 DEF WorkerInv, RspShape, GrantOnLink
<1>2. CASE ~GrantOnLink(w)
  <2>1. mgr.rspOut[w] = <<>> \/ mgr.rspOut[w] = <<GroupDone>>
    BY <1>2 DEF WorkerInv, RspShape
  <2>2. ~GrantOnLink(w)'
    BY <2>1 DEF GrantOnLink, GroupDone
  <2> QED BY <1>2, <2>1, <2>2 DEF RspShape, GroupDone
<1> QED BY <1>1, <1>2

\* The mailbox words a software step does not write.
SameWords(w) ==
    /\ mbox'[w].grantSeq = mbox[w].grantSeq
    /\ mbox'[w].groupDone <=> mbox[w].groupDone

SameRequestWords(w) ==
    /\ mbox'[w].reqValid <=> mbox[w].reqValid
    /\ mbox'[w].reqSeq = mbox[w].reqSeq
    /\ mbox'[w].reqNode = mbox[w].reqNode
    /\ mbox'[w].reqWindow = mbox[w].reqWindow

SameDoneWords(w) ==
    /\ mbox'[w].doneValid <=> mbox[w].doneValid
    /\ mbox'[w].doneSeq = mbox[w].doneSeq

SameFinished(w) == mbox'[w].finished <=> mbox[w].finished

SameRequest(w) == sw'[w].reqSeq = sw[w].reqSeq /\ sw'[w].node = sw[w].node
                    /\ sw'[w].window = sw[w].window

\* Every software step concerns only its worker.
LEMMA SoftwareOthers ==
    ASSUME TypeOK, NEW w \in Workers, SoftwareStep(w)
    PROVE  /\ UNCHANGED <<mgr, reqOut, seen>>
           /\ \A v \in Workers : v # w => SameWorker(v)
<1>1. UNCHANGED <<mgr, reqOut, seen>>
  BY DEF SoftwareStep, WriteRequestFields, WriteRequestSeq, WriteRequestValid,
         SeeGrant, WriteDoneSeq, WriteDoneValid, WriteFinished, SeeGroupDone
<1>2. ASSUME NEW v \in Workers, v # w PROVE mbox'[v] = mbox[v] /\ sw'[v] = sw[v]
  BY <1>2 DEF TypeOK, Goto, SoftwareStep, WriteRequestFields, WriteRequestSeq,
         WriteRequestValid, SeeGrant, WriteDoneSeq, WriteDoneValid, WriteFinished, SeeGroupDone
<1> QED BY <1>1, <1>2 DEF SameWorker

LEMMA GotoEffect ==
    ASSUME TypeOK, NEW w \in Workers, NEW p, Goto(w, p)
    PROVE  SameRequest(w) /\ sw'[w].phase = p
BY DEF Goto, TypeOK, Software, SameRequest

LEMMA WriteRequestFieldsInv ==
    ASSUME IInv, TypeOK', NEW w \in Workers, WriteRequestFields(w)
    PROVE  IInv'
<1>1. TypeOK /\ WorkerInv(w) /\ TypeOK' /\ UNCHANGED <<mgr, reqOut, seen>>
      /\ \A v \in Workers : v # w => SameWorker(v)
  BY SoftwareOthers DEF IInv, SoftwareStep
<1>2. PICK n \in Nodes, win \in Windows :
         /\ sw' = [sw EXCEPT ![w] = [phase |-> "reqFields", reqSeq |-> sw[w].reqSeq + 1,
                                     node |-> n, window |-> win]]
         /\ mbox' = [mbox EXCEPT ![w] = [mbox[w] EXCEPT !.reqNode = n, !.reqWindow = win]]
  BY DEF WriteRequestFields
<1>3. sw[w].phase = "run" /\ ~mbox[w].reqValid /\ sw[w].reqSeq \in Nat
  BY <1>1 DEF WriteRequestFields, TypeOK, Software
<1>4. /\ sw'[w].phase = "reqFields" /\ sw'[w].reqSeq = sw[w].reqSeq + 1
      /\ sw'[w].node = n /\ sw'[w].window = win
  BY <1>1, <1>2 DEF TypeOK
<1>5. mbox'[w] = [mbox[w] EXCEPT !.reqNode = n, !.reqWindow = win] /\ mbox[w] \in Mailbox
  BY <1>1, <1>2 DEF TypeOK
<1>6. /\ mbox'[w].reqNode = n /\ mbox'[w].reqWindow = win
      /\ (mbox'[w].reqValid <=> mbox[w].reqValid)
      /\ SameWords(w) /\ SameDoneWords(w) /\ SameFinished(w)
  BY <1>5 DEF Mailbox, SameWords, SameDoneWords, SameFinished
<1>7. ~RequestOnLink(w) /\ ~GrantOnLink(w) /\ ~Queued(mgr, w)
  BY <1>1, <1>3 DEF WorkerInv, RequestToken
<1>8. /\ LinkShape(w)' /\ ~RequestOnLink(w)' /\ ~Queued(mgr, w)'
      /\ (DoneOnLink(w)' <=> DoneOnLink(w)) /\ (FinishedOnLink(w)' <=> FinishedOnLink(w))
  BY <1>1, <1>7, SoftwareLink
<1>9. RspShape(w)' /\ ~GrantOnLink(w)'
  BY <1>1, <1>7, SoftwareRsp
<1>10. RequestToken(w)'
  BY <1>3, <1>6, <1>8, <1>9 DEF RequestToken
<1>11. RequestWords(w)' /\ DoneWords(w)'
  <2>1. /\ mbox[w].grantSeq \in Nat /\ mbox[w].grantSeq <= sw[w].reqSeq
        /\ mbox[w].doneSeq \in Nat /\ mbox[w].doneSeq <= sw[w].reqSeq
    BY <1>1 DEF TypeOK, Mailbox, WorkerInv, RequestWords, DoneWords
  <2>2. mbox[w].grantSeq < sw[w].reqSeq + 1 /\ mbox[w].doneSeq < sw[w].reqSeq + 1
        /\ mbox[w].grantSeq <= sw[w].reqSeq + 1 /\ mbox[w].doneSeq <= sw[w].reqSeq + 1
    BY <1>3, <2>1
  <2>3. RequestWords(w)'
    BY <1>3, <1>4, <1>6, <2>2, GroupAssumption DEF RequestWords, SameWords, Nodes
  <2>4. DoneWords(w)'
    BY <1>1, <1>4, <1>6, <2>2 DEF WorkerInv, DoneWords, SameDoneWords
  <2> QED BY <2>3, <2>4
<1>12. GrantToken(w)'
  BY <1>1, <1>3, <1>4, <1>6, <1>7, <1>8, <1>9
     DEF WorkerInv, GrantToken, GrantAtWorker, GrantReturning, GrantInMailbox, Holds, SameDoneWords
<1>13. FinishToken(w)'
  BY <1>1, <1>3, <1>4, <1>6, <1>8 DEF WorkerInv, FinishToken, SameFinished, SameDoneWords
<1>14. WorkerInv(w)'
  BY <1>8, <1>9, <1>10, <1>11, <1>12, <1>13 DEF WorkerInv
<1> QED BY <1>1, <1>6, <1>7, <1>14, LocalStep DEF SameWords

\* The links and the queue look the same to worker w.
FlagsKept(w) ==
    /\ LinkShape(w)' /\ RspShape(w)'
    /\ RequestOnLink(w)' <=> RequestOnLink(w)
    /\ DoneOnLink(w)' <=> DoneOnLink(w)
    /\ FinishedOnLink(w)' <=> FinishedOnLink(w)
    /\ Queued(mgr, w)' <=> Queued(mgr, w)
    /\ GrantOnLink(w)' <=> GrantOnLink(w)

\* A software step that keeps its request leaves every flag of the links alone.
LEMMA SoftwareFlags ==
    ASSUME IInv, TypeOK', NEW w \in Workers, SoftwareStep(w), SameRequest(w)
    PROVE  /\ TypeOK /\ TypeOK' /\ WorkerInv(w) /\ UNCHANGED <<mgr, reqOut, seen>>
           /\ \A v \in Workers : v # w => SameWorker(v)
           /\ FlagsKept(w)
<1>1. TypeOK /\ WorkerInv(w) /\ TypeOK' /\ UNCHANGED <<mgr, reqOut, seen>>
      /\ \A v \in Workers : v # w => SameWorker(v)
  BY SoftwareOthers DEF IInv
<1>2. R(w)' = R(w) /\ sw'[w].reqSeq = sw[w].reqSeq
  BY DEF R, SameRequest
<1> QED BY <1>1, <1>2, SoftwareLink, SoftwareRsp DEF FlagsKept

LEMMA WriteRequestSeqInv ==
    ASSUME IInv, TypeOK', NEW w \in Workers, WriteRequestSeq(w)
    PROVE  IInv'
<1>0. TypeOK /\ SoftwareStep(w) /\ Goto(w, "reqSeq")
  BY DEF IInv, SoftwareStep, WriteRequestSeq
<1>1. SameRequest(w) /\ sw'[w].phase = "reqSeq" /\ sw[w].phase = "reqFields"
  BY <1>0, GotoEffect DEF WriteRequestSeq
<1>2. /\ TypeOK' /\ WorkerInv(w) /\ UNCHANGED <<mgr, reqOut, seen>>
      /\ \A v \in Workers : v # w => SameWorker(v)
      /\ FlagsKept(w)
  BY <1>0, <1>1, SoftwareFlags
<1>3. /\ mbox'[w].reqSeq = sw[w].reqSeq /\ mbox'[w].reqNode = mbox[w].reqNode
      /\ mbox'[w].reqWindow = mbox[w].reqWindow
      /\ (mbox'[w].reqValid <=> mbox[w].reqValid)
      /\ SameWords(w) /\ SameDoneWords(w) /\ SameFinished(w)
  BY <1>0 DEF WriteRequestSeq, TypeOK, Mailbox, SameWords, SameDoneWords, SameFinished
<1>4. ~mbox[w].reqValid /\ ~RequestOnLink(w) /\ ~GrantOnLink(w) /\ ~Queued(mgr, w)
  BY <1>1, <1>2 DEF WorkerInv, RequestToken
<1>5. RequestToken(w)'
  BY <1>2, <1>3, <1>4 DEF FlagsKept, RequestToken
<1>6. RequestWords(w)'
  <2>1. RequestWords(w) /\ mbox'[w].grantSeq = mbox[w].grantSeq
    BY <1>2, <1>3 DEF WorkerInv, SameWords
  <2>2. sw'[w].reqSeq = sw[w].reqSeq /\ sw'[w].node = sw[w].node /\ sw'[w].window = sw[w].window
    BY <1>0 DEF Goto, TypeOK
  <2> QED BY <1>1, <1>3, <1>4, <2>1, <2>2 DEF RequestWords
<1>7. DoneWords(w)'
  BY <1>1, <1>2, <1>3 DEF WorkerInv, DoneWords, SameDoneWords, SameRequest
<1>8. GrantToken(w)'
  BY <1>1, <1>2, <1>3, <1>4 DEF FlagsKept, WorkerInv, GrantToken, GrantAtWorker, GrantReturning,
       GrantInMailbox, Holds, SameDoneWords
<1>9. FinishToken(w)'
  BY <1>1, <1>2, <1>3 DEF FlagsKept, WorkerInv, FinishToken, SameFinished, SameDoneWords
<1>10. WorkerInv(w)'
  BY <1>2, <1>5, <1>6, <1>7, <1>8, <1>9 DEF FlagsKept, WorkerInv
<1> QED BY <1>1, <1>2, <1>3, <1>10, LocalStep DEF SameWords, SameRequest

LEMMA WriteRequestValidInv ==
    ASSUME IInv, TypeOK', NEW w \in Workers, WriteRequestValid(w)
    PROVE  IInv'
<1>0. TypeOK /\ SoftwareStep(w) /\ Goto(w, "wait")
  BY DEF IInv, SoftwareStep, WriteRequestValid
<1>1. SameRequest(w) /\ sw'[w].phase = "wait" /\ sw[w].phase = "reqSeq"
  BY <1>0, GotoEffect DEF WriteRequestValid
<1>2. /\ TypeOK' /\ WorkerInv(w) /\ UNCHANGED <<mgr, reqOut, seen>>
      /\ \A v \in Workers : v # w => SameWorker(v)
      /\ FlagsKept(w)
  BY <1>0, <1>1, SoftwareFlags
<1>3. /\ mbox'[w].reqSeq = mbox[w].reqSeq /\ mbox'[w].reqNode = mbox[w].reqNode
      /\ mbox'[w].reqWindow = mbox[w].reqWindow /\ mbox'[w].reqValid
      /\ SameWords(w) /\ SameDoneWords(w) /\ SameFinished(w)
  BY <1>0 DEF WriteRequestValid, TypeOK, Mailbox, SameWords, SameDoneWords, SameFinished
<1>4. /\ ~RequestOnLink(w) /\ ~GrantOnLink(w) /\ ~Queued(mgr, w)
      /\ mbox[w].grantSeq < sw[w].reqSeq /\ mbox[w].grantSeq # sw[w].reqSeq
  <2>1. mbox[w].grantSeq \in Nat /\ sw[w].reqSeq \in Nat
    BY <1>0 DEF TypeOK, Mailbox, Software
  <2> QED BY <1>1, <1>2, <2>1 DEF WorkerInv, RequestToken, RequestWords
<1>5. RequestToken(w)'
  BY <1>1, <1>2, <1>3, <1>4 DEF FlagsKept, RequestToken, SameWords, SameRequest
<1>6. RequestWords(w)'
  BY <1>1, <1>2, <1>3, <1>4 DEF WorkerInv, RequestWords, SameWords, SameRequest
<1>7. DoneWords(w)'
  BY <1>1, <1>2, <1>3 DEF WorkerInv, DoneWords, SameDoneWords, SameRequest
<1>8. GrantToken(w)'
  BY <1>1, <1>2, <1>3, <1>4 DEF FlagsKept, WorkerInv, GrantToken, GrantAtWorker, GrantReturning,
       GrantInMailbox, Holds, SameDoneWords, SameWords, SameRequest
<1>9. FinishToken(w)'
  BY <1>1, <1>2, <1>3 DEF FlagsKept, WorkerInv, FinishToken, SameFinished, SameDoneWords
<1>10. WorkerInv(w)'
  BY <1>2, <1>5, <1>6, <1>7, <1>8, <1>9 DEF FlagsKept, WorkerInv
<1> QED BY <1>1, <1>2, <1>3, <1>10, LocalStep DEF SameWords, SameRequest

LEMMA SeeGrantInv ==
    ASSUME IInv, TypeOK', NEW w \in Workers, SeeGrant(w)
    PROVE  IInv'
<1>0. TypeOK /\ SoftwareStep(w) /\ Goto(w, "hold") /\ mbox' = mbox
  BY DEF IInv, SoftwareStep, SeeGrant
<1>1. /\ SameRequest(w) /\ sw'[w].phase = "hold" /\ sw[w].phase = "wait"
      /\ mbox[w].grantSeq = sw[w].reqSeq
  BY <1>0, GotoEffect DEF SeeGrant
<1>2. /\ TypeOK' /\ WorkerInv(w) /\ UNCHANGED <<mgr, reqOut, seen>>
      /\ \A v \in Workers : v # w => SameWorker(v)
      /\ FlagsKept(w)
  BY <1>0, <1>1, SoftwareFlags
<1>3. ~mbox[w].reqValid /\ ~RequestOnLink(w) /\ ~GrantOnLink(w) /\ ~Queued(mgr, w)
  BY <1>1, <1>2 DEF WorkerInv, RequestToken
<1>4. RequestToken(w)'
  BY <1>0, <1>2, <1>3 DEF FlagsKept, RequestToken
<1>5. RequestWords(w)'
  BY <1>0, <1>1, <1>2, <1>3 DEF WorkerInv, RequestWords, SameRequest
<1>6. DoneWords(w)'
  BY <1>0, <1>1, <1>2 DEF WorkerInv, DoneWords, SameRequest
<1>7. GrantToken(w)'
  BY <1>0, <1>1, <1>2 DEF FlagsKept, WorkerInv, GrantToken, GrantAtWorker, GrantReturning,
       GrantInMailbox, Holds, SameRequest
<1>8. FinishToken(w)'
  BY <1>0, <1>1, <1>2 DEF FlagsKept, WorkerInv, FinishToken
<1>9. WorkerInv(w)'
  BY <1>2, <1>4, <1>5, <1>6, <1>7, <1>8 DEF FlagsKept, WorkerInv
<1> QED BY <1>0, <1>1, <1>2, <1>9, LocalStep DEF SameRequest

LEMMA WriteDoneSeqInv ==
    ASSUME IInv, TypeOK', NEW w \in Workers, WriteDoneSeq(w)
    PROVE  IInv'
<1>0. TypeOK /\ SoftwareStep(w) /\ Goto(w, "doneSeq")
  BY DEF IInv, SoftwareStep, WriteDoneSeq
<1>1. /\ SameRequest(w) /\ sw'[w].phase = "doneSeq" /\ sw[w].phase = "hold"
      /\ ~mbox[w].doneValid
  BY <1>0, GotoEffect DEF WriteDoneSeq
<1>2. /\ TypeOK' /\ WorkerInv(w) /\ UNCHANGED <<mgr, reqOut, seen>>
      /\ \A v \in Workers : v # w => SameWorker(v)
      /\ FlagsKept(w)
  BY <1>0, <1>1, SoftwareFlags
<1>3. /\ mbox'[w].doneSeq = sw[w].reqSeq /\ (mbox'[w].doneValid <=> mbox[w].doneValid)
      /\ SameWords(w) /\ SameRequestWords(w) /\ SameFinished(w)
  BY <1>0 DEF WriteDoneSeq, TypeOK, Mailbox, SameWords, SameRequestWords, SameFinished
<1>4. ~mbox[w].reqValid /\ ~RequestOnLink(w) /\ ~GrantOnLink(w) /\ ~Queued(mgr, w)
  BY <1>1, <1>2 DEF WorkerInv, RequestToken
<1>5. RequestToken(w)'
  BY <1>2, <1>3, <1>4 DEF FlagsKept, RequestToken, SameRequestWords
<1>6. RequestWords(w)'
  BY <1>1, <1>2, <1>3, <1>4 DEF WorkerInv, RequestWords, SameWords, SameRequestWords, SameRequest
<1>7. DoneWords(w)'
  <2>1. seen[w].doneSeq \in Nat /\ mbox[w].doneSeq \in Nat /\ sw[w].reqSeq \in Nat
    BY <1>0 DEF TypeOK, Endpoint, Mailbox, Software
  <2>2. seen[w].doneSeq <= mbox[w].doneSeq /\ mbox[w].doneSeq < sw[w].reqSeq
    BY <1>1, <1>2 DEF WorkerInv, DoneWords
  <2>3. /\ seen[w].doneSeq <= sw[w].reqSeq /\ seen[w].doneSeq < sw[w].reqSeq
        /\ sw[w].reqSeq <= sw[w].reqSeq
    BY <2>1, <2>2
  <2> QED BY <1>1, <1>2, <1>3, <2>3 DEF DoneWords, SameRequest
<1>8. GrantToken(w)'
  BY <1>1, <1>2, <1>3, <1>4 DEF FlagsKept, WorkerInv, GrantToken, GrantAtWorker, GrantReturning,
       GrantInMailbox, Holds, SameRequest
<1>9. FinishToken(w)'
  BY <1>1, <1>2, <1>3 DEF FlagsKept, WorkerInv, FinishToken, SameFinished
<1>10. WorkerInv(w)'
  BY <1>2, <1>5, <1>6, <1>7, <1>8, <1>9 DEF FlagsKept, WorkerInv
<1> QED BY <1>1, <1>2, <1>3, <1>10, LocalStep DEF SameWords, SameRequest

LEMMA WriteDoneValidInv ==
    ASSUME IInv, TypeOK', NEW w \in Workers, WriteDoneValid(w)
    PROVE  IInv'
<1>1. TypeOK /\ WorkerInv(w) /\ TypeOK' /\ UNCHANGED <<mgr, reqOut, seen>>
      /\ \A v \in Workers : v # w => SameWorker(v)
  BY SoftwareOthers DEF IInv, SoftwareStep
<1>2. /\ sw[w].phase = "doneSeq" /\ sw'[w].phase = "run" /\ sw'[w].reqSeq = sw[w].reqSeq
      /\ sw'[w].node = 0
  BY <1>1 DEF WriteDoneValid, TypeOK
<1>3. /\ mbox'[w].doneSeq = mbox[w].doneSeq /\ mbox'[w].doneValid
      /\ SameWords(w) /\ SameRequestWords(w) /\ SameFinished(w)
  BY <1>1 DEF WriteDoneValid, TypeOK, Mailbox, SameWords, SameRequestWords, SameFinished
<1>4. ~mbox[w].reqValid /\ ~RequestOnLink(w) /\ ~GrantOnLink(w) /\ ~Queued(mgr, w)
  BY <1>1, <1>2 DEF WorkerInv, RequestToken
<1>5. /\ LinkShape(w)' /\ ~RequestOnLink(w)' /\ ~Queued(mgr, w)'
      /\ (DoneOnLink(w)' <=> DoneOnLink(w)) /\ (FinishedOnLink(w)' <=> FinishedOnLink(w))
  BY <1>1, <1>4, SoftwareLink
<1>6. RspShape(w)' /\ ~GrantOnLink(w)'
  BY <1>1, <1>4, SoftwareRsp
<1>7. ~DoneOnLink(w) /\ ~mbox[w].doneValid /\ mgr.inflight[w]
  BY <1>1, <1>2 DEF WorkerInv, GrantToken, GrantAtWorker, GrantReturning, Holds
<1>8. RequestToken(w)'
  BY <1>3, <1>4, <1>5, <1>6 DEF RequestToken, SameRequestWords
<1>9. RequestWords(w)'
  <2>1. RequestWords(w) /\ ~mbox'[w].reqValid /\ mbox'[w].grantSeq = mbox[w].grantSeq
    BY <1>1, <1>3, <1>4 DEF WorkerInv, SameWords, SameRequestWords
  <2>2. 0 \in Nodes
    BY GroupAssumption DEF Nodes
  <2> QED BY <1>2, <2>1, <2>2 DEF RequestWords
<1>10. DoneWords(w)'
  BY <1>1, <1>2, <1>3 DEF WorkerInv, DoneWords
<1>11. GrantToken(w)'
  BY <1>1, <1>2, <1>3, <1>5, <1>6, <1>7
     DEF GrantToken, GrantAtWorker, GrantReturning, GrantInMailbox, Holds
<1>12. FinishToken(w)'
  BY <1>1, <1>2, <1>3, <1>5 DEF WorkerInv, FinishToken, SameFinished
<1>13. WorkerInv(w)'
  BY <1>5, <1>6, <1>8, <1>9, <1>10, <1>11, <1>12 DEF WorkerInv
<1> QED BY <1>1, <1>3, <1>4, <1>13, LocalStep DEF SameWords

LEMMA WriteFinishedInv ==
    ASSUME IInv, TypeOK', NEW w \in Workers, WriteFinished(w)
    PROVE  IInv'
<1>0. TypeOK /\ SoftwareStep(w) /\ Goto(w, "drain")
  BY DEF IInv, SoftwareStep, WriteFinished
<1>1. SameRequest(w) /\ sw'[w].phase = "drain" /\ sw[w].phase = "run"
  BY <1>0, GotoEffect DEF WriteFinished
<1>2. /\ TypeOK' /\ WorkerInv(w) /\ UNCHANGED <<mgr, reqOut, seen>>
      /\ \A v \in Workers : v # w => SameWorker(v)
      /\ FlagsKept(w)
  BY <1>0, <1>1, SoftwareFlags
<1>3. mbox'[w].finished /\ SameWords(w) /\ SameRequestWords(w) /\ SameDoneWords(w)
  BY <1>0 DEF WriteFinished, TypeOK, Mailbox, SameWords, SameRequestWords, SameDoneWords
<1>4. ~mbox[w].reqValid /\ ~RequestOnLink(w) /\ ~GrantOnLink(w) /\ ~Queued(mgr, w)
  BY <1>1, <1>2 DEF WorkerInv, RequestToken
<1>5. RequestToken(w)'
  BY <1>2, <1>3, <1>4 DEF FlagsKept, RequestToken, SameRequestWords
<1>6. RequestWords(w)'
  BY <1>1, <1>2, <1>3, <1>4 DEF WorkerInv, RequestWords, SameWords, SameRequestWords, SameRequest
<1>7. DoneWords(w)'
  BY <1>1, <1>2, <1>3 DEF WorkerInv, DoneWords, SameDoneWords, SameRequest
<1>8. GrantToken(w)'
  BY <1>1, <1>2, <1>3, <1>4 DEF FlagsKept, WorkerInv, GrantToken, GrantAtWorker, GrantReturning,
       GrantInMailbox, Holds, SameDoneWords
<1>9. FinishToken(w)'
  BY <1>1, <1>2, <1>3 DEF FlagsKept, WorkerInv, FinishToken
<1>10. WorkerInv(w)'
  BY <1>2, <1>5, <1>6, <1>7, <1>8, <1>9 DEF FlagsKept, WorkerInv
<1> QED BY <1>1, <1>2, <1>3, <1>10, LocalStep DEF SameWords, SameRequest

LEMMA SeeGroupDoneInv ==
    ASSUME IInv, TypeOK', NEW w \in Workers, SeeGroupDone(w)
    PROVE  IInv'
<1>0. TypeOK /\ SoftwareStep(w) /\ Goto(w, "left") /\ mbox' = mbox
  BY DEF IInv, SoftwareStep, SeeGroupDone
<1>1. SameRequest(w) /\ sw'[w].phase = "left" /\ sw[w].phase = "drain"
  BY <1>0, GotoEffect DEF SeeGroupDone
<1>2. /\ TypeOK' /\ WorkerInv(w) /\ UNCHANGED <<mgr, reqOut, seen>>
      /\ \A v \in Workers : v # w => SameWorker(v)
      /\ FlagsKept(w)
  BY <1>0, <1>1, SoftwareFlags
<1>3. ~mbox[w].reqValid /\ ~RequestOnLink(w) /\ ~GrantOnLink(w) /\ ~Queued(mgr, w)
  BY <1>1, <1>2 DEF WorkerInv, RequestToken
<1>4. RequestToken(w)'
  BY <1>0, <1>2, <1>3 DEF FlagsKept, RequestToken
<1>5. RequestWords(w)'
  BY <1>0, <1>1, <1>2, <1>3 DEF WorkerInv, RequestWords, SameRequest
<1>6. DoneWords(w)'
  BY <1>0, <1>1, <1>2 DEF WorkerInv, DoneWords, SameRequest
<1>7. GrantToken(w)'
  BY <1>0, <1>1, <1>2, <1>3 DEF FlagsKept, WorkerInv, GrantToken, GrantAtWorker, GrantReturning,
       GrantInMailbox, Holds, SameRequest
<1>8. FinishToken(w)'
  BY <1>0, <1>1, <1>2 DEF FlagsKept, WorkerInv, FinishToken
<1>9. WorkerInv(w)'
  BY <1>2, <1>4, <1>5, <1>6, <1>7, <1>8 DEF FlagsKept, WorkerInv
<1> QED BY <1>0, <1>1, <1>2, <1>9, LocalStep DEF SameRequest

-----------------------------------------------------------------------------
(* Types of the manager's operators. *)

LEMMA ModType ==
    ASSUME NEW a \in Nat, NEW b \in Nat \ {0}
    PROVE  a % b \in Nat /\ a % b < b
OBVIOUS

LEMMA EmptyIs ==
    ASSUME NEW S
    PROVE  <<>> \in Seq(S) /\ \A s \in Seq(S) : (s = <<>>) <=> (Len(s) = 0)
OBVIOUS

LEMMA HeadTailIs ==
    ASSUME NEW S, NEW s \in Seq(S), s # <<>>
    PROVE  Head(s) \in S /\ Tail(s) \in Seq(S)
OBVIOUS

LEMMA ConcatIs ==
    ASSUME NEW S, NEW s \in Seq(S), NEW t \in Seq(S)
    PROVE  /\ s \o t \in Seq(S) /\ Len(s \o t) = Len(s) + Len(t)
           /\ \A j \in 1 .. Len(s) + Len(t) :
                 (s \o t)[j] = IF j <= Len(s) THEN s[j] ELSE t[j - Len(s)]
OBVIOUS

LEMMA EraseType ==
    ASSUME NEW S, NEW s \in Seq(S), NEW i \in 1 .. Len(s)
    PROVE  /\ Erase(s, i) \in Seq(S)
           /\ Len(Erase(s, i)) = Len(s) - 1
           /\ \A j \in 1 .. Len(s) - 1 :
                Erase(s, i)[j] = IF j < i THEN s[j] ELSE s[j + 1]
<1> DEFINE a == SubSeq(s, 1, i - 1)
           b == SubSeq(s, i + 1, Len(s))
<1>1. /\ a \in Seq(S)
      /\ Len(a) = i - 1
      /\ \A j \in 1 .. i - 1 : a[j] = s[j]
  OBVIOUS
<1>2. /\ b \in Seq(S)
      /\ Len(b) = Len(s) - i
      /\ \A j \in 1 .. Len(s) - i : b[j] = s[i + j]
  OBVIOUS
<1> HIDE DEF a, b
<1>3. /\ a \o b \in Seq(S)
      /\ Len(a \o b) = Len(a) + Len(b)
      /\ \A j \in 1 .. Len(a) + Len(b) : (a \o b)[j] = IF j <= Len(a) THEN a[j] ELSE b[j - Len(a)]
  BY <1>1, <1>2, ConcatIs
<1>4. Len(s) \in Nat
  OBVIOUS
<1>5. \A j \in 1 .. Len(s) - 1 : (a \o b)[j] = IF j < i THEN s[j] ELSE s[j + 1]
  <2> TAKE j \in 1 .. Len(s) - 1
  <2>1. CASE j < i
    BY <1>1, <1>2, <1>3, <1>4, <2>1
  <2>2. CASE j >= i
    <3>0. /\ Len(a) = i - 1 /\ Len(b) = Len(s) - i /\ j \in Nat /\ i \in Nat
          /\ j \in 1 .. Len(a) + Len(b) /\ ~(j <= Len(a)) /\ j - Len(a) \in 1 .. Len(s) - i
      BY <1>1, <1>2, <1>4, <2>2
    <3>1. (a \o b)[j] = b[j - Len(a)]
      BY <1>3, <3>0
    <3>2. b[j - Len(a)] = s[i + (j - Len(a))]
      BY <1>2, <3>0
    <3>3. i + (j - Len(a)) = j + 1
      BY <3>0
    <3> QED BY <3>1, <3>2, <3>3, <2>2
  <2>3. j < i \/ j >= i
    BY <1>4
  <2> QED BY <2>1, <2>2, <2>3
<1>6. Erase(s, i) = a \o b
  BY DEF Erase, a, b
<1>7. Len(a \o b) = Len(s) - 1
  BY <1>1, <1>2, <1>3, <1>4
<1> QED BY <1>3, <1>5, <1>6, <1>7

LEMMA SendRspType ==
    ASSUME NEW out \in [Workers -> Seq(RspMsg)], NEW w \in Workers, NEW msg \in RspMsg
    PROVE  SendRsp(out, w, msg) \in [Workers -> Seq(RspMsg)]
<1> DEFINE sent == IF msg.type = "GRANT" /\ msg.seq = 0 THEN [msg EXCEPT !.window = 0] ELSE msg
<1>1. sent \in RspMsg
  BY DEF RspMsg
<1> HIDE DEF sent
<1>2. [out EXCEPT ![w] = Append(@, sent)] \in [Workers -> Seq(RspMsg)]
  BY <1>1
<1> QED BY <1>2 DEF SendRsp, sent

LEMMA IssueGrantType ==
    ASSUME NEW m \in Manager, NEW i \in Candidates(m)
    PROVE  IssueGrant(m, i) \in Manager
<1> USE GroupAssumption
<1> DEFINE req == m.pendingQ[i]
           q == Erase(m.pendingQ, i)
           grant == Grant(req.seq, IF req.window = 0 THEN 1 ELSE req.window)
           out == SendRsp(m.rspOut, req.slot, grant)
           cur == IF q = <<>> THEN 0 ELSE (i - 1) % Len(q)
<1>1. i \in 1 .. Len(m.pendingQ) /\ m.pendingQ \in Seq(PendingReq)
  BY DEF Candidates, Manager
<1>2. req \in PendingReq
  BY <1>1, ElementInSet
<1>3. req.slot \in Workers /\ req.seq \in Nat /\ req.node \in Nat /\ req.window \in Nat
  BY <1>2 DEF PendingReq
<1>4. req.node \in Nodes
  BY <1>3 DEF Candidates, Schedulable, Nodes
<1>5. grant \in RspMsg
  BY <1>3 DEF Grant, RspMsg
<1>6. out \in [Workers -> Seq(RspMsg)]
  BY <1>3, <1>5, SendRspType DEF Manager
<1>7. q \in Seq(PendingReq) /\ Len(q) \in Nat
  BY <1>1, EraseType
<1>8. cur \in Nat
  <2>1. CASE q = <<>>
    BY <2>1
  <2>2. CASE q # <<>>
    BY <1>1, <1>7, <2>2, EmptyIs, ModType
  <2> QED BY <2>1, <2>2
<1> DEFINE coarse == [m.coarse EXCEPT ![req.slot] = req.window > 1]
           inflight == [m.inflight EXCEPT ![req.slot] = TRUE]
           node == [m.inflightNode EXCEPT ![req.slot] = req.node]
           load == [m.inflightPerNode EXCEPT ![req.node] = m.inflightPerNode[req.node] + 1]
<1> HIDE DEF req, q, grant, out, cur
<1>9. coarse \in [Workers -> BOOLEAN] /\ inflight \in [Workers -> BOOLEAN]
  <2>1. (req.window > 1) \in BOOLEAN
    BY <1>3
  <2>2. m.coarse \in [Workers -> BOOLEAN] /\ m.inflight \in [Workers -> BOOLEAN]
    BY DEF Manager
  <2> QED BY <1>3, <2>1, <2>2, Zenon
<1>10. node \in [Workers -> Nat]
  BY <1>3 DEF Manager
<1>11. load \in [Nodes -> Nat]
  BY <1>4 DEF Manager
<1> HIDE DEF coarse, inflight, node, load
<1>12. [m EXCEPT !.rspOut = out, !.coarse = coarse, !.inflight = inflight,
                 !.inflightNode = node, !.inflightPerNode = load,
                 !.pendingQ = q, !.cursor = cur] \in Manager
  BY <1>6, <1>7, <1>8, <1>9, <1>10, <1>11 DEF Manager
<1> QED BY <1>12 DEF IssueGrant, req, q, grant, out, cur, coarse, inflight, node, load

INSTANCE FiniteSetTheorems

\* Every nonempty set of naturals has a least element.
LEMMA LeastNat ==
    ASSUME NEW T, T \subseteq Nat, T # {}
    PROVE  \E x \in T : \A y \in T : x <= y
<1> DEFINE Rel == OpToRel(<, Nat)
<1>1. IsWellFoundedOn(Rel, Nat)
  BY NatLessThanWellFounded
<1>2. PICK x \in T : \A y \in T : ~ (<<y, x>> \in Rel)
  <2> HIDE DEF Rel
  <2> QED BY <1>1, WFMin, Zenon
<1>3. \A y \in T : ~(y < x)
  BY <1>2 DEF OpToRel
<1> QED BY <1>3

LEMMA PickType ==
    ASSUME NEW m \in Manager, m.cursor < Len(m.pendingQ), Candidates(m) # {}
    PROVE  Pick(m) \in Candidates(m)
<1> DEFINE Ranks == {ScanRank(m, i) : i \in Candidates(m)}
<1>1. \A i \in Candidates(m) : ScanRank(m, i) \in Nat
  <2> TAKE i \in Candidates(m)
  <2>1. /\ i \in 1 .. Len(m.pendingQ)
        /\ m.cursor \in Nat
        /\ Len(m.pendingQ) \in Nat
    BY DEF Candidates, Manager
  <2>2. i - 1 - m.cursor + Len(m.pendingQ) \in Nat
    BY <2>1
  <2>3. Len(m.pendingQ) \in Nat \ {0}
    BY <2>1
  <2> QED BY <2>2, <2>3, ModType DEF ScanRank
<1>2. Ranks \subseteq Nat /\ Ranks # {}
  BY <1>1
<1>3. PICK x \in Ranks : \A y \in Ranks : x <= y
  <2> HIDE DEF Ranks
  <2> QED BY <1>2, LeastNat
<1>4. \E i \in Candidates(m) : \A j \in Candidates(m) : ScanRank(m, i) <= ScanRank(m, j)
  BY <1>3
<1> QED BY <1>4 DEF Pick

\* The manager after the cursor of a pass has been brought into range.
Rewound(m) == [m EXCEPT !.cursor = IF @ >= Len(m.pendingQ) THEN 0 ELSE @]

LEMMA RewoundType ==
    ASSUME NEW m \in Manager, m.pendingQ # <<>>
    PROVE  /\ Rewound(m) \in Manager
           /\ Rewound(m).cursor < Len(Rewound(m).pendingQ)
           /\ Rewound(m).pendingQ = m.pendingQ
           /\ Rewound(m).inflight = m.inflight
           /\ Rewound(m).inflightNode = m.inflightNode
           /\ Rewound(m).inflightPerNode = m.inflightPerNode
           /\ Rewound(m).finished = m.finished
           /\ Rewound(m).rspOut = m.rspOut
<1>1. m.pendingQ \in Seq(PendingReq) /\ m.cursor \in Nat
  BY DEF Manager
<1>2. Len(m.pendingQ) \in Nat \ {0}
  BY <1>1, EmptyIs
<1> DEFINE c == IF m.cursor >= Len(m.pendingQ) THEN 0 ELSE m.cursor
           r == [m EXCEPT !.cursor = c]
<1>3. c \in Nat /\ c < Len(m.pendingQ)
  BY <1>1, <1>2
<1> HIDE DEF c
<1>4. /\ r \in Manager
      /\ r.cursor = c
      /\ r.pendingQ = m.pendingQ
      /\ r.inflight = m.inflight
      /\ r.inflightNode = m.inflightNode
      /\ r.inflightPerNode = m.inflightPerNode
      /\ r.finished = m.finished
      /\ r.rspOut = m.rspOut
  BY <1>3 DEF Manager
<1>5. Rewound(m) = r
  BY DEF Rewound, c
<1> HIDE DEF r
<1> QED BY <1>3, <1>4, <1>5

LEMMA SchedulePassCases ==
    ASSUME NEW m \in Manager, NEW k
    PROVE  \/ SchedulePass(m, k) = m
           \/ /\ m.pendingQ # <<>>
              /\ SchedulePass(m, k) = Rewound(m)
           \/ /\ m.pendingQ # <<>>
              /\ \E i \in Candidates(Rewound(m)) : SchedulePass(m, k) = IssueGrant(Rewound(m), i)
<1>0. SchedulePass(m, k) = IF k > MaxGrantsPerSchedule \/ m.pendingQ = <<>> THEN m
                           ELSE IF Candidates(Rewound(m)) = {} THEN Rewound(m)
                                ELSE IssueGrant(Rewound(m), Pick(Rewound(m)))
  BY DEF SchedulePass, Rewound
<1>1. CASE k > MaxGrantsPerSchedule \/ m.pendingQ = <<>>
  BY <1>0, <1>1
<1>2. CASE ~(k > MaxGrantsPerSchedule \/ m.pendingQ = <<>>) /\ Candidates(Rewound(m)) = {}
  BY <1>0, <1>2
<1>3. CASE ~(k > MaxGrantsPerSchedule \/ m.pendingQ = <<>>) /\ Candidates(Rewound(m)) # {}
  <2>1. SchedulePass(m, k) = IssueGrant(Rewound(m), Pick(Rewound(m)))
    BY <1>0, <1>3
  <2>2. Pick(Rewound(m)) \in Candidates(Rewound(m))
    BY <1>3, RewoundType, PickType
  <2> QED BY <1>3, <2>1, <2>2
<1> QED BY <1>1, <1>2, <1>3

LEMMA SchedulePassType ==
    ASSUME NEW m \in Manager, NEW k
    PROVE  SchedulePass(m, k) \in Manager
BY SchedulePassCases, RewoundType, IssueGrantType

LEMMA TryScheduleType ==
    ASSUME NEW m \in Manager
    PROVE  TrySchedule(m) \in Manager
<1>1. SchedulePass(m, 1) \in Manager
  BY SchedulePassType
<1>2. SchedulePass(SchedulePass(m, 1), 2) \in Manager
  BY <1>1, SchedulePassType
<1>3. SchedulePass(SchedulePass(SchedulePass(m, 1), 2), 3) \in Manager
  BY <1>2, SchedulePassType
<1> QED BY <1>3, SchedulePassType DEF TrySchedule

LEMMA GroupDoneType ==
    ASSUME NEW m \in Manager
    PROVE  MaybeSendGroupDone(m) \in Manager
<1> DEFINE out == [w \in Workers |-> Append(m.rspOut[w], GroupDone)]
<1>1. GroupDone \in RspMsg
  BY DEF GroupDone, RspMsg
<1>2. out \in [Workers -> Seq(RspMsg)]
  BY <1>1 DEF Manager
<1> HIDE DEF out
<1>3. [m EXCEPT !.rspOut = out] \in Manager
  BY <1>2 DEF Manager
<1> QED BY <1>3 DEF MaybeSendGroupDone, out

LEMMA ReturnGrantType ==
    ASSUME NEW m \in Manager, NEW w \in Workers
    PROVE  ReturnGrant(m, w) \in Manager
<1> DEFINE inflight == [m.inflight EXCEPT ![w] = FALSE]
           load == ReleaseNode(m.inflightPerNode, m.inflightNode[w])
           node == [m.inflightNode EXCEPT ![w] = 0]
<1>1. inflight \in [Workers -> BOOLEAN]
  BY DEF Manager
<1>2. node \in [Workers -> Nat]
  BY DEF Manager
<1>3. load \in [Nodes -> Nat]
  <2>1. m.inflightNode[w] \in Nat /\ m.inflightPerNode \in [Nodes -> Nat]
    BY DEF Manager
  <2>2. CASE m.inflightNode[w] < NumNodes /\ m.inflightPerNode[m.inflightNode[w]] > 0
    <3>1. m.inflightNode[w] \in Nodes
      BY <2>1, <2>2, GroupAssumption DEF Nodes
    <3> QED BY <2>1, <2>2, <3>1 DEF ReleaseNode
  <2>3. CASE ~(m.inflightNode[w] < NumNodes /\ m.inflightPerNode[m.inflightNode[w]] > 0)
    BY <2>1, <2>3 DEF ReleaseNode
  <2> QED BY <2>2, <2>3
<1> HIDE DEF inflight, load, node
<1>4. [m EXCEPT !.inflight = inflight, !.inflightPerNode = load, !.inflightNode = node] \in Manager
  BY <1>1, <1>2, <1>3 DEF Manager
<1> QED BY <1>4 DEF ReturnGrant, inflight, load, node

LEMMA OnRequestType ==
    ASSUME NEW m \in Manager, NEW w \in Workers, NEW msg \in ReqMsg
    PROVE  OnRequest(m, w, msg) \in Manager
<1> DEFINE req == [slot |-> w, seq |-> msg.seq, node |-> msg.node, window |-> msg.window]
           q == Append(m.pendingQ, req)
<1>1. q \in Seq(PendingReq)
  <2>1. req \in PendingReq
    BY DEF ReqMsg, PendingReq
  <2> QED BY <2>1 DEF Manager
<1> HIDE DEF q
<1>2. [m EXCEPT !.pendingQ = q] \in Manager
  BY <1>1 DEF Manager
<1> QED BY <1>2, TryScheduleType DEF OnRequest, q

LEMMA OnDoneType ==
    ASSUME NEW m \in Manager, NEW w \in Workers
    PROVE  OnDone(m, w) \in Manager
BY ReturnGrantType, TryScheduleType, GroupDoneType DEF OnDone

LEMMA OnFinishedType ==
    ASSUME NEW m \in Manager, NEW w \in Workers
    PROVE  OnFinished(m, w) \in Manager
<1> DEFINE fin == [m.finished EXCEPT ![w] = TRUE]
           f == [m EXCEPT !.finished = fin]
<1>1. fin \in [Workers -> BOOLEAN]
  BY DEF Manager
<1> HIDE DEF fin
<1>2. f \in Manager
  BY <1>1 DEF Manager
<1>3. OnFinished(m, w) =
        MaybeSendGroupDone(IF m.coarse[w] /\ m.inflight[w] THEN ReturnGrant(f, w) ELSE f)
  BY DEF OnFinished, fin
<1> HIDE DEF f
<1>4. ReturnGrant(f, w) \in Manager
  BY <1>2, ReturnGrantType
<1> QED BY <1>2, <1>3, <1>4, GroupDoneType

-----------------------------------------------------------------------------
(* The type invariant. *)

LEMMA OutboxType ==
    ASSUME TypeOK, NEW w \in Workers
    PROVE  Outbox(w) \in Seq(ReqMsg)
<1> DEFINE a == IF RequestPosted(w)
                THEN <<Request(mbox[w].reqSeq, mbox[w].reqNode, mbox[w].reqWindow)>> ELSE <<>>
           b == IF DonePosted(w) THEN <<Done(mbox[w].doneSeq)>> ELSE <<>>
           c == IF FinishedPosted(w) THEN <<Finished>> ELSE <<>>
<1>1. mbox[w] \in Mailbox
  BY DEF TypeOK
<1>2. /\ Request(mbox[w].reqSeq, mbox[w].reqNode, mbox[w].reqWindow) \in ReqMsg
      /\ Done(mbox[w].doneSeq) \in ReqMsg
      /\ Finished \in ReqMsg
  BY <1>1 DEF Mailbox, Request, Done, Finished, ReqMsg
<1>3. a \in Seq(ReqMsg) /\ b \in Seq(ReqMsg) /\ c \in Seq(ReqMsg)
  BY <1>2
<1> HIDE DEF a, b, c
<1>4. (a \o b) \o c \in Seq(ReqMsg)
  BY <1>3, ConcatIs
<1> QED BY <1>4 DEF Outbox, a, b, c

LEMMA TypeInit == Init => TypeOK
<1> SUFFICES ASSUME Init PROVE TypeOK
  OBVIOUS
<1>0. 0 \in Nodes /\ Nodes \subseteq Nat
  BY GroupAssumption DEF Nodes
<1>1. mgr \in Manager
  BY DEF Init, Manager
<1>2. reqOut \in [Workers -> Seq(ReqMsg)]
  BY DEF Init
<1>3. seen \in [Workers -> Endpoint]
  BY DEF Init, Endpoint
<1>4. mbox \in [Workers -> Mailbox]
  BY DEF Init, Mailbox
<1>5. sw \in [Workers -> Software]
  BY DEF Init, Software, Phase
<1> QED BY <1>1, <1>2, <1>3, <1>4, <1>5 DEF TypeOK

LEMMA ReceiveType ==
    ASSUME TypeOK, NEW w \in Workers, NEW type, Receive(w, type), mgr' \in Manager
    PROVE  TypeOK' /\ Head(reqOut[w]) \in ReqMsg
<1>1. reqOut[w] \in Seq(ReqMsg) /\ reqOut[w] # <<>>
  BY DEF TypeOK, Receive
<1>2. Head(reqOut[w]) \in ReqMsg /\ Tail(reqOut[w]) \in Seq(ReqMsg)
  BY <1>1, HeadTailIs
<1>3. reqOut' \in [Workers -> Seq(ReqMsg)]
  BY <1>2 DEF TypeOK, Receive
<1> QED BY <1>2, <1>3 DEF TypeOK, Receive

LEMMA HandlersType ==
    ASSUME TypeOK, NEW w \in Workers,
           HandleRequest(w) \/ HandleDone(w) \/ HandleFinished(w)
    PROVE  TypeOK'
<1>0. mgr \in Manager
  BY DEF TypeOK
<1>1. CASE HandleRequest(w)
  <2>1. reqOut[w] \in Seq(ReqMsg) /\ reqOut[w] # <<>>
    BY <1>1 DEF TypeOK, HandleRequest, Receive
  <2>2. Head(reqOut[w]) \in ReqMsg
    BY <2>1, HeadTailIs
  <2>3. mgr' \in Manager
    BY <1>0, <1>1, <2>2, OnRequestType DEF HandleRequest
  <2> QED BY <1>1, <2>3, ReceiveType DEF HandleRequest
<1>2. CASE HandleDone(w)
  <2>1. mgr' \in Manager
    BY <1>0, <1>2, OnDoneType DEF HandleDone
  <2> QED BY <1>2, <2>1, ReceiveType DEF HandleDone
<1>3. CASE HandleFinished(w)
  <2>1. mgr' \in Manager
    BY <1>0, <1>3, OnFinishedType DEF HandleFinished
  <2> QED BY <1>3, <2>1, ReceiveType DEF HandleFinished
<1> QED BY <1>1, <1>2, <1>3

LEMMA TickTypes ==
    ASSUME TypeOK, NEW w \in Workers, Tick(w)
    PROVE  TypeOK'
<1>1. reqOut' \in [Workers -> Seq(ReqMsg)]
  <2>1. reqOut[w] \o Outbox(w) \in Seq(ReqMsg)
    BY OutboxType, ConcatIs DEF TypeOK
  <2> QED BY <2>1 DEF TypeOK, Tick
<1>2. seen[w] \in Endpoint /\ mbox[w] \in Mailbox
  BY DEF TypeOK
<1>3. seen' \in [Workers -> Endpoint]
  <2>1. seen'[w] \in Endpoint
    BY <1>2 DEF TypeOK, Tick, Endpoint, Mailbox, FinishedPosted
  <2>2. \A v \in Workers : v # w => seen'[v] = seen[v]
    BY DEF TypeOK, Tick
  <2> QED BY <2>1, <2>2 DEF TypeOK, Tick
<1>4. mbox' \in [Workers -> Mailbox]
  BY <1>2 DEF TypeOK, Tick, Mailbox
<1> QED BY <1>1, <1>3, <1>4 DEF TypeOK, Tick

LEMMA HandleRspType ==
    ASSUME TypeOK, NEW w \in Workers, HandleRsp(w)
    PROVE  TypeOK'
<1> DEFINE out == [mgr.rspOut EXCEPT ![w] = Tail(mgr.rspOut[w])]
<1>1. mgr.rspOut[w] \in Seq(RspMsg) /\ mgr.rspOut[w] # <<>>
  BY DEF TypeOK, Manager, HandleRsp
<1>2. Head(mgr.rspOut[w]) \in RspMsg /\ Tail(mgr.rspOut[w]) \in Seq(RspMsg)
  BY <1>1, HeadTailIs
<1>3. out \in [Workers -> Seq(RspMsg)]
  BY <1>2 DEF TypeOK, Manager
<1>4. Head(mgr.rspOut[w]).seq \in Nat
  BY <1>2 DEF RspMsg
<1>5. mbox' \in [Workers -> Mailbox]
  <2>1. mbox \in [Workers -> Mailbox]
    BY DEF TypeOK
  <2>2. CASE Head(mgr.rspOut[w]).type = "GRANT"
    <3>1. mbox' = [mbox EXCEPT ![w].grantSeq = Head(mgr.rspOut[w]).seq]
      BY <2>2 DEF HandleRsp
    <3> QED BY <1>4, <2>1, <3>1 DEF Mailbox
  <2>3. CASE Head(mgr.rspOut[w]).type # "GRANT"
    <3>1. mbox' = [mbox EXCEPT ![w].groupDone = TRUE]
      BY <2>3 DEF HandleRsp
    <3> QED BY <2>1, <3>1 DEF Mailbox
  <2> QED BY <2>2, <2>3
<1> HIDE DEF out
<1>6. [mgr EXCEPT !.rspOut = out] \in Manager
  BY <1>3 DEF TypeOK, Manager
<1>7. mgr' \in Manager
  BY <1>6 DEF HandleRsp, out
<1> QED BY <1>5, <1>7 DEF TypeOK, HandleRsp

\* What the software of a worker writes into its mailbox.
LEMMA MailboxWrites ==
    ASSUME NEW m \in Mailbox, NEW n \in Nat
    PROVE  /\ [m EXCEPT !.reqSeq = n] \in Mailbox /\ [m EXCEPT !.doneSeq = n] \in Mailbox
           /\ [m EXCEPT !.reqValid = TRUE] \in Mailbox /\ [m EXCEPT !.doneValid = TRUE] \in Mailbox
           /\ [m EXCEPT !.finished = TRUE] \in Mailbox
<1>1. [m EXCEPT !.reqSeq = n] \in Mailbox
  BY DEF Mailbox
<1>2. [m EXCEPT !.doneSeq = n] \in Mailbox
  BY DEF Mailbox
<1>3. [m EXCEPT !.reqValid = TRUE] \in Mailbox
  BY DEF Mailbox
<1>4. [m EXCEPT !.doneValid = TRUE] \in Mailbox
  BY DEF Mailbox
<1>5. [m EXCEPT !.finished = TRUE] \in Mailbox
  BY DEF Mailbox
<1> QED BY <1>1, <1>2, <1>3, <1>4, <1>5

LEMMA SoftwareStepType ==
    ASSUME TypeOK, NEW w \in Workers, SoftwareStep(w)
    PROVE  TypeOK'
<1>0. Nodes \subseteq Nat /\ Windows \subseteq Nat
  BY GroupAssumption DEF Nodes
<1>m. mbox \in [Workers -> Mailbox] /\ sw \in [Workers -> Software]
  BY DEF TypeOK
<1>1. sw' \in [Workers -> Software]
  <2>1. CASE WriteRequestFields(w)
    BY <1>0, <1>m, <2>1 DEF WriteRequestFields, Software, Phase
  <2>2. CASE WriteRequestSeq(w)
    BY <1>m, <2>2 DEF WriteRequestSeq, Goto, Software, Phase
  <2>3. CASE WriteRequestValid(w)
    BY <1>m, <2>3 DEF WriteRequestValid, Goto, Software, Phase
  <2>4. CASE SeeGrant(w)
    BY <1>m, <2>4 DEF SeeGrant, Goto, Software, Phase
  <2>5. CASE WriteDoneSeq(w)
    BY <1>m, <2>5 DEF WriteDoneSeq, Goto, Software, Phase
  <2>6. CASE WriteDoneValid(w)
    BY <1>m, <2>6 DEF WriteDoneValid, Software, Phase
  <2>7. CASE WriteFinished(w)
    BY <1>m, <2>7 DEF WriteFinished, Goto, Software, Phase
  <2>8. CASE SeeGroupDone(w)
    BY <1>m, <2>8 DEF SeeGroupDone, Goto, Software, Phase
  <2> QED BY <2>1, <2>2, <2>3, <2>4, <2>5, <2>6, <2>7, <2>8 DEF SoftwareStep
<1>2. mbox' \in [Workers -> Mailbox]
  <2>1. CASE WriteRequestFields(w)
    <3>1. PICK n \in Nodes, win \in Windows :
            mbox' = [mbox EXCEPT ![w] = [mbox[w] EXCEPT !.reqNode = n, !.reqWindow = win]]
      BY <2>1 DEF WriteRequestFields
    <3>2. n \in Nat /\ win \in Nat
      BY <1>0
    <3>3. [mbox[w] EXCEPT !.reqNode = n, !.reqWindow = win] \in Mailbox
      BY <1>m, <3>2 DEF Mailbox
    <3> QED BY <1>m, <3>1, <3>3
  <2>2. CASE WriteRequestSeq(w)
    <3>1. sw[w].reqSeq \in Nat
      BY <1>m DEF Software
    <3>2. mbox' = [mbox EXCEPT ![w] = [mbox[w] EXCEPT !.reqSeq = sw[w].reqSeq]]
      BY <2>2 DEF WriteRequestSeq
    <3>3. [mbox[w] EXCEPT !.reqSeq = sw[w].reqSeq] \in Mailbox
      BY <1>m, <3>1, MailboxWrites
    <3> QED BY <1>m, <3>2, <3>3
  <2>3. CASE WriteRequestValid(w)
    <3>1. mbox' = [mbox EXCEPT ![w] = [mbox[w] EXCEPT !.reqValid = TRUE]]
      BY <2>3 DEF WriteRequestValid
    <3>2. [mbox[w] EXCEPT !.reqValid = TRUE] \in Mailbox
      BY <1>m, 0 \in Nat, MailboxWrites
    <3> QED BY <1>m, <3>1, <3>2
  <2>4. CASE SeeGrant(w)
    BY <1>m, <2>4 DEF SeeGrant
  <2>5. CASE WriteDoneSeq(w)
    <3>1. sw[w].reqSeq \in Nat
      BY <1>m DEF Software
    <3>2. mbox' = [mbox EXCEPT ![w] = [mbox[w] EXCEPT !.doneSeq = sw[w].reqSeq]]
      BY <2>5 DEF WriteDoneSeq
    <3>3. [mbox[w] EXCEPT !.doneSeq = sw[w].reqSeq] \in Mailbox
      BY <1>m, <3>1, MailboxWrites
    <3> QED BY <1>m, <3>2, <3>3
  <2>6. CASE WriteDoneValid(w)
    <3>1. mbox' = [mbox EXCEPT ![w] = [mbox[w] EXCEPT !.doneValid = TRUE]]
      BY <2>6 DEF WriteDoneValid
    <3>2. [mbox[w] EXCEPT !.doneValid = TRUE] \in Mailbox
      BY <1>m, 0 \in Nat, MailboxWrites
    <3> QED BY <1>m, <3>1, <3>2
  <2>7. CASE WriteFinished(w)
    <3>1. mbox' = [mbox EXCEPT ![w] = [mbox[w] EXCEPT !.finished = TRUE]]
      BY <2>7 DEF WriteFinished
    <3>2. [mbox[w] EXCEPT !.finished = TRUE] \in Mailbox
      BY <1>m, 0 \in Nat, MailboxWrites
    <3> QED BY <1>m, <3>1, <3>2
  <2>8. CASE SeeGroupDone(w)
    BY <1>m, <2>8 DEF SeeGroupDone
  <2> QED BY <2>1, <2>2, <2>3, <2>4, <2>5, <2>6, <2>7, <2>8 DEF SoftwareStep
<1>3. UNCHANGED <<mgr, reqOut, seen>>
  BY DEF SoftwareStep, WriteRequestFields, WriteRequestSeq, WriteRequestValid,
         SeeGrant, WriteDoneSeq, WriteDoneValid, WriteFinished, SeeGroupDone
<1> QED BY <1>1, <1>2, <1>3 DEF TypeOK

LEMMA TypeNext == TypeOK /\ [Next]_vars => TypeOK'
<1> SUFFICES ASSUME TypeOK, [Next]_vars PROVE TypeOK'
  OBVIOUS
<1>1. CASE Next
  <2>1. ASSUME NEW w \in Workers,
               HandleRequest(w) \/ HandleDone(w) \/ HandleFinished(w)
        PROVE  TypeOK'
    BY <2>1, HandlersType
  <2>2. ASSUME NEW w \in Workers, Tick(w) PROVE TypeOK'
    BY <2>2, TickTypes
  <2>3. ASSUME NEW w \in Workers, HandleRsp(w) PROVE TypeOK'
    BY <2>3, HandleRspType
  <2>4. ASSUME NEW w \in Workers, SoftwareStep(w) PROVE TypeOK'
    BY <2>4, SoftwareStepType
  <2>5. CASE Idle
    BY <2>5 DEF Idle, vars, TypeOK
  <2> QED BY <1>1, <2>1, <2>2, <2>3, <2>4, <2>5 DEF Next
<1>2. CASE UNCHANGED vars
  BY <1>2 DEF vars, TypeOK
<1> QED BY <1>1, <1>2

\* Every handler keeps every field of the endpoints, the links, the mailboxes
\* and the software within its type.
THEOREM TypeCorrect == Spec => []TypeOK
BY TypeInit, TypeNext, PTL DEF Spec

-----------------------------------------------------------------------------
(* The scheduler: one grant, one pass and the whole loop change what a worker *)
(* sees of the manager in two ways only, not at all or by a grant.            *)

LEMMA IssueGrantFields ==
    ASSUME NEW m \in Manager, NEW i \in Candidates(m)
    PROVE  LET t   == IssueGrant(m, i)
               req == m.pendingQ[i]
           IN  /\ t.pendingQ = Erase(m.pendingQ, i)
               /\ t.inflight = [m.inflight EXCEPT ![req.slot] = TRUE]
               /\ t.inflightNode = [m.inflightNode EXCEPT ![req.slot] = req.node]
               /\ t.inflightPerNode =
                    [m.inflightPerNode EXCEPT ![req.node] = m.inflightPerNode[req.node] + 1]
               /\ t.finished = m.finished
               /\ t.rspOut = SendRsp(m.rspOut, req.slot,
                                Grant(req.seq, IF req.window = 0 THEN 1 ELSE req.window))
<1> DEFINE req == m.pendingQ[i]
           q == Erase(m.pendingQ, i)
           out == SendRsp(m.rspOut, req.slot,
                          Grant(req.seq, IF req.window = 0 THEN 1 ELSE req.window))
           cur == IF q = <<>> THEN 0 ELSE (i - 1) % Len(q)
           coarse == [m.coarse EXCEPT ![req.slot] = req.window > 1]
           inflight == [m.inflight EXCEPT ![req.slot] = TRUE]
           node == [m.inflightNode EXCEPT ![req.slot] = req.node]
           load == [m.inflightPerNode EXCEPT ![req.node] = m.inflightPerNode[req.node] + 1]
           t == [m EXCEPT !.rspOut = out, !.coarse = coarse, !.inflight = inflight,
                          !.inflightNode = node, !.inflightPerNode = load,
                          !.pendingQ = q, !.cursor = cur]
<1>1. IssueGrant(m, i) = t
  BY DEF IssueGrant
<1> HIDE DEF req, q, out, cur, coarse, inflight, node, load
<1>2. /\ t.pendingQ = q /\ t.inflight = inflight /\ t.inflightNode = node
      /\ t.inflightPerNode = load /\ t.finished = m.finished /\ t.rspOut = out
  BY DEF Manager
<1> HIDE DEF t
<1> QED BY <1>1, <1>2 DEF req, q, out, inflight, node, load

LEMMA IssueGrantQueue ==
    ASSUME NEW m \in Manager, NEW i \in Candidates(m), ManagerInv(m)
    PROVE  LET t == IssueGrant(m, i) IN
           /\ ~Queued(t, m.pendingQ[i].slot)
           /\ \A w \in Workers : w # m.pendingQ[i].slot => (Queued(t, w) <=> Queued(m, w))
           /\ \A j \in 1 .. Len(t.pendingQ) : \E k \in 1 .. Len(m.pendingQ) :
                t.pendingQ[j] = m.pendingQ[k]
           /\ \A j, k \in 1 .. Len(t.pendingQ) :
                t.pendingQ[j].slot = t.pendingQ[k].slot => j = k
<1> DEFINE t == IssueGrant(m, i)
           q == m.pendingQ
           p == Erase(q, i)
<1>1. q \in Seq(PendingReq) /\ i \in 1 .. Len(q) /\ Len(q) \in Nat
  BY DEF Manager, Candidates
<1>2. Len(p) = Len(q) - 1 /\ \A j \in 1 .. Len(q) - 1 : p[j] = IF j < i THEN q[j] ELSE q[j + 1]
  BY <1>1, EraseType
<1>3. t.pendingQ = p
  BY IssueGrantFields
<1>4. \A j, k \in 1 .. Len(q) : q[j].slot = q[k].slot => j = k
  BY DEF ManagerInv
<1> HIDE DEF t, p, q
<1>5. \A j \in 1 .. Len(p) : \E k \in 1 .. Len(q) : k # i /\ p[j] = q[k]
  <2> TAKE j \in 1 .. Len(p)
  <2>1. CASE j < i
    BY <1>1, <1>2, <2>1
  <2>2. CASE ~(j < i)
    <3>1. j + 1 \in 1 .. Len(q) /\ j + 1 # i /\ p[j] = q[j + 1]
      BY <1>1, <1>2, <2>2
    <3> QED BY <3>1
  <2> QED BY <2>1, <2>2
<1>6. \A k \in 1 .. Len(q) : k # i => \E j \in 1 .. Len(p) : p[j] = q[k]
  <2> SUFFICES ASSUME NEW k \in 1 .. Len(q), k # i PROVE \E j \in 1 .. Len(p) : p[j] = q[k]
    OBVIOUS
  <2>1. CASE k < i
    BY <1>1, <1>2, <2>1
  <2>2. CASE ~(k < i)
    <3>1. k - 1 \in 1 .. Len(p) /\ ~(k - 1 < i) /\ p[k - 1] = q[(k - 1) + 1] /\ (k - 1) + 1 = k
      BY <1>1, <1>2, <2>2
    <3> QED BY <3>1
  <2> QED BY <2>1, <2>2
<1>7. ~Queued(t, q[i].slot)
  BY <1>1, <1>3, <1>4, <1>5 DEF Queued
<1>8. ASSUME NEW w \in Workers, w # q[i].slot PROVE Queued(t, w) <=> Queued(m, w)
  <2>1. /\ Queued(t, w) <=> \E j \in 1 .. Len(p) : p[j].slot = w
        /\ Queued(m, w) <=> \E k \in 1 .. Len(q) : q[k].slot = w
    BY <1>3 DEF Queued, q
  <2>2. ASSUME NEW j \in 1 .. Len(p), p[j].slot = w PROVE \E k \in 1 .. Len(q) : q[k].slot = w
    <3>1. PICK k \in 1 .. Len(q) : k # i /\ p[j] = q[k]
      BY <1>5
    <3> QED BY <2>2, <3>1
  <2>3. ASSUME NEW k \in 1 .. Len(q), q[k].slot = w PROVE \E j \in 1 .. Len(p) : p[j].slot = w
    <3>1. k # i
      BY <1>8, <2>3
    <3>2. PICK j \in 1 .. Len(p) : p[j] = q[k]
      BY <1>6, <3>1
    <3> QED BY <2>3, <3>2
  <2> QED BY <2>1, <2>2, <2>3
<1>9. \A j, k \in 1 .. Len(p) : p[j].slot = p[k].slot => j = k
  <2> SUFFICES ASSUME NEW j \in 1 .. Len(p), NEW k \in 1 .. Len(p), p[j].slot = p[k].slot
               PROVE  j = k
    OBVIOUS
  <2>1. CASE j < i /\ k < i
    BY <1>1, <1>2, <1>4, <2>1
  <2>2. CASE j < i /\ ~(k < i)
    <3>1. p[j] = q[j] /\ p[k] = q[k + 1] /\ j \in 1 .. Len(q) /\ k + 1 \in 1 .. Len(q) /\ j # k + 1
      BY <1>1, <1>2, <2>2
    <3> QED BY <1>4, <3>1
  <2>3. CASE ~(j < i) /\ k < i
    <3>1. p[k] = q[k] /\ p[j] = q[j + 1] /\ k \in 1 .. Len(q) /\ j + 1 \in 1 .. Len(q) /\ k # j + 1
      BY <1>1, <1>2, <2>3
    <3> QED BY <1>4, <3>1
  <2>4. CASE ~(j < i) /\ ~(k < i)
    <3>1. p[k] = q[k + 1] /\ p[j] = q[j + 1] /\ k + 1 \in 1 .. Len(q) /\ j + 1 \in 1 .. Len(q)
      BY <1>1, <1>2, <2>4
    <3>2. k + 1 = j + 1
      BY <1>4, <3>1
    <3> QED BY <3>2
  <2> QED BY <2>1, <2>2, <2>3, <2>4
<1>10. \A j \in 1 .. Len(t.pendingQ) : \E k \in 1 .. Len(q) : t.pendingQ[j] = q[k]
  BY <1>3, <1>5
<1>11. \A j, k \in 1 .. Len(t.pendingQ) : t.pendingQ[j].slot = t.pendingQ[k].slot => j = k
  BY <1>3, <1>9
<1> QED BY <1>7, <1>8, <1>10, <1>11 DEF t, q

\* One grant keeps the manager's accounting exact and within the cap.
LEMMA IssueGrantInv ==
    ASSUME NEW m \in Manager, NEW i \in Candidates(m), ManagerInv(m)
    PROVE  ManagerInv(IssueGrant(m, i))
<1> DEFINE t == IssueGrant(m, i)
           s == m.pendingQ[i].slot
           n == m.pendingQ[i].node
<1>1. m.pendingQ \in Seq(PendingReq) /\ i \in 1 .. Len(m.pendingQ)
  BY DEF Manager, Candidates
<1>2. m.pendingQ[i] \in PendingReq
  BY <1>1, ElementInSet
<1>3. /\ s \in Workers /\ n \in Nodes
      /\ ~m.inflight[s] /\ m.inflightPerNode[n] < MaxInflightPerNode
  BY <1>1, <1>2 DEF PendingReq, ManagerInv, Candidates, Schedulable
<1>4. /\ t.inflight = [m.inflight EXCEPT ![s] = TRUE]
      /\ t.inflightNode = [m.inflightNode EXCEPT ![s] = n]
      /\ t.inflightPerNode = [m.inflightPerNode EXCEPT ![n] = m.inflightPerNode[n] + 1]
  BY IssueGrantFields
<1>5. /\ \A j \in 1 .. Len(t.pendingQ) : \E k \in 1 .. Len(m.pendingQ) :
           t.pendingQ[j] = m.pendingQ[k]
      /\ \A j, k \in 1 .. Len(t.pendingQ) :
           t.pendingQ[j].slot = t.pendingQ[k].slot => j = k
  BY IssueGrantQueue
<1>6. /\ m.inflight \in [Workers -> BOOLEAN] /\ m.inflightNode \in [Workers -> Nat]
      /\ m.inflightPerNode \in [Nodes -> Nat]
  BY DEF Manager
<1> HIDE DEF t, s, n
<1>7. ASSUME NEW w \in Workers, t.inflight[w] PROVE t.inflightNode[w] \in Nodes
  <2>1. CASE w = s
    BY <1>3, <1>4, <1>6, <2>1
  <2>2. CASE w # s
    BY <1>4, <1>6, <1>7, <2>2 DEF ManagerInv
  <2> QED BY <2>1, <2>2
<1>8. ASSUME NEW k \in Nodes
      PROVE  /\ t.inflightPerNode[k] = Cardinality(InflightOn(t, k))
             /\ t.inflightPerNode[k] <= MaxInflightPerNode
  <2>0. /\ m.inflightPerNode[k] = Cardinality(InflightOn(m, k))
        /\ m.inflightPerNode[k] <= MaxInflightPerNode
        /\ m.inflightPerNode[k] \in Nat
    BY <1>6 DEF ManagerInv
  <2>1. CASE k = n
    <3>1. InflightOn(t, k) = InflightOn(m, k) \cup {s}
      BY <1>3, <1>4, <1>6, <2>1 DEF InflightOn
    <3>2. s \notin InflightOn(m, k)
      BY <1>3 DEF InflightOn
    <3>3. IsFiniteSet(InflightOn(m, k))
      BY GroupAssumption, FS_Subset DEF InflightOn
    <3>4. Cardinality(InflightOn(t, k)) = Cardinality(InflightOn(m, k)) + 1
      BY <3>1, <3>2, <3>3, FS_AddElement
    <3>5. t.inflightPerNode[k] = m.inflightPerNode[k] + 1
      BY <1>3, <1>4, <1>6, <2>1
    <3> QED BY <1>3, <2>0, <2>1, <3>4, <3>5, GroupAssumption
  <2>2. CASE k # n
    <3>1. InflightOn(t, k) = InflightOn(m, k)
      BY <1>3, <1>4, <1>6, <2>2 DEF InflightOn
    <3>2. t.inflightPerNode[k] = m.inflightPerNode[k]
      BY <1>3, <1>4, <1>6, <2>2
    <3> QED BY <2>0, <3>1, <3>2
  <2> QED BY <2>1, <2>2
<1>9. \A j \in 1 .. Len(t.pendingQ) : t.pendingQ[j].node \in Nodes
  BY <1>5 DEF ManagerInv
<1>10. ManagerInv(t)
  BY <1>5, <1>7, <1>8, <1>9 DEF ManagerInv
<1> QED BY <1>10 DEF t

LEMMA IssueGrantAdvanced ==
    ASSUME NEW m \in Manager, NEW i \in Candidates(m), ManagerInv(m)
    PROVE  Advanced(m, IssueGrant(m, i))
<1> DEFINE t == IssueGrant(m, i)
           req == m.pendingQ[i]
           grant == Grant(req.seq, IF req.window = 0 THEN 1 ELSE req.window)
           sent == IF grant.type = "GRANT" /\ grant.seq = 0
                   THEN [grant EXCEPT !.window = 0] ELSE grant
<1>1. m.pendingQ \in Seq(PendingReq) /\ i \in 1 .. Len(m.pendingQ)
  BY DEF Manager, Candidates
<1>2. req \in PendingReq
  BY <1>1, ElementInSet
<1>3. /\ req.slot \in Workers /\ req.node \in Nat /\ req.seq \in Nat /\ req.window \in Nat
      /\ ~m.inflight[req.slot]
  BY <1>1, <1>2 DEF PendingReq, Candidates, Schedulable
<1>4. /\ t.inflight = [m.inflight EXCEPT ![req.slot] = TRUE]
      /\ t.inflightNode = [m.inflightNode EXCEPT ![req.slot] = req.node]
      /\ t.rspOut = SendRsp(m.rspOut, req.slot, grant)
      /\ t.finished = m.finished
  BY IssueGrantFields
<1>5. sent \in RspMsg /\ sent.type = "GRANT" /\ sent.seq = req.seq
  BY <1>3 DEF Grant, RspMsg
<1>6. t.rspOut = [m.rspOut EXCEPT ![req.slot] = Append(m.rspOut[req.slot], sent)]
  BY <1>4 DEF SendRsp
<1>7. /\ m.inflight \in [Workers -> BOOLEAN] /\ m.inflightNode \in [Workers -> Nat]
      /\ m.rspOut \in [Workers -> Seq(RspMsg)]
  BY DEF Manager
<1>8. /\ ~Queued(t, req.slot)
      /\ \A w \in Workers : w # req.slot => (Queued(t, w) <=> Queued(m, w))
      /\ \A j \in 1 .. Len(t.pendingQ) : \E k \in 1 .. Len(m.pendingQ) :
           t.pendingQ[j] = m.pendingQ[k]
  BY IssueGrantQueue
<1> HIDE DEF t, sent, grant
<1>9. GrantedTo(m, t, req.slot)
  BY <1>1, <1>3, <1>4, <1>5, <1>6, <1>7, <1>8 DEF GrantedTo
<1>10. ASSUME NEW w \in Workers, w # req.slot PROVE Untouched(m, t, w)
  BY <1>3, <1>4, <1>6, <1>7, <1>8, <1>10 DEF Untouched
<1>11. Advanced(m, t)
  BY <1>4, <1>8, <1>9, <1>10 DEF Advanced
<1> QED BY <1>11 DEF t

LEMMA AdvancedRefl ==
    ASSUME NEW m \in Manager PROVE Advanced(m, m)
BY DEF Advanced, Untouched

LEMMA AdvancedTrans ==
    ASSUME NEW m \in Manager, NEW t \in Manager, NEW u \in Manager,
           Advanced(m, t), Advanced(t, u)
    PROVE  Advanced(m, u)
<1>1. u.finished = m.finished
  BY DEF Advanced
<1>2. ASSUME NEW j \in 1 .. Len(u.pendingQ)
      PROVE  \E i \in 1 .. Len(m.pendingQ) : u.pendingQ[j] = m.pendingQ[i]
  <2>1. PICK k \in 1 .. Len(t.pendingQ) : u.pendingQ[j] = t.pendingQ[k]
    BY <1>2 DEF Advanced
  <2>2. PICK i \in 1 .. Len(m.pendingQ) : t.pendingQ[k] = m.pendingQ[i]
    BY DEF Advanced
  <2> QED BY <2>1, <2>2
<1>3. ASSUME NEW w \in Workers
      PROVE  Untouched(m, u, w) \/ GrantedTo(m, u, w)
  <2>1. Untouched(m, t, w) \/ GrantedTo(m, t, w)
    BY DEF Advanced
  <2>2. Untouched(t, u, w) \/ GrantedTo(t, u, w)
    BY DEF Advanced
  <2>3. CASE Untouched(m, t, w) /\ Untouched(t, u, w)
    BY <2>3 DEF Untouched
  <2>4. CASE GrantedTo(m, t, w) /\ Untouched(t, u, w)
    BY <2>4 DEF Untouched, GrantedTo
  <2>5. CASE Untouched(m, t, w) /\ GrantedTo(t, u, w)
    <3>1. ~m.inflight[w] /\ u.inflight[w] /\ ~Queued(u, w) /\ t.rspOut[w] = m.rspOut[w]
      BY <2>5 DEF Untouched, GrantedTo
    <3>2. PICK k \in 1 .. Len(t.pendingQ) :
            /\ t.pendingQ[k].slot = w
            /\ u.inflightNode[w] = t.pendingQ[k].node
            /\ \E msg \in RspMsg : /\ msg.type = "GRANT" /\ msg.seq = t.pendingQ[k].seq
                                   /\ u.rspOut[w] = Append(t.rspOut[w], msg)
      BY <2>5 DEF GrantedTo
    <3>3. PICK i \in 1 .. Len(m.pendingQ) : t.pendingQ[k] = m.pendingQ[i]
      BY DEF Advanced
    <3>4. /\ m.pendingQ[i].slot = w /\ u.inflightNode[w] = m.pendingQ[i].node
          /\ \E msg \in RspMsg : /\ msg.type = "GRANT" /\ msg.seq = m.pendingQ[i].seq
                                 /\ u.rspOut[w] = Append(m.rspOut[w], msg)
      BY <3>1, <3>2, <3>3
    <3> QED BY <3>1, <3>4 DEF GrantedTo
  <2>6. CASE GrantedTo(m, t, w) /\ GrantedTo(t, u, w)
    BY <2>6 DEF GrantedTo
  <2> QED BY <2>1, <2>2, <2>3, <2>4, <2>5, <2>6
<1> QED BY <1>1, <1>2, <1>3 DEF Advanced

LEMMA RewoundEffect ==
    ASSUME NEW m \in Manager, m.pendingQ # <<>>, ManagerInv(m)
    PROVE  Advanced(m, Rewound(m)) /\ ManagerInv(Rewound(m))
<1> DEFINE r == Rewound(m)
<1>1. /\ r.pendingQ = m.pendingQ /\ r.inflight = m.inflight
      /\ r.inflightNode = m.inflightNode /\ r.inflightPerNode = m.inflightPerNode
      /\ r.finished = m.finished /\ r.rspOut = m.rspOut
  BY RewoundType
<1> HIDE DEF r
<1>2. Advanced(m, r)
  BY <1>1 DEF Advanced, Untouched, Queued
<1>3. ManagerInv(r)
  BY <1>1 DEF ManagerInv, InflightOn
<1> QED BY <1>2, <1>3 DEF r

LEMMA SchedulePassEffect ==
    ASSUME NEW m \in Manager, NEW k, ManagerInv(m)
    PROVE  /\ Advanced(m, SchedulePass(m, k))
           /\ ManagerInv(SchedulePass(m, k))
<1>1. CASE SchedulePass(m, k) = m
  BY <1>1, AdvancedRefl
<1>2. CASE m.pendingQ # <<>> /\ SchedulePass(m, k) = Rewound(m)
  BY <1>2, RewoundEffect
<1>3. CASE /\ m.pendingQ # <<>>
           /\ \E i \in Candidates(Rewound(m)) : SchedulePass(m, k) = IssueGrant(Rewound(m), i)
  <2>1. PICK i \in Candidates(Rewound(m)) : SchedulePass(m, k) = IssueGrant(Rewound(m), i)
    BY <1>3
  <2>2. Rewound(m) \in Manager /\ Advanced(m, Rewound(m)) /\ ManagerInv(Rewound(m))
    BY <1>3, RewoundEffect, RewoundType
  <2>3. /\ IssueGrant(Rewound(m), i) \in Manager
        /\ Advanced(Rewound(m), IssueGrant(Rewound(m), i))
        /\ ManagerInv(IssueGrant(Rewound(m), i))
    BY <2>2, IssueGrantType, IssueGrantAdvanced, IssueGrantInv
  <2> QED BY <2>1, <2>2, <2>3, AdvancedTrans
<1> QED BY <1>1, <1>2, <1>3, SchedulePassCases

LEMMA AdvancedHolder ==
    ASSUME NEW m \in Manager, NEW t \in Manager, Advanced(m, t), QueueHasHolder(m)
    PROVE  QueueHasHolder(t)
<1> SUFFICES ASSUME t.pendingQ # <<>> PROVE \E w \in Workers : t.inflight[w]
  BY DEF QueueHasHolder
<1>1. 1 \in 1 .. Len(t.pendingQ)
  BY EmptyIs DEF Manager
<1>2. m.pendingQ # <<>>
  BY <1>1, EmptyIs DEF Advanced
<1>3. PICK w \in Workers : m.inflight[w]
  BY <1>2 DEF QueueHasHolder
<1>4. t.inflight[w]
  BY <1>3 DEF Advanced, Untouched, GrantedTo
<1> QED BY <1>4

\* With nobody inflight every counter is 0, so the first pass grants.
LEMMA FirstPassHolder ==
    ASSUME NEW m \in Manager, ManagerInv(m)
    PROVE  QueueHasHolder(SchedulePass(m, 1))
<1> DEFINE t == SchedulePass(m, 1)
           r == Rewound(m)
<1>0. t \in Manager /\ Advanced(m, t)
  BY SchedulePassType, SchedulePassEffect
<1>1. CASE QueueHasHolder(m)
  BY <1>0, <1>1, AdvancedHolder
<1>2. CASE ~QueueHasHolder(m)
  <2>1. m.pendingQ # <<>> /\ \A w \in Workers : ~m.inflight[w]
    BY <1>2 DEF QueueHasHolder
  <2>2. /\ r \in Manager /\ r.cursor < Len(r.pendingQ) /\ r.pendingQ = m.pendingQ
        /\ r.inflight = m.inflight /\ r.inflightPerNode = m.inflightPerNode
    BY <2>1, RewoundType
  <2>3. m.pendingQ \in Seq(PendingReq) /\ 1 \in 1 .. Len(m.pendingQ)
    BY <2>1, EmptyIs DEF Manager
  <2>4. m.pendingQ[1] \in PendingReq
    BY <2>3, ElementInSet
  <2>5. m.pendingQ[1].slot \in Workers /\ m.pendingQ[1].node \in Nodes
    BY <2>3, <2>4 DEF PendingReq, ManagerInv
  <2>6. InflightOn(m, m.pendingQ[1].node) = {}
    BY <2>1 DEF InflightOn
  <2>7. m.inflightPerNode[m.pendingQ[1].node] = 0
    BY <2>5, <2>6, FS_EmptySet DEF ManagerInv
  <2> HIDE DEF r
  <2>8. Schedulable(r, 1)
    BY <2>1, <2>2, <2>5, <2>7, GroupAssumption DEF Schedulable, Nodes
  <2>9. 1 \in Candidates(r)
    BY <2>2, <2>3, <2>8 DEF Candidates
  <2>10. t = IssueGrant(r, Pick(r))
    <3>1. ~(1 > MaxGrantsPerSchedule)
      BY GroupAssumption
    <3>2. t = IF 1 > MaxGrantsPerSchedule \/ m.pendingQ = <<>> THEN m
              ELSE IF Candidates(r) = {} THEN r ELSE IssueGrant(r, Pick(r))
      BY DEF SchedulePass, r, Rewound
    <3> QED BY <2>1, <2>9, <3>1, <3>2
  <2> DEFINE i == Pick(r)
  <2>11. i \in Candidates(r)
    BY <2>2, <2>9, PickType
  <2> HIDE DEF i
  <2>12. r.pendingQ[i].slot \in Workers
    <3>1. i \in 1 .. Len(m.pendingQ)
      BY <2>2, <2>11 DEF Candidates
    <3>2. m.pendingQ[i] \in PendingReq
      BY <2>3, <3>1, ElementInSet
    <3> QED BY <2>2, <3>2 DEF PendingReq
  <2>13. IssueGrant(r, i).inflight = [r.inflight EXCEPT ![r.pendingQ[i].slot] = TRUE]
    BY <2>2, <2>11, IssueGrantFields
  <2>14. r.inflight \in [Workers -> BOOLEAN]
    BY <2>2 DEF Manager
  <2>15. t.inflight[r.pendingQ[i].slot]
    BY <2>10, <2>12, <2>13, <2>14 DEF i
  <2> QED BY <2>12, <2>15 DEF QueueHasHolder
<1> QED BY <1>1, <1>2

\* trySchedule grants some queued requests, keeps the accounting, and leaves
\* requests behind only if somebody is inflight.
LEMMA TryScheduleEffect ==
    ASSUME NEW m \in Manager, ManagerInv(m)
    PROVE  /\ Advanced(m, TrySchedule(m))
           /\ ManagerInv(TrySchedule(m))
           /\ QueueHasHolder(TrySchedule(m))
<1> DEFINE a == SchedulePass(m, 1)
           b == SchedulePass(a, 2)
           c == SchedulePass(b, 3)
           d == SchedulePass(c, 4)
<1>1. a \in Manager /\ Advanced(m, a) /\ ManagerInv(a) /\ QueueHasHolder(a)
  BY SchedulePassType, SchedulePassEffect, FirstPassHolder
<1>d. TrySchedule(m) = d
  BY DEF TrySchedule
<1> HIDE DEF a
<1>2. b \in Manager /\ Advanced(a, b) /\ ManagerInv(b)
  BY <1>1, SchedulePassType, SchedulePassEffect
<1> HIDE DEF b
<1>3. c \in Manager /\ Advanced(b, c) /\ ManagerInv(c)
  BY <1>2, SchedulePassType, SchedulePassEffect
<1> HIDE DEF c
<1>4. d \in Manager /\ Advanced(c, d) /\ ManagerInv(d)
  BY <1>3, SchedulePassType, SchedulePassEffect
<1> HIDE DEF d
<1>5. Advanced(a, d)
  BY <1>1, <1>2, <1>3, <1>4, AdvancedTrans
<1>6. Advanced(m, d)
  BY <1>1, <1>4, <1>5, AdvancedTrans
<1>7. QueueHasHolder(d)
  BY <1>1, <1>4, <1>5, AdvancedHolder
<1> QED BY <1>4, <1>6, <1>7, <1>d

LEMMA ReturnGrantEffect ==
    ASSUME NEW m \in Manager, NEW w \in Workers, m.inflight[w], ManagerInv(m)
    PROVE  LET t == ReturnGrant(m, w) IN
           /\ ManagerInv(t)
           /\ ~t.inflight[w]
           /\ \A v \in Workers : v # w => Untouched(m, t, v)
           /\ t.pendingQ = m.pendingQ /\ t.finished = m.finished /\ t.rspOut = m.rspOut
<1> DEFINE inflight == [m.inflight EXCEPT ![w] = FALSE]
           load == ReleaseNode(m.inflightPerNode, m.inflightNode[w])
           node == [m.inflightNode EXCEPT ![w] = 0]
           t == [m EXCEPT !.inflight = inflight, !.inflightPerNode = load, !.inflightNode = node]
           n == m.inflightNode[w]
<1>0. ReturnGrant(m, w) = t
  BY DEF ReturnGrant
<1>1. /\ m.inflight \in [Workers -> BOOLEAN] /\ m.inflightNode \in [Workers -> Nat]
      /\ m.inflightPerNode \in [Nodes -> Nat]
  BY DEF Manager
<1>2. n \in Nodes /\ n < NumNodes /\ n \in Nat
  BY <1>1, GroupAssumption DEF ManagerInv, Nodes
<1>3. /\ inflight \in [Workers -> BOOLEAN] /\ ~inflight[w]
      /\ \A v \in Workers : v # w => inflight[v] = m.inflight[v] /\ node[v] = m.inflightNode[v]
  BY <1>1
<1>4. IsFiniteSet(InflightOn(m, n)) /\ w \in InflightOn(m, n)
  BY GroupAssumption, FS_Subset DEF InflightOn
<1>5. /\ Cardinality(InflightOn(m, n) \ {w}) = Cardinality(InflightOn(m, n)) - 1
      /\ Cardinality(InflightOn(m, n)) \in Nat
      /\ Cardinality(InflightOn(m, n)) > 0
  <2>1. Cardinality(InflightOn(m, n)) \in Nat /\ Cardinality(InflightOn(m, n) \ {w}) \in Nat
    BY <1>4, FS_CardinalityType, FS_Subset
  <2>2. Cardinality(InflightOn(m, n) \ {w}) = Cardinality(InflightOn(m, n)) - 1
    <3> DEFINE S == InflightOn(m, n)
    <3> HIDE DEF S
    <3>1. IsFiniteSet(S) /\ w \in S
      BY <1>4 DEF S
    <3>2. Cardinality(S \ {w}) = Cardinality(S) - 1
      BY <3>1, FS_RemoveElement
    <3> QED BY <3>2 DEF S
  <2> QED BY <2>1, <2>2
<1>6. load = [m.inflightPerNode EXCEPT ![n] = m.inflightPerNode[n] - 1]
  BY <1>2, <1>5 DEF ReleaseNode, ManagerInv
<1> HIDE DEF inflight, load, node
<1>7. /\ t.inflight = inflight /\ t.inflightNode = node /\ t.inflightPerNode = load
      /\ t.pendingQ = m.pendingQ /\ t.finished = m.finished /\ t.rspOut = m.rspOut
  BY DEF Manager
<1> HIDE DEF t, n
<1>8. \A v \in Workers : t.inflight[v] => t.inflightNode[v] \in Nodes
  BY <1>3, <1>7 DEF ManagerInv
<1>9. ASSUME NEW k \in Nodes
      PROVE  /\ t.inflightPerNode[k] = Cardinality(InflightOn(t, k))
             /\ t.inflightPerNode[k] <= MaxInflightPerNode
  <2>0. /\ m.inflightPerNode[k] = Cardinality(InflightOn(m, k))
        /\ m.inflightPerNode[k] <= MaxInflightPerNode
        /\ m.inflightPerNode[k] \in Nat
    BY <1>1 DEF ManagerInv
  <2>1. CASE k = n
    <3>1. InflightOn(t, k) = InflightOn(m, k) \ {w}
      BY <1>3, <1>7 DEF InflightOn
    <3>2. t.inflightPerNode[k] = m.inflightPerNode[k] - 1
      BY <1>1, <1>2, <1>6, <1>7, <2>1
    <3> QED BY <1>5, <2>0, <2>1, <3>1, <3>2, GroupAssumption
  <2>2. CASE k # n
    <3>1. InflightOn(t, k) = InflightOn(m, k)
      BY <1>3, <1>7, <2>2 DEF InflightOn, n
    <3>2. t.inflightPerNode[k] = m.inflightPerNode[k]
      BY <1>1, <1>2, <1>6, <1>7, <2>2
    <3> QED BY <2>0, <3>1, <3>2
  <2> QED BY <2>1, <2>2
<1>10. ManagerInv(t)
  BY <1>7, <1>8, <1>9 DEF ManagerInv
<1>11. \A v \in Workers : v # w => Untouched(m, t, v)
  BY <1>3, <1>7 DEF Untouched, Queued
<1> QED BY <1>0, <1>3, <1>7, <1>10, <1>11

LEMMA ScheduleSound == ScheduleContract
BY TryScheduleEffect, TryScheduleType DEF ScheduleContract

LEMMA ReturnSound == ReturnContract
<1> SUFFICES ASSUME NEW m \in Manager, NEW w \in Workers, m.inflight[w], ManagerInv(m)
             PROVE  LET t == ReturnGrant(m, w) IN
                    /\ t \in Manager /\ ManagerInv(t) /\ ~t.inflight[w]
                    /\ \A v \in Workers : v # w => Untouched(m, t, v)
                    /\ t.pendingQ = m.pendingQ /\ t.finished = m.finished /\ t.rspOut = m.rspOut
  BY DEF ReturnContract
<1> QED BY ReturnGrantEffect, ReturnGrantType
=============================================================================
