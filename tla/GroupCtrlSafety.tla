-------------------------- MODULE GroupCtrlSafety --------------------------
(* The inductive invariant of GroupCtrlInv is one, what follows from it, and *)
(* the proof that the grant protocol implements NodeGrants.                  *)
EXTENDS GroupCtrlSteps, GroupCtrlGrants

\* A leaf is tried with Zenon, then with SMT.
USE ZenonT(5), SMTT(20)

LEMMA IInvInit == Init => IInv
<1> SUFFICES ASSUME Init PROVE IInv
  OBVIOUS
<1>1. TypeOK
  BY TypeInit
<1>2. /\ mgr.pendingQ = <<>> /\ mgr.inflight = [w \in Workers |-> FALSE]
      /\ mgr.inflightPerNode = [n \in Nodes |-> 0] /\ mgr.rspOut = [w \in Workers |-> <<>>]
      /\ mgr.finished = [w \in Workers |-> FALSE]
  BY DEF Init
<1>3. ManagerInv(mgr)
  <2>1. \A n \in Nodes : InflightOn(mgr, n) = {}
    BY <1>2 DEF InflightOn
  <2>2. \A i : ~(i \in 1 .. Len(mgr.pendingQ))
    BY <1>2
  <2>3. \A n \in Nodes : /\ mgr.inflightPerNode[n] = Cardinality(InflightOn(mgr, n))
                         /\ mgr.inflightPerNode[n] <= MaxInflightPerNode
    <3>1. Cardinality({}) = 0 /\ 0 <= MaxInflightPerNode
      BY FS_EmptySet, GroupAssumption
    <3>2. \A n \in Nodes : mgr.inflightPerNode[n] = 0
      BY <1>2
    <3> QED BY <2>1, <3>1, <3>2
  <2>4. \A w \in Workers : ~mgr.inflight[w]
    BY <1>2
  <2> QED BY <2>2, <2>3, <2>4 DEF ManagerInv
<1>4. ASSUME NEW w \in Workers PROVE WorkerInv(w)
  <2>1. /\ reqOut[w] = <<>> /\ mgr.rspOut[w] = <<>> /\ ~mgr.inflight[w] /\ ~mgr.finished[w]
    BY <1>2 DEF Init
  <2>2. sw[w] = [phase |-> "run", reqSeq |-> 0, node |-> 0, window |-> 0]
    BY DEF Init
  <2>3. seen[w] = [reqSeq |-> 0, doneSeq |-> 0, finished |-> FALSE]
    BY DEF Init
  <2>4. mbox[w] = [ reqSeq |-> 0, reqValid |-> FALSE, reqNode |-> 0, reqWindow |-> 0,
                    grantSeq |-> 0, doneSeq |-> 0, doneValid |-> FALSE,
                    finished |-> FALSE, groupDone |-> FALSE ]
    BY DEF Init
  <2>5. ~RequestOnLink(w) /\ ~DoneOnLink(w) /\ ~FinishedOnLink(w) /\ LinkShape(w)
    BY <2>1, LinkContents DEF LinkShape
  <2>6. ~GrantOnLink(w) /\ RspShape(w)
    BY <2>1 DEF GrantOnLink, RspShape
  <2>7. ~Queued(mgr, w)
    BY <1>2 DEF Queued
  <2>8. RequestToken(w)
    BY <2>4, <2>5, <2>6, <2>7 DEF RequestToken
  <2>9. RequestWords(w) /\ DoneWords(w)
    BY <2>2, <2>3, <2>4, GroupAssumption DEF RequestWords, DoneWords, Nodes
  <2>10. GrantToken(w)
    BY <2>1, <2>2, <2>4, <2>5, <2>6
       DEF GrantToken, GrantAtWorker, GrantReturning, GrantInMailbox, Holds
  <2>11. FinishToken(w)
    BY <2>1, <2>2, <2>3, <2>4, <2>5 DEF FinishToken
  <2> QED BY <2>5, <2>6, <2>8, <2>9, <2>10, <2>11 DEF WorkerInv
<1>5. QueueMatches /\ NotStranded
  <2>1. \A i : ~(i \in 1 .. Len(mgr.pendingQ))
    BY <1>2
  <2> QED BY <1>2, <2>1 DEF QueueMatches, NotStranded
<1>6. GroupDoneSent
  <2>1. \A w \in Workers : ~mbox[w].groupDone /\ mgr.rspOut[w] # <<GroupDone>>
    <3>1. \A w \in Workers : ~mbox[w].groupDone
      BY DEF Init
    <3>2. \A w \in Workers : mgr.rspOut[w] = <<>>
      BY <1>2
    <3>3. <<GroupDone>> # <<>>
      OBVIOUS
    <3> QED BY <3>1, <3>2, <3>3
  <2> QED BY <2>1 DEF GroupDoneSent
<1> QED BY <1>1, <1>3, <1>4, <1>5, <1>6 DEF IInv

LEMMA IInvNext == IInv /\ [Next]_vars => IInv'
<1> SUFFICES ASSUME IInv, [Next]_vars PROVE IInv'
  OBVIOUS
<1>0. TypeOK'
  BY TypeNext DEF IInv
<1>1. ASSUME NEW w \in Workers, HandleRequest(w) PROVE IInv'
  BY <1>0, <1>1, HandleRequestInv, ScheduleSound
<1>2. ASSUME NEW w \in Workers, HandleDone(w) PROVE IInv'
  BY <1>0, <1>2, HandleDoneInv, ScheduleSound, ReturnSound
<1>3. ASSUME NEW w \in Workers, HandleFinished(w) PROVE IInv'
  BY <1>0, <1>3, HandleFinishedInv
<1>4. ASSUME NEW w \in Workers, Tick(w) PROVE IInv'
  BY <1>0, <1>4, TickInv
<1>5. ASSUME NEW w \in Workers, HandleRsp(w) PROVE IInv'
  BY <1>0, <1>5, HandleRspInv
<1>6. ASSUME NEW w \in Workers, SoftwareStep(w) PROVE IInv'
  BY <1>0, <1>6, WriteRequestFieldsInv, WriteRequestSeqInv, WriteRequestValidInv, SeeGrantInv,
     WriteDoneSeqInv, WriteDoneValidInv, WriteFinishedInv, SeeGroupDoneInv DEF SoftwareStep
<1>7. CASE UNCHANGED vars
  <2>1. /\ TypeOK' /\ mgr' = mgr /\ mbox' = mbox /\ \A w \in Workers : SameWorker(w)
    BY <1>0, <1>7 DEF vars, SameWorker
  <2>2. ASSUME NEW w \in Workers PROVE WorkerInv(w)'
    <3>1. Untouched(mgr, mgr', w) /\ (mgr'.finished[w] <=> mgr.finished[w])
      BY <2>1 DEF Untouched
    <3> QED BY <2>1, <3>1, WorkerFrame DEF IInv
  <2>3. ManagerInv(mgr)'
    <3>1. ManagerInv(mgr')
      BY <2>1 DEF IInv
    <3> QED BY <3>1 DEF ManagerInv, InflightOn
  <2>4. QueueMatches' /\ NotStranded'
    BY <1>7 DEF IInv, QueueMatches, NotStranded, vars
  <2>5. GroupDoneSent'
    BY <1>7 DEF IInv, GroupDoneSent, AllWorkersFinished, GroupDone, vars
  <2> QED BY <2>1, <2>2, <2>3, <2>4, <2>5 DEF IInv
<1>8. Idle => UNCHANGED vars
  BY DEF Idle
<1> QED BY <1>1, <1>2, <1>3, <1>4, <1>5, <1>6, <1>7, <1>8 DEF Next

\* Where the request and the grant of every worker are (GroupCtrlInv): true in
\* every state the endpoints, the links and the software reach.
THEOREM TokensTracked == Spec => []IInv
BY IInvInit, IInvNext, PTL DEF Spec

\* trySchedule's cap as the workers see it: the workers that use a grant for a
\* node are among those the manager counts on it, so at no time do more than
\* maxInflightPerNode_ of them use the same memory node.
THEOREM HoldersAreBounded == Spec => []HoldersBounded
<1>1. ASSUME IInv PROVE HoldersBounded
  <2> SUFFICES ASSUME NEW n \in Nodes
               PROVE  Cardinality({w \in Workers : Holds(w) /\ sw[w].node = n}) <= MaxInflightPerNode
    BY DEF HoldersBounded
  <2> DEFINE H == {w \in Workers : Holds(w) /\ sw[w].node = n}
             S == InflightOn(mgr, n)
  <2>1. \A w \in Workers : Holds(w) => mgr.inflight[w] /\ mgr.inflightNode[w] = sw[w].node
    BY <1>1 DEF IInv, WorkerInv, GrantToken, GrantAtWorker
  <2>2. H \subseteq S
    BY <2>1 DEF InflightOn
  <2>3. S \subseteq Workers
    BY DEF InflightOn
  <2>4. Cardinality(S) <= MaxInflightPerNode
    BY <1>1 DEF IInv, ManagerInv
  <2> HIDE DEF H, S
  <2>5. IsFiniteSet(S)
    BY <2>3, FS_Subset, GroupAssumption
  <2>6. Cardinality(H) \in Nat /\ Cardinality(S) \in Nat /\ Cardinality(H) <= Cardinality(S)
    BY <2>2, <2>5, FS_Subset, FS_CardinalityType
  <2>7. Cardinality(H) <= MaxInflightPerNode
    BY <2>4, <2>6, GroupAssumption
  <2> QED BY <2>7 DEF H
<1> QED BY <1>1, TokensTracked, PTL

\* A queue the manager keeps is never left without a worker whose DONE will run
\* trySchedule again.
THEOREM QueueNotStranded == Spec => []NotStranded
<1>1. IInv => NotStranded
  BY DEF IInv
<1> QED BY <1>1, TokensTracked, PTL

\* handleReq finds the sender of a FINISHED without a grant: its DONE was sent
\* before and has been handled.
THEOREM FinishedFollowsDone == Spec => []FinishedAfterDone
<1>1. ASSUME IInv PROVE FinishedAfterDone
  <2> SUFFICES ASSUME NEW w \in Workers, reqOut[w] # <<>>, Head(reqOut[w]).type = "FINISHED"
               PROVE  ~mgr.inflight[w]
    BY DEF FinishedAfterDone
  <2>1. WorkerInv(w)
    BY <1>1 DEF IInv
  <2>2. reqOut[w] = <<Finished>>
    <3>1. "REQUEST" # "FINISHED" /\ "DONE" # "FINISHED"
      OBVIOUS
    <3>2. Head(reqOut[w]) # R(w) /\ Head(reqOut[w]) # D(w)
      BY <3>1, MsgKinds
    <3> QED BY <2>1, <3>2, ShortTuples DEF WorkerInv, LinkShape
  <2>3. FinishedOnLink(w) /\ ~DoneOnLink(w)
    BY <2>2, LinkContents
  <2>4. sw[w].phase \in {"drain", "left"} /\ ~mbox[w].doneValid
    BY <2>1, <2>3 DEF WorkerInv, FinishToken
  <2>5. ~GrantOnLink(w) /\ ~GrantInMailbox(w) /\ ~Holds(w)
    BY <2>1, <2>4 DEF WorkerInv, RequestToken, GrantInMailbox, Holds
  <2> QED BY <2>1, <2>3, <2>4, <2>5
          DEF WorkerInv, GrantToken, GrantAtWorker, GrantReturning
<1> QED BY <1>1, TokensTracked, PTL

\* maybeSendGroupDone tells a worker that the group is done only when every
\* worker has left its work loop and nothing is queued or on a request link.
THEOREM GroupDoneIsQuiet == Spec => []GroupDoneQuiet
<1>1. ASSUME IInv PROVE GroupDoneQuiet
  <2> SUFFICES ASSUME \E w \in Workers : mbox[w].groupDone
               PROVE  /\ \A v \in Workers : sw[v].phase \in {"drain", "left"} /\ reqOut[v] = <<>>
                      /\ mgr.pendingQ = <<>>
    BY DEF GroupDoneQuiet
  <2>1. AllWorkersFinished(mgr) /\ mgr.pendingQ = <<>>
    BY <1>1 DEF IInv, GroupDoneSent
  <2>2. ASSUME NEW v \in Workers PROVE sw[v].phase \in {"drain", "left"} /\ reqOut[v] = <<>>
    <3>1. FinishToken(v) /\ mgr.finished[v]
      BY <1>1, <2>1 DEF IInv, WorkerInv, AllWorkersFinished
    <3> QED BY <3>1 DEF FinishToken
  <2> QED BY <2>1, <2>2
<1> QED BY <1>1, TokensTracked, PTL

-----------------------------------------------------------------------------
(* The grant protocol implements NodeGrants. *)

LEMMA AbstractStates ==
    /\ AbstractState("run") = "working"
    /\ AbstractState("reqFields") = "asking" /\ AbstractState("reqSeq") = "asking"
    /\ AbstractState("wait") = "asking"
    /\ AbstractState("hold") = "using" /\ AbstractState("doneSeq") = "using"
    /\ AbstractState("drain") = "finished" /\ AbstractState("left") = "left"
BY DEF AbstractState

\* A worker uses a node in the abstract exactly when its software holds a grant.
LEMMA UsingIsHolding ==
    ASSUME TypeOK, NEW w \in Workers
    PROVE  stateBar[w] = "using" <=> Holds(w)
<1>1. sw[w].phase \in Phase /\ stateBar[w] = AbstractState(sw[w].phase)
  BY DEF TypeOK, Software, stateBar
<1> QED BY <1>1, AbstractStates DEF Phase, Holds

\* What a change of one worker's software looks like in the abstract.
LEMMA BarUpdate ==
    ASSUME TypeOK, NEW w \in Workers, NEW s \in Software, sw' = [sw EXCEPT ![w] = s]
    PROVE  /\ stateBar' = [stateBar EXCEPT ![w] = AbstractState(s.phase)]
           /\ nodeBar' = [nodeBar EXCEPT ![w] = s.node]
<1>1. sw \in [Workers -> Software]
  BY DEF TypeOK
<1>2. \A v \in Workers : sw'[v] = IF v = w THEN s ELSE sw[v]
  BY <1>1
<1>3. /\ stateBar' = [v \in Workers |-> AbstractState(sw'[v].phase)]
      /\ nodeBar' = [v \in Workers |-> sw'[v].node]
  BY DEF stateBar, nodeBar, AbstractState
<1>4. stateBar' = [stateBar EXCEPT ![w] = AbstractState(s.phase)]
  <2> DEFINE f == [v \in Workers |-> AbstractState(sw'[v].phase)]
             g == [stateBar EXCEPT ![w] = AbstractState(s.phase)]
  <2>1. \A v \in Workers : f[v] = g[v]
    BY <1>2 DEF stateBar
  <2>2. f = g
    BY <2>1 DEF stateBar
  <2> QED BY <1>3, <2>2
<1>5. nodeBar' = [nodeBar EXCEPT ![w] = s.node]
  <2> DEFINE f == [v \in Workers |-> sw'[v].node]
             g == [nodeBar EXCEPT ![w] = s.node]
  <2>1. \A v \in Workers : f[v] = g[v]
    BY <1>2 DEF nodeBar
  <2>2. f = g
    BY <2>1 DEF nodeBar
  <2> QED BY <1>3, <2>2
<1> QED BY <1>4, <1>5

\* Only the phase changes.
LEMMA BarGoto ==
    ASSUME TypeOK, NEW w \in Workers, NEW p \in Phase, Goto(w, p)
    PROVE  stateBar' = [stateBar EXCEPT ![w] = AbstractState(p)] /\ nodeBar' = nodeBar
<1> DEFINE s == [sw[w] EXCEPT !.phase = p]
<1>1. s \in Software /\ s.phase = p /\ s.node = sw[w].node
  BY DEF TypeOK, Software
<1>2. sw' = [sw EXCEPT ![w] = s]
  BY DEF Goto
<1> HIDE DEF s
<1>3. /\ stateBar' = [stateBar EXCEPT ![w] = AbstractState(s.phase)]
      /\ nodeBar' = [nodeBar EXCEPT ![w] = s.node]
  BY <1>1, <1>2, BarUpdate
<1>4. nodeBar' = nodeBar
  BY <1>1, <1>3 DEF nodeBar
<1> QED BY <1>1, <1>3, <1>4

\* The instance's Cardinality is the usual one.
LEMMA SameCardinality == \A S : Grants!Cardinality(S) = Cardinality(S)
BY DEF Grants!Cardinality, Cardinality

\* A worker that sees its grant finds room on its node: it is inflight there
\* and none of the holders, and the manager counts at most the cap.
LEMMA RoomOnGrant ==
    ASSUME IInv, NEW w \in Workers, SeeGrant(w)
    PROVE  Cardinality({v \in Workers : Holds(v) /\ sw[v].node = sw[w].node})
               < MaxInflightPerNode
<1> DEFINE n == sw[w].node
           H == {v \in Workers : Holds(v) /\ sw[v].node = n}
           S == InflightOn(mgr, n)
<1>1. \A v \in Workers : Holds(v) => mgr.inflight[v] /\ mgr.inflightNode[v] = sw[v].node
  BY DEF IInv, WorkerInv, GrantToken, GrantAtWorker
<1>2. mgr.inflight[w] /\ mgr.inflightNode[w] = n /\ ~Holds(w)
  <2>1. GrantInMailbox(w) /\ ~Holds(w)
    BY DEF SeeGrant, GrantInMailbox, Holds
  <2> QED BY <2>1 DEF IInv, WorkerInv, GrantToken, GrantAtWorker
<1>3. H \subseteq S /\ w \in S /\ w \notin H /\ S \subseteq Workers
  BY <1>1, <1>2 DEF InflightOn
<1>4. n \in Nodes
  BY DEF IInv, WorkerInv, RequestWords
<1>5. Cardinality(S) <= MaxInflightPerNode
  BY <1>4 DEF IInv, ManagerInv
<1> HIDE DEF H, S, n
<1>6. IsFiniteSet(S) /\ IsFiniteSet(H)
  BY <1>3, FS_Subset, GroupAssumption
<1>7. Cardinality(H) <= Cardinality(S) /\ (Cardinality(H) = Cardinality(S) => H = S)
  BY <1>3, <1>6, FS_Subset
<1>8. Cardinality(H) \in Nat /\ Cardinality(S) \in Nat
  BY <1>6, FS_CardinalityType
<1>9. Cardinality(H) < MaxInflightPerNode
  BY <1>3, <1>5, <1>7, <1>8, GroupAssumption
<1> QED BY <1>9 DEF H, n

\* Every step of the software is a step of the abstract worker or invisible.
LEMMA SoftwareImplements ==
    ASSUME IInv, NEW w \in Workers, SoftwareStep(w)
    PROVE  [Grants!ANext]_(Grants!avars)
<1>0. /\ TypeOK /\ sw[w] \in Software
      /\ stateBar[w] = AbstractState(sw[w].phase) /\ nodeBar[w] = sw[w].node
  BY DEF IInv, TypeOK, stateBar, nodeBar
<1>u. ASSUME NEW q, stateBar[w] = q, stateBar' = [stateBar EXCEPT ![w] = q] PROVE stateBar' = stateBar
  BY <1>u DEF stateBar
<1>1. CASE WriteRequestFields(w)
  <2>1. PICK n \in Nodes, win \in Windows :
          sw' = [sw EXCEPT ![w] = [phase |-> "reqFields", reqSeq |-> sw[w].reqSeq + 1,
                                   node |-> n, window |-> win]]
    BY <1>1 DEF WriteRequestFields
  <2> DEFINE s == [phase |-> "reqFields", reqSeq |-> sw[w].reqSeq + 1, node |-> n, window |-> win]
  <2>2. s \in Software /\ s.phase = "reqFields" /\ s.node = n
    BY <1>0, GroupAssumption DEF Software, Phase, Nodes
  <2> HIDE DEF s
  <2>3. /\ stateBar' = [stateBar EXCEPT ![w] = "asking"] /\ nodeBar' = [nodeBar EXCEPT ![w] = n]
    <3>1. sw' = [sw EXCEPT ![w] = s]
      BY <2>1 DEF s
    <3>2. AbstractState(s.phase) = "asking"
      BY <2>2, AbstractStates
    <3>3. /\ stateBar' = [stateBar EXCEPT ![w] = AbstractState(s.phase)]
          /\ nodeBar' = [nodeBar EXCEPT ![w] = s.node]
      BY <1>0, <2>2, <3>1, BarUpdate
    <3> QED BY <2>2, <3>2, <3>3
  <2>4. stateBar[w] = "working"
    BY <1>0, <1>1, AbstractStates DEF WriteRequestFields
  <2>5. Grants!Ask(w)
    BY <2>3, <2>4 DEF Grants!Ask
  <2> QED BY <2>5 DEF Grants!ANext
<1>2. CASE WriteRequestSeq(w) \/ WriteRequestValid(w)
  <2>1. /\ stateBar' = [stateBar EXCEPT ![w] = "asking"] /\ nodeBar' = nodeBar
    BY <1>0, <1>2, BarGoto, AbstractStates DEF WriteRequestSeq, WriteRequestValid, Phase
  <2>2. stateBar[w] = "asking"
    BY <1>0, <1>2, AbstractStates DEF WriteRequestSeq, WriteRequestValid
  <2>3. stateBar' = stateBar
    BY <1>u, <2>1, <2>2
  <2> QED BY <2>1, <2>3 DEF Grants!avars
<1>3. CASE SeeGrant(w)
  <2>1. /\ stateBar' = [stateBar EXCEPT ![w] = "using"] /\ nodeBar' = nodeBar
    BY <1>0, <1>3, BarGoto, AbstractStates DEF SeeGrant, Phase
  <2>2. stateBar[w] = "asking"
    BY <1>0, <1>3, AbstractStates DEF SeeGrant
  <2>3. Grants!UsersOf(nodeBar[w]) = {v \in Workers : Holds(v) /\ sw[v].node = sw[w].node}
    BY <1>0, UsingIsHolding DEF Grants!UsersOf, nodeBar
  <2>4. Cardinality(Grants!UsersOf(nodeBar[w])) < MaxInflightPerNode
    BY <1>3, <2>3, RoomOnGrant
  <2>5. Grants!Use(w)
    BY <2>1, <2>2, <2>4, SameCardinality DEF Grants!Use
  <2> QED BY <2>5 DEF Grants!ANext
<1>4. CASE WriteDoneSeq(w)
  <2>1. /\ stateBar' = [stateBar EXCEPT ![w] = "using"] /\ nodeBar' = nodeBar
    BY <1>0, <1>4, BarGoto, AbstractStates DEF WriteDoneSeq, Phase
  <2>2. stateBar[w] = "using"
    BY <1>0, <1>4, AbstractStates DEF WriteDoneSeq
  <2>3. stateBar' = stateBar
    BY <1>u, <2>1, <2>2
  <2> QED BY <2>1, <2>3 DEF Grants!avars
<1>5. CASE WriteDoneValid(w)
  <2> DEFINE s == [phase |-> "run", reqSeq |-> sw[w].reqSeq, node |-> 0, window |-> 0]
  <2>1. sw' = [sw EXCEPT ![w] = s]
    BY <1>5 DEF WriteDoneValid
  <2>2. s \in Software /\ s.phase = "run" /\ s.node = 0
    BY <1>0 DEF Software, Phase
  <2> HIDE DEF s
  <2>3. /\ stateBar' = [stateBar EXCEPT ![w] = "working"] /\ nodeBar' = [nodeBar EXCEPT ![w] = 0]
    <3>1. /\ stateBar' = [stateBar EXCEPT ![w] = AbstractState(s.phase)]
          /\ nodeBar' = [nodeBar EXCEPT ![w] = s.node]
      BY <1>0, <2>1, <2>2, BarUpdate
    <3> QED BY <2>2, <3>1, AbstractStates
  <2>4. stateBar[w] = "using"
    BY <1>0, <1>5, AbstractStates DEF WriteDoneValid
  <2>5. Grants!GiveBack(w)
    BY <2>3, <2>4 DEF Grants!GiveBack
  <2> QED BY <2>5 DEF Grants!ANext
<1>6. CASE WriteFinished(w)
  <2>1. /\ stateBar' = [stateBar EXCEPT ![w] = "finished"] /\ nodeBar' = nodeBar
    BY <1>0, <1>6, BarGoto, AbstractStates DEF WriteFinished, Phase
  <2>2. stateBar[w] = "working"
    BY <1>0, <1>6, AbstractStates DEF WriteFinished
  <2>3. Grants!Finish(w)
    BY <2>1, <2>2 DEF Grants!Finish
  <2> QED BY <2>3 DEF Grants!ANext
<1>7. CASE SeeGroupDone(w)
  <2>1. /\ stateBar' = [stateBar EXCEPT ![w] = "left"] /\ nodeBar' = nodeBar
    BY <1>0, <1>7, BarGoto, AbstractStates DEF SeeGroupDone, Phase
  <2>2. stateBar[w] = "finished"
    BY <1>0, <1>7, AbstractStates DEF SeeGroupDone
  <2>3. ASSUME NEW v \in Workers PROVE stateBar[v] \in {"finished", "left"}
    <3>1. AllWorkersFinished(mgr)
      BY <1>7 DEF SeeGroupDone, IInv, GroupDoneSent
    <3>2. FinishToken(v) /\ mgr.finished[v]
      BY <3>1 DEF IInv, WorkerInv, AllWorkersFinished
    <3>3. sw[v].phase \in {"drain", "left"}
      BY <3>2 DEF FinishToken
    <3>4. stateBar[v] = AbstractState(sw[v].phase)
      BY DEF stateBar
    <3> QED BY <3>3, <3>4, AbstractStates
  <2>4. Grants!Leave(w)
    BY <2>1, <2>2, <2>3 DEF Grants!Leave
  <2> QED BY <2>4 DEF Grants!ANext
<1> QED BY <1>1, <1>2, <1>3, <1>4, <1>5, <1>6, <1>7 DEF SoftwareStep

\* The grant scheduler of groupctrl.cc, with its mailboxes, links, queue and
\* counters, implements the service NodeGrants describes, for any number of
\* nodes and requests, any queue depth and any cap.
THEOREM GrantsImplemented == Spec => ImplementsGrants
<1>1. Init => Grants!AInit
  <2> SUFFICES ASSUME Init PROVE Grants!AInit
    OBVIOUS
  <2>1. \A w \in Workers : sw[w].phase = "run" /\ sw[w].node = 0
    BY DEF Init
  <2> QED BY <2>1, AbstractStates DEF Grants!AInit, stateBar, nodeBar
<1>2. IInv /\ [Next]_vars => [Grants!ANext]_(Grants!avars)
  <2> SUFFICES ASSUME IInv, [Next]_vars PROVE [Grants!ANext]_(Grants!avars)
    OBVIOUS
  <2>1. ASSUME NEW w \in Workers, SoftwareStep(w) PROVE [Grants!ANext]_(Grants!avars)
    BY <2>1, SoftwareImplements
  <2>2. CASE sw' = sw
    <3>1. stateBar' = stateBar /\ nodeBar' = nodeBar
      BY <2>2 DEF stateBar, nodeBar, AbstractState
    <3> QED BY <3>1 DEF Grants!avars
  <2>3. ASSUME NEW w \in Workers,
               HandleRequest(w) \/ HandleDone(w) \/ HandleFinished(w) \/ Tick(w) \/ HandleRsp(w)
        PROVE  sw' = sw
    BY <2>3 DEF HandleRequest, HandleDone, HandleFinished, Receive, Tick, HandleRsp
  <2>4. Idle \/ UNCHANGED vars => sw' = sw
    BY DEF Idle, vars
  <2> QED BY <2>1, <2>2, <2>3, <2>4 DEF Next
<1> QED BY <1>1, <1>2, TokensTracked, PTL DEF Spec, ImplementsGrants, Grants!ASpec

-----------------------------------------------------------------------------
(* No request is lost.                                                       *)

\* A queue of one request per worker, without one of w, has a place for w.
LEMMA QueueHasRoom ==
    ASSUME NEW m \in Manager, ManagerInv(m), NEW w \in Workers, ~Queued(m, w)
    PROVE  Len(m.pendingQ) < Cardinality(Workers)
<1> DEFINE n == Len(m.pendingQ)
           T == Workers \ {w}
           f == [i \in 1 .. n |-> m.pendingQ[i].slot]
<1>1. n \in Nat /\ \A i \in 1 .. n : m.pendingQ[i] \in PendingReq
  BY ElementInSet DEF Manager
<1>2. \A i \in 1 .. n : f[i] \in T
  BY <1>1 DEF PendingReq, Queued
<1>3. \A i, j \in 1 .. n : f[i] = f[j] => i = j
  BY DEF ManagerInv
<1>4. f \in [1 .. n -> T]
  BY <1>2
<1> HIDE DEF f, T, n
<1>5. f \in Injection(1 .. n, T)
  BY <1>3, <1>4 DEF Injection, IsInjective
<1>6. IsFiniteSet(T) /\ Cardinality(T) = Cardinality(Workers) - 1
  BY FS_RemoveElement, GroupAssumption DEF T
<1>7. Cardinality(1 .. n) <= Cardinality(T)
  BY <1>5, <1>6, FS_Injection
<1>8. Cardinality(1 .. n) = n
  BY <1>1, FS_Interval
<1>9. Cardinality(Workers) \in Nat
  BY GroupAssumption
<1> QED BY <1>1, <1>6, <1>7, <1>8, <1>9 DEF n

\* What the scheduler does not touch or grants stays under way.
LEMMA AdvancedKept ==
    ASSUME NEW m, NEW v \in Workers, TypeOK', WorkerInv(v)', m.rspOut[v] \in Seq(RspMsg),
           Untouched(m, mgr', v) \/ GrantedTo(m, mgr', v), Queued(m, v)
    PROVE  Queued(mgr, v)' \/ GrantOnLink(v)'
<1>1. CASE Untouched(m, mgr', v)
  BY <1>1 DEF Untouched, Queued
<1>2. CASE GrantedTo(m, mgr', v)
  <2>1. PICK g \in RspMsg : g.type = "GRANT" /\ mgr'.rspOut[v] = Append(m.rspOut[v], g)
    BY <1>2 DEF GrantedTo
  <2>2. /\ Len(mgr'.rspOut[v]) = Len(m.rspOut[v]) + 1
        /\ mgr'.rspOut[v][Len(m.rspOut[v]) + 1] = g /\ Len(m.rspOut[v]) \in Nat
    BY <2>1
  <2>3. mgr'.rspOut[v] # <<>>
    BY <2>2
  <2>4. mgr'.rspOut[v] # <<GroupDone>>
    <3> SUFFICES ASSUME mgr'.rspOut[v] = <<GroupDone>> PROVE FALSE
      OBVIOUS
    <3>1. Len(m.rspOut[v]) + 1 = 1
      BY <2>2
    <3> QED BY <2>1, <2>2, <3>1 DEF GroupDone
  <2> QED BY <2>3, <2>4 DEF WorkerInv, RspShape, GroupDone
<1> QED BY <1>1, <1>2

LEMMA HandleRequestKept ==
    ASSUME IInv, IInv', NEW w \in Workers, HandleRequest(w), QueueDepth >= Cardinality(Workers),
           NEW v \in Workers, sw'[v].phase = "wait", UnderWay(v)
    PROVE  UnderWay(v)'
<1> DEFINE msg == Head(reqOut[w])
           m == Enqueued(mgr, w, msg)
<1>1. Receive(w, "REQUEST") /\ reqOut[w] # <<>> /\ mgr' = OnRequest(mgr, w, msg)
  BY DEF HandleRequest, Receive
<1>2. TypeOK /\ mgr \in Manager /\ ManagerInv(mgr) /\ WorkerInv(w) /\ TypeOK' /\ WorkerInv(v)'
  BY DEF IInv, TypeOK
<1>3. /\ \A u \in Workers : u # w => SameWorker(u)
      /\ mbox' = mbox /\ sw' = sw /\ RequestOnLink(w) /\ msg = R(w)
  BY <1>1, <1>2, ReceiveLink
<1>4. ~Queued(mgr, w) /\ ~GrantOnLink(w)
  BY <1>2, <1>3 DEF WorkerInv, RequestToken
<1>5. mgr' = TrySchedule(m)
  <2>1. Len(mgr.pendingQ) < Cardinality(Workers)
    BY <1>2, <1>4, QueueHasRoom
  <2>2. Len(mgr.pendingQ) \in Nat
    BY <1>2 DEF Manager
  <2>3. ~(Len(mgr.pendingQ) >= QueueDepth)
    BY <2>1, <2>2, GroupAssumption
  <2> QED BY <1>1, <2>3 DEF OnRequest, Enqueued
<1>6. msg \in ReqMsg /\ msg.node \in Nodes
  <2>1. reqOut[w] \in Seq(ReqMsg)
    BY <1>2 DEF TypeOK
  <2>2. msg \in ReqMsg
    BY <1>1, <2>1, HeadInSet
  <2> QED BY <1>2, <1>3, <2>2 DEF R, Request, WorkerInv, RequestWords
<1>7. /\ m \in Manager /\ ManagerInv(m) /\ m.rspOut = mgr.rspOut
      /\ Queued(m, w) /\ \A u \in Workers : u # w => (Queued(m, u) <=> Queued(mgr, u))
  BY <1>2, <1>4, <1>6, EnqueuedEffect
<1> HIDE DEF m
<1>8. Advanced(m, mgr')
  BY <1>5, <1>7, ScheduleSound DEF ScheduleContract
<1>9. Untouched(m, mgr', v) \/ GrantedTo(m, mgr', v)
  BY <1>8 DEF Advanced
<1>10. m.rspOut[v] \in Seq(RspMsg)
  BY <1>7 DEF Manager
<1>11. CASE Queued(m, v)
  BY <1>2, <1>9, <1>10, <1>11, AdvancedKept DEF UnderWay
<1>12. CASE ~Queued(m, v)
  <2>1. v # w /\ ~Queued(mgr, v) /\ SameWorker(v)
    BY <1>3, <1>7, <1>12
  <2>2. ~GrantedTo(m, mgr', v)
    BY <1>12 DEF GrantedTo, Queued
  <2>3. mgr'.rspOut[v] = mgr.rspOut[v]
    BY <1>7, <1>9, <2>2 DEF Untouched
  <2>4. GrantOnLink(v) => GrantOnLink(v)'
    BY <1>3, <2>3 DEF GrantOnLink
  <2>5. RequestOnLink(v) => RequestOnLink(v)'
    BY <2>1, SameWorkerFlags
  <2> QED BY <1>3, <2>1, <2>4, <2>5 DEF UnderWay
<1> QED BY <1>11, <1>12

\* No GROUP_DONE is sent while a worker waits.
LEMMA NoGroupDoneYet ==
    ASSUME IInv', NEW v \in Workers, sw'[v].phase = "wait",
           NEW t, mgr' = MaybeSendGroupDone(t), AllWorkersFinished(t) => AllWorkersFinished(mgr')
    PROVE  mgr' = t
<1>1. ~mgr'.finished[v]
  BY DEF IInv, WorkerInv, FinishToken
<1> QED BY <1>1 DEF AllWorkersFinished, MaybeSendGroupDone

LEMMA HandleDoneKept ==
    ASSUME IInv, IInv', NEW w \in Workers, HandleDone(w),
           NEW v \in Workers, sw'[v].phase = "wait", UnderWay(v)
    PROVE  UnderWay(v)'
<1> DEFINE m == ReturnGrant(mgr, w)
           t == TrySchedule(m)
<1>1. Receive(w, "DONE") /\ reqOut[w] # <<>> /\ mgr' = MaybeSendGroupDone(t)
  BY DEF HandleDone, Receive, OnDone
<1>2. TypeOK /\ mgr \in Manager /\ ManagerInv(mgr) /\ WorkerInv(w) /\ TypeOK' /\ WorkerInv(v)'
  BY DEF IInv, TypeOK
<1>3. /\ \A u \in Workers : u # w => SameWorker(u)
      /\ mbox' = mbox /\ sw' = sw /\ DoneOnLink(w)
      /\ RequestOnLink(w)' <=> RequestOnLink(w)
  BY <1>1, <1>2, ReceiveLink
<1>4. mgr.inflight[w]
  BY <1>2, <1>3 DEF WorkerInv, GrantToken, GrantReturning
<1>5. m \in Manager /\ ManagerInv(m) /\ m.pendingQ = mgr.pendingQ /\ m.rspOut = mgr.rspOut
  BY <1>2, <1>4, ReturnSound DEF ReturnContract
<1> HIDE DEF m
<1>6. t \in Manager /\ Advanced(m, t)
  BY <1>5, ScheduleSound DEF ScheduleContract
<1> HIDE DEF t
<1>7. mgr' = t
  <2>1. AllWorkersFinished(t) => AllWorkersFinished(mgr')
    <3>1. mgr' = t \/ mgr' = [t EXCEPT !.rspOut = [u \in Workers |-> Append(t.rspOut[u], GroupDone)]]
      BY <1>1 DEF MaybeSendGroupDone
    <3>2. mgr'.finished = t.finished
      BY <1>6, <3>1 DEF Manager
    <3> QED BY <3>2 DEF AllWorkersFinished
  <2> QED BY <1>1, <2>1, NoGroupDoneYet
<1>8. Untouched(m, mgr', v) \/ GrantedTo(m, mgr', v)
  BY <1>6, <1>7 DEF Advanced
<1>9. m.rspOut[v] \in Seq(RspMsg)
  BY <1>5 DEF Manager
<1>10. Queued(m, v) <=> Queued(mgr, v)
  BY <1>5 DEF Queued
<1>11. CASE Queued(m, v)
  BY <1>2, <1>8, <1>9, <1>11, AdvancedKept DEF UnderWay
<1>12. CASE ~Queued(m, v)
  <2>2. ~GrantedTo(m, mgr', v)
    BY <1>12 DEF GrantedTo, Queued
  <2>3. mgr'.rspOut[v] = mgr.rspOut[v]
    BY <1>5, <1>8, <2>2 DEF Untouched
  <2>4. GrantOnLink(v) => GrantOnLink(v)'
    BY <1>3, <2>3 DEF GrantOnLink
  <2>5. RequestOnLink(v) => RequestOnLink(v)'
    BY <1>3, SameWorkerFlags
  <2> QED BY <1>3, <1>10, <1>12, <2>4, <2>5 DEF UnderWay
<1> QED BY <1>11, <1>12

LEMMA HandleFinishedKept ==
    ASSUME IInv, IInv', NEW w \in Workers, HandleFinished(w),
           NEW v \in Workers, sw'[v].phase = "wait", UnderWay(v)
    PROVE  UnderWay(v)'
<1> DEFINE fin == [mgr.finished EXCEPT ![w] = TRUE]
           f == [mgr EXCEPT !.finished = fin]
<1>1. Receive(w, "FINISHED") /\ reqOut[w] # <<>> /\ mgr' = OnFinished(mgr, w)
  BY DEF HandleFinished, Receive
<1>2. TypeOK /\ mgr \in Manager /\ WorkerInv(w)
  BY DEF IInv, TypeOK
<1>3. /\ \A u \in Workers : u # w => SameWorker(u)
      /\ mbox' = mbox /\ sw' = sw /\ FinishedOnLink(w) /\ ~DoneOnLink(w)
  BY <1>1, <1>2, ReceiveLink
<1>4. sw[w].phase \in {"drain", "left"} /\ ~mbox[w].doneValid
  BY <1>2, <1>3 DEF WorkerInv, FinishToken
<1>5. ~mgr.inflight[w]
  BY <1>2, <1>3, <1>4
     DEF WorkerInv, GrantToken, GrantAtWorker, GrantReturning, GrantInMailbox, Holds, RequestToken
<1>6. mgr' = MaybeSendGroupDone(f)
  BY <1>1, <1>5 DEF OnFinished
<1> HIDE DEF fin
<1>7. f.pendingQ = mgr.pendingQ /\ f.rspOut = mgr.rspOut /\ f.finished = fin
  BY <1>2 DEF Manager
<1>8. mgr' = f
  <2>1. AllWorkersFinished(f) => AllWorkersFinished(mgr')
    <3>1. mgr' = f \/ mgr' = [f EXCEPT !.rspOut = [u \in Workers |-> Append(f.rspOut[u], GroupDone)]]
      BY <1>6 DEF MaybeSendGroupDone
    <3>2. mgr'.finished = f.finished
      BY <1>2, <3>1 DEF Manager
    <3> QED BY <3>2 DEF AllWorkersFinished
  <2> HIDE DEF f
  <2> QED BY <1>6, <2>1, NoGroupDoneYet
<1> HIDE DEF f
<1>9. v # w /\ SameWorker(v)
  BY <1>3, <1>4
<1>10. /\ Queued(mgr, v)' <=> Queued(mgr, v)
       /\ GrantOnLink(v)' <=> GrantOnLink(v)
  BY <1>3, <1>7, <1>8 DEF Queued, GrantOnLink
<1> QED BY <1>3, <1>9, <1>10, SameWorkerFlags DEF UnderWay

LEMMA TickKept ==
    ASSUME IInv, NEW w \in Workers, Tick(w), NEW v \in Workers, UnderWay(v)
    PROVE  UnderWay(v)'
<1>1. TypeOK /\ WorkerInv(w)
  BY DEF IInv
<1>2. /\ mgr' = mgr /\ sw' = sw /\ \A u \in Workers : u # w => SameWorker(u)
      /\ mbox'[w].reqValid <=> mbox[w].reqValid /\ ~RequestPosted(w)
      /\ mbox'[w].grantSeq = mbox[w].grantSeq
  BY <1>1, TickFields
<1>3. RequestOnLink(w)' <=> RequestOnLink(w) \/ RequestPosted(w)
  BY <1>1, TickLink
<1>4. /\ Queued(mgr, v)' <=> Queued(mgr, v)
      /\ GrantOnLink(v)' <=> GrantOnLink(v)
  BY <1>2 DEF Queued, GrantOnLink
<1>5. CASE v = w
  BY <1>2, <1>3, <1>4, <1>5 DEF UnderWay
<1>6. CASE v # w
  <2>1. SameWorker(v)
    BY <1>2, <1>6
  <2> QED BY <1>4, <2>1, SameWorkerFlags DEF UnderWay, SameWorker
<1> QED BY <1>5, <1>6

LEMMA HandleRspKept ==
    ASSUME IInv, NEW w \in Workers, HandleRsp(w), NEW v \in Workers, UnderWay(v)
    PROVE  UnderWay(v)'
<1> DEFINE msg == Head(mgr.rspOut[w])
           out == [mgr.rspOut EXCEPT ![w] = Tail(mgr.rspOut[w])]
<1>1. TypeOK /\ mgr \in Manager /\ WorkerInv(w) /\ mbox \in [Workers -> Mailbox]
  BY DEF IInv, TypeOK
<1>2. /\ mgr.rspOut[w] # <<>> /\ mgr' = [mgr EXCEPT !.rspOut = out]
      /\ mbox' = IF msg.type = "GRANT" THEN [mbox EXCEPT ![w].grantSeq = msg.seq]
                                       ELSE [mbox EXCEPT ![w].groupDone = TRUE]
      /\ reqOut' = reqOut /\ seen' = seen /\ sw' = sw
  BY DEF HandleRsp
<1>3. \A u \in Workers : u # w => out[u] = mgr.rspOut[u]
  BY <1>1 DEF Manager
<1> HIDE DEF out
<1>4. mgr'.rspOut = out /\ mgr'.pendingQ = mgr.pendingQ
  BY <1>1, <1>2 DEF Manager
<1>5. Queued(mgr, v)' <=> Queued(mgr, v)
  BY <1>4 DEF Queued
<1>6. RequestOnLink(v)' <=> RequestOnLink(v)
  BY <1>2 DEF RequestOnLink, R, D
<1>7. mbox'[v].reqValid <=> mbox[v].reqValid
  BY <1>1, <1>2 DEF Mailbox
<1>8. CASE v # w
  <2>1. mbox'[v] = mbox[v]
    BY <1>1, <1>2, <1>8
  <2>2. GrantOnLink(v)' <=> GrantOnLink(v)
    BY <1>2, <1>3, <1>4, <1>8 DEF GrantOnLink
  <2> QED BY <1>2, <1>5, <1>6, <1>7, <2>1, <2>2 DEF UnderWay
<1>9. CASE v = w /\ GrantOnLink(w)
  <2>1. msg.type = "GRANT" /\ msg.seq = sw[w].reqSeq
    BY <1>9 DEF GrantOnLink
  <2>2. mbox'[w].grantSeq = msg.seq
    BY <1>1, <1>2, <2>1 DEF Mailbox
  <2> QED BY <1>2, <1>9, <2>1, <2>2 DEF UnderWay
<1>10. CASE v = w /\ ~GrantOnLink(w)
  <2>1. msg = GroupDone
    BY <1>1, <1>2, <1>10 DEF WorkerInv, RspShape
  <2>2. mbox'[w].grantSeq = mbox[w].grantSeq
    BY <1>1, <1>2, <2>1 DEF GroupDone, Mailbox
  <2> QED BY <1>2, <1>5, <1>6, <1>7, <1>10, <2>2 DEF UnderWay
<1> QED BY <1>8, <1>9, <1>10

LEMMA SoftwareKept ==
    ASSUME IInv, NEW w \in Workers, SoftwareStep(w),
           NEW v \in Workers, sw'[v].phase = "wait", sw[v].phase = "wait" => UnderWay(v)
    PROVE  UnderWay(v)'
<1>1. TypeOK /\ mbox \in [Workers -> Mailbox] /\ sw \in [Workers -> Software]
  BY DEF IInv, TypeOK
<1>2. UNCHANGED <<mgr, reqOut, seen>> /\ \A u \in Workers : u # w => SameWorker(u)
  BY <1>1, SoftwareOthers
<1>3. CASE v # w
  <2>1. SameWorker(v) /\ sw'[v] = sw[v] /\ mbox'[v] = mbox[v] /\ mgr' = mgr
    BY <1>2, <1>3 DEF SameWorker
  <2>2. /\ Queued(mgr, v)' <=> Queued(mgr, v)
        /\ GrantOnLink(v)' <=> GrantOnLink(v)
    BY <2>1 DEF Queued, GrantOnLink
  <2>3. UnderWay(v)
    BY <2>1
  <2> QED BY <2>1, <2>2, <2>3, SameWorkerFlags DEF UnderWay
<1>4. CASE v = w
  <2>1. CASE WriteRequestValid(w)
    <3>1. mbox'[w].reqValid
      BY <1>1, <2>1 DEF WriteRequestValid, Mailbox
    <3> QED BY <1>4, <3>1 DEF UnderWay
  <2>2. CASE WriteRequestFields(w) \/ WriteDoneValid(w)
    <3>1. sw'[w].phase \in {"reqFields", "run"}
      <4>1. CASE WriteRequestFields(w)
        <5>1. PICK n \in Nodes, win \in Windows :
                sw' = [sw EXCEPT ![w] = [phase |-> "reqFields", reqSeq |-> sw[w].reqSeq + 1,
                                         node |-> n, window |-> win]]
          BY <4>1 DEF WriteRequestFields
        <5> QED BY <1>1, <5>1
      <4>2. CASE WriteDoneValid(w)
        <5>1. sw' = [sw EXCEPT ![w] = [phase |-> "run", reqSeq |-> sw[w].reqSeq, node |-> 0, window |-> 0]]
          BY <4>2 DEF WriteDoneValid
        <5> QED BY <1>1, <5>1
      <4> QED BY <2>2, <4>1, <4>2
    <3> QED BY <1>4, <3>1
  <2>3. CASE WriteRequestSeq(w) \/ SeeGrant(w) \/ WriteDoneSeq(w) \/ WriteFinished(w) \/ SeeGroupDone(w)
    <3>1. PICK p \in {"reqSeq", "hold", "doneSeq", "drain", "left"} : Goto(w, p)
      BY <2>3 DEF WriteRequestSeq, SeeGrant, WriteDoneSeq, WriteFinished, SeeGroupDone
    <3>2. sw'[w].phase = p
      BY <1>1, <3>1, GotoEffect
    <3> QED BY <1>4, <3>1, <3>2
  <2> QED BY <2>1, <2>2, <2>3 DEF SoftwareStep
<1> QED BY <1>3, <1>4

LEMMA RequestKeptNext == IInv /\ IInv' /\ RequestKept /\ [Next]_vars => RequestKept'
<1> SUFFICES ASSUME IInv, IInv', RequestKept, [Next]_vars, QueueDepth >= Cardinality(Workers),
                    NEW v \in Workers, sw'[v].phase = "wait"
             PROVE  UnderWay(v)'
  BY DEF RequestKept
<1>1. sw[v].phase = "wait" => UnderWay(v)
  BY DEF RequestKept
<1>2. ASSUME NEW w \in Workers, SoftwareStep(w) PROVE UnderWay(v)'
  BY <1>1, <1>2, SoftwareKept
<1>3. ASSUME NEW w \in Workers,
             HandleRequest(w) \/ HandleDone(w) \/ HandleFinished(w) \/ Tick(w) \/ HandleRsp(w)
      PROVE  UnderWay(v)'
  <2>1. sw' = sw
    BY <1>3 DEF HandleRequest, HandleDone, HandleFinished, Receive, Tick, HandleRsp
  <2>2. UnderWay(v)
    BY <1>1, <2>1
  <2> QED BY <1>3, <2>2, HandleRequestKept, HandleDoneKept, HandleFinishedKept, TickKept, HandleRspKept
<1>4. CASE UNCHANGED vars
  <2>1. mgr' = mgr /\ reqOut' = reqOut /\ seen' = seen /\ mbox' = mbox /\ sw' = sw
    BY <1>4 DEF vars
  <2>2. UnderWay(v)
    BY <1>1, <2>1
  <2>3. RequestOnLink(v)' <=> RequestOnLink(v)
    BY <2>1 DEF RequestOnLink, R, D
  <2>4. /\ Queued(mgr, v)' <=> Queued(mgr, v)
        /\ GrantOnLink(v)' <=> GrantOnLink(v)
    BY <2>1 DEF Queued, GrantOnLink
  <2> QED BY <2>1, <2>2, <2>3, <2>4 DEF UnderWay
<1>5. Idle => UNCHANGED vars
  BY DEF Idle
<1> QED BY <1>2, <1>3, <1>4, <1>5 DEF Next

\* handleReq drops a request only when pendingQ_ is full.  With a place for
\* every worker it never is: while a worker waits, its request or the grant
\* that answers it is in the mailbox, on a link or in the queue.
THEOREM RequestsAreKept == Spec => []RequestKept
<1>1. Init => RequestKept
  <2> SUFFICES ASSUME Init, NEW w \in Workers PROVE sw[w].phase # "wait"
    BY DEF RequestKept
  <2>1. sw[w] = [phase |-> "run", reqSeq |-> 0, node |-> 0, window |-> 0]
    BY DEF Init
  <2> QED BY <2>1
<1> QED BY <1>1, RequestKeptNext, TokensTracked, PTL DEF Spec

-----------------------------------------------------------------------------
(* Counting the copies.                                                      *)

LEMMA OneOrNone ==
    ASSUME NEW S, NEW P, P \in BOOLEAN, ~P => S = {}, P => \E i : S = {i}
    PROVE  Cardinality(S) = IF P THEN 1 ELSE 0
<1>1. CASE P
  <2>1. PICK i : S = {i}
    BY <1>1
  <2> QED BY <1>1, <2>1, FS_Singleton
<1>2. CASE ~P
  BY <1>2, FS_EmptySet
<1> QED BY <1>1, <1>2

\* The REQUESTs on the link of worker w.
LEMMA RequestsOnLink ==
    ASSUME NEW w \in Workers, LinkShape(w)
    PROVE  LET S == {i \in DOMAIN reqOut[w] : reqOut[w][i].type = "REQUEST"} IN
           Cardinality(S) = IF RequestOnLink(w) THEN 1 ELSE 0
<1> DEFINE S == {i \in DOMAIN reqOut[w] : reqOut[w][i].type = "REQUEST"}
<1>1. R(w).type = "REQUEST" /\ D(w).type # "REQUEST" /\ Finished.type # "REQUEST"
  BY MsgKinds
<1> DEFINE r == R(w)
           d == D(w)
           e == Finished
<1> HIDE DEF r, d, e
<1>2. \A a : /\ DOMAIN <<a>> = {1} /\ <<a>>[1] = a
  OBVIOUS
<1>3. \A a, b : /\ DOMAIN <<a, b>> = {1, 2} /\ <<a, b>>[1] = a /\ <<a, b>>[2] = b
  OBVIOUS
<1>4. RequestOnLink(w) => \E i : S = {i}
  <2>1. CASE reqOut[w] = <<R(w)>>
    <3>1. S = {1}
      BY <1>1, <1>2, <2>1
    <3> QED BY <3>1
  <2>2. CASE reqOut[w] = <<R(w), D(w)>>
    <3>1. S = {1}
      BY <1>1, <1>3, <2>2
    <3> QED BY <3>1
  <2>3. CASE reqOut[w] = <<D(w), R(w)>>
    <3>1. S = {2}
      BY <1>1, <1>3, <2>3
    <3> QED BY <3>1
  <2> QED BY <2>1, <2>2, <2>3 DEF RequestOnLink
<1>5. ~RequestOnLink(w) => S = {}
  <2>1. CASE reqOut[w] = <<>>
    BY <2>1
  <2>2. CASE reqOut[w] = <<D(w)>> \/ reqOut[w] = <<Finished>>
    BY <1>1, <1>2, <2>2
  <2>3. CASE reqOut[w] = <<D(w), Finished>>
    BY <1>1, <1>3, <2>3
  <2> QED BY <2>1, <2>2, <2>3 DEF LinkShape, RequestOnLink
<1>6. RequestOnLink(w) \in BOOLEAN
  BY DEF RequestOnLink
<1> HIDE DEF S
<1>7. Cardinality(S) = IF RequestOnLink(w) THEN 1 ELSE 0
  BY <1>4, <1>5, <1>6, OneOrNone
<1> QED BY <1>7 DEF S

\* The requests of worker w in pendingQ_.
LEMMA RequestsQueued ==
    ASSUME NEW m \in Manager, ManagerInv(m), NEW w \in Workers
    PROVE  LET S == {i \in DOMAIN m.pendingQ : m.pendingQ[i].slot = w} IN
           Cardinality(S) = IF Queued(m, w) THEN 1 ELSE 0
<1> DEFINE S == {i \in DOMAIN m.pendingQ : m.pendingQ[i].slot = w}
<1>1. DOMAIN m.pendingQ = 1 .. Len(m.pendingQ)
  BY DEF Manager
<1>2. Queued(m, w) => \E i : S = {i}
  <2> SUFFICES ASSUME Queued(m, w) PROVE \E i : S = {i}
    OBVIOUS
  <2>1. PICK i \in 1 .. Len(m.pendingQ) : m.pendingQ[i].slot = w
    BY DEF Queued
  <2>2. S = {i}
    BY <1>1, <2>1 DEF ManagerInv
  <2> QED BY <2>2
<1>3. ~Queued(m, w) => S = {}
  BY <1>1 DEF Queued
<1>4. Queued(m, w) \in BOOLEAN
  BY DEF Queued
<1> HIDE DEF S
<1>5. Cardinality(S) = IF Queued(m, w) THEN 1 ELSE 0
  BY <1>2, <1>3, <1>4, OneOrNone
<1> QED BY <1>5 DEF S

\* The GRANTs on their way to worker w.
LEMMA GrantsOnLink ==
    ASSUME TypeOK, NEW w \in Workers, RspShape(w)
    PROVE  LET S == {i \in DOMAIN mgr.rspOut[w] : mgr.rspOut[w][i].type = "GRANT"} IN
           Cardinality(S) = IF GrantOnLink(w) THEN 1 ELSE 0
<1> DEFINE S == {i \in DOMAIN mgr.rspOut[w] : mgr.rspOut[w][i].type = "GRANT"}
<1>1. DOMAIN mgr.rspOut[w] = 1 .. Len(mgr.rspOut[w])
  BY DEF TypeOK, Manager
<1>2. GrantOnLink(w) => S = {1}
  BY <1>1 DEF GrantOnLink
<1>3. ~GrantOnLink(w) => S = {}
  <2>1. CASE mgr.rspOut[w] = <<>>
    BY <2>1
  <2>2. CASE mgr.rspOut[w] = <<GroupDone>>
    BY <2>2 DEF GroupDone
  <2> QED BY <2>1, <2>2 DEF RspShape
<1>4. GrantOnLink(w) \in BOOLEAN
  BY DEF GrantOnLink
<1> HIDE DEF S
<1>5. Cardinality(S) = IF GrantOnLink(w) THEN 1 ELSE 0
  BY <1>2, <1>3, <1>4, OneOrNone
<1> QED BY <1>5 DEF S

\* A worker that waits has exactly one copy of its request or of the grant
\* under way, over mailbox, links, pendingQ_ and the grant word: nothing is
\* lost and nothing granted twice, when the queue has a place for every worker.
THEOREM RequestHasOneCopy == Spec => []OneCopyPerRequest
<1>1. IInv /\ RequestKept => OneCopyPerRequest
  <2> SUFFICES ASSUME IInv, RequestKept, QueueDepth >= Cardinality(Workers),
                      NEW w \in Workers, sw[w].phase = "wait"
               PROVE  Copies(w) = 1
    BY DEF OneCopyPerRequest
  <2>1. /\ TypeOK /\ mgr \in Manager /\ ManagerInv(mgr) /\ LinkShape(w) /\ RspShape(w)
        /\ RequestToken(w) /\ UnderWay(w)
    BY DEF IInv, TypeOK, WorkerInv, RequestKept
  <2> DEFINE a == mbox[w].reqValid
             b == RequestOnLink(w)
             c == Queued(mgr, w)
             d == GrantOnLink(w)
             e == mbox[w].grantSeq = sw[w].reqSeq
  <2>2. Copies(w) = (IF a THEN 1 ELSE 0) + (IF b THEN 1 ELSE 0) + (IF c THEN 1 ELSE 0)
                    + (IF d THEN 1 ELSE 0) + (IF e THEN 1 ELSE 0)
    BY <2>1, RequestsOnLink, RequestsQueued, GrantsOnLink DEF Copies
  <2>3. /\ a \/ b \/ c \/ d \/ e
        /\ a \/ b \/ c \/ d => ~e
        /\ a => ~b /\ ~c /\ ~d
        /\ b => ~c /\ ~d
        /\ c => ~d
    BY <2>1 DEF UnderWay, RequestToken
  <2> HIDE DEF a, b, c, d, e
  <2> QED BY <2>2, <2>3
<1> QED BY <1>1, TokensTracked, RequestsAreKept, PTL
=============================================================================
