------------------------- MODULE PvWoHandoffSafety -------------------------
(***************************************************************************)
(* The safety of PvWoHandoff, for every geometry, set of producers, queue  *)
(* bounds, payload size and number of layers that HandoffAssumption allows.*)
(***************************************************************************)
EXTENDS PvWoHandoffSteps, FiniteSetTheorems

\* A leaf is tried with Zenon, then with SMT.
USE ZenonT(5), SMTT(20)

\* Producers are finitely many.
LEMMA ProducersFinite == IsFiniteSet(Producers) /\ Cardinality(Producers) \in Nat
<1>1. IsFiniteSet(0 .. Managers - 1) /\ IsFiniteSet(0 .. Lanes - 1)
  BY FS_Interval, HandoffAssumption
<1>2. IsFiniteSet(Workers)
  BY <1>1, FS_Product DEF Workers
<1> QED BY <1>2, FS_Subset, FS_CardinalityType, HandoffAssumption

\* A queue whose entries have different producers is no longer than there are
\* producers, and shorter when one of them has no entry.
LEMMA OwnersBoundLength ==
    ASSUME NEW len \in Nat, NEW own \in [1 .. len -> Producers],
           \A i, j \in 1 .. len : own[i] = own[j] => i = j
    PROVE  /\ len <= Cardinality(Producers)
           /\ \A p \in Producers : (\A i \in 1 .. len : own[i] # p) => len < Cardinality(Producers)
<1>1. own \in Injection(1 .. len, Producers)
  BY DEF Injection, IsInjective
<1>2. Cardinality(1 .. len) = len
  BY FS_Interval
<1>3. len <= Cardinality(Producers)
  BY <1>1, <1>2, FS_Injection, ProducersFinite
<1>4. ASSUME NEW p \in Producers, \A i \in 1 .. len : own[i] # p
      PROVE  len < Cardinality(Producers)
  <2>1. own \in Injection(1 .. len, Producers \ {p})
    BY <1>4 DEF Injection, IsInjective
  <2>2. IsFiniteSet(Producers \ {p}) /\ Cardinality(Producers \ {p}) = Cardinality(Producers) - 1
    BY FS_RemoveElement, ProducersFinite
  <2>3. len <= Cardinality(Producers \ {p})
    <3>1. Cardinality(1 .. len) <= Cardinality(Producers \ {p})
      BY <2>1, <2>2, FS_Injection, Zenon
    <3> QED BY <3>1, <1>2
  <2> QED BY <2>2, <2>3, ProducersFinite
<1> QED BY <1>3, <1>4

\* The bound in the form in which the moves use it.
LEMMA OwnersBounded == OwnersBound
BY ProducersFinite, OwnersBoundLength DEF OwnersBound

-----------------------------------------------------------------------------
(* The theorems. *)

(* Every reachable state of the hand-off satisfies the invariant: each message
   carries the block its owner still holds, the masks of a worker name exactly
   the heads that arrived and landed, and the landing memory holds their bytes
   (pvWoHandoff.h as a whole). *)
THEOREM HandoffInvariant == Spec => []HInv
<1>1. HInv /\ [Next]_vars => HInv'
  <2> SUFFICES ASSUME HInv, [Next]_vars PROVE HInv'
    OBVIOUS
  <2>1. ASSUME NEW p \in Producers, NEW b \in Blocks, Dispatch(p, b) PROVE HInv'
    BY <2>1, DispatchStep, OwnersBounded
  <2>2. ASSUME NEW w \in Workers, NEW accepted \in BOOLEAN, Tick(w, accepted) PROVE HInv'
    BY <2>2, TickStep, OwnersBounded
  <2>3. ASSUME NEW w \in Workers, LandingAck(w) PROVE HInv'
    BY <2>3, LandingStep, OwnersBounded
  <2>4. ASSUME NEW msg \in net, Deliver(msg) PROVE HInv'
    BY <2>4, DeliverStep, OwnersBounded
  <2>5. ASSUME NEW w \in Workers, StartWo(w) PROVE HInv'
    BY <2>5, StartStep
  <2>6. ASSUME NEW w \in Workers, NEW h \in Heads, ReadHead(w, h) PROVE HInv'
    BY <2>6, ReadStep
  <2>7. ASSUME NEW w \in Workers, FinishWo(w) PROVE HInv'
    BY <2>7, FinishStep
  <2>8. CASE ReleaseDecoder
    BY <2>8, ReleaseStep
  <2>9. CASE BeginLayer
    BY <2>9, BeginStep
  <2>10. CASE UNCHANGED vars
    BY <2>10 DEF vars, HInv
  <2> QED BY <2>1, <2>2, <2>3, <2>4, <2>5, <2>6, <2>7, <2>8, <2>9, <2>10 DEF Next, Idle
<1> QED BY HandoffInit, <1>1, PTL DEF Spec

(* No exception of PvWoHandoff is reachable: the checks of dispatch, receive,
   landed, acquire, consume and release, the bounds of both queues and the
   readiness that DecoderOpJob::start demands never fail. *)
THEOREM HandoffNoException == Spec => []NoException
<1>1. HInv => NoException
  BY DEF HInv, Inv, MemoryInv, NoException, NoFault
<1> QED BY <1>1, HandoffInvariant, PTL

(* A block that was reported complete (PvComplete) is entirely in the memory
   of its target: the ACK is sent only after the last timed write. *)
THEOREM HandoffCompleteMeansLanded == Spec => []CompleteMeansLanded
<1>1. HInv => CompleteMeansLanded
  <2> SUFFICES ASSUME HInv, root.stage = "attention", NEW w \in Workers, NEW b \in core[w].finished,
                      NEW c \in 1 .. Chunks
               PROVE  gm[TargetOf(b)][HeadOf(b)][c] = root.layer
    BY DEF CompleteMeansLanded
  <2>1. Inv(core, gm, net, wo, root) /\ core[w] \in Core
    BY DEF HInv, Inv, Typed
  <2>2. b \in Blocks /\ TargetOf(b) \in Workers
    BY <2>1, GeometryType DEF Core
  <2>3. Open(core, root, TargetOf(b))
    BY <2>1, <2>2 DEF Inv, PhaseInv
  <2>4. HeadOf(b) \in core[TargetOf(b)].landed
    BY <2>1, <2>2, <2>3 DEF Inv, BlockInv
  <2> QED BY <2>1, <2>2, <2>3, <2>4 DEF Inv, MemoryInv
<1> QED BY <1>1, HandoffInvariant, PTL

(* A head that Wo has still to read holds the bytes of Wo's own layer, leased
   (acquire, release) or relocated (consume). *)
THEOREM HandoffWoInputIntact == Spec => []WoInputIntact
<1>1. HInv => WoInputIntact
  <2> SUFFICES ASSUME HInv, NEW w \in Workers, wo[w].running, NEW h \in wo[w].unread,
                      NEW c \in 1 .. Chunks
               PROVE  gm[w][h][c] = wo[w].layer
    BY DEF WoInputIntact
  <2>1. Inv(core, gm, net, wo, root) /\ wo[w] \in Wo
    BY DEF HInv, Inv, Typed
  <2>2. h \in Heads
    BY <2>1 DEF Wo
  <2>3. wo[w].layer = root.layer
    BY <2>1, RunningFacts
  <2> QED BY <2>1, <2>2, <2>3 DEF Inv, MemoryInv
<1> QED BY <1>1, HandoffInvariant, PTL

LEMMA LayerEpoch == \A l \in 1 .. Layers : l \in Epochs
BY HandoffAssumption DEF Epochs

LEMMA FirstIndex == \A n \in Nat \ {0} : 1 \in 1 .. n
OBVIOUS

-----------------------------------------------------------------------------
(* One custodian. *)

\* A step on one core keeps the messages if each entry it removes is put
\* elsewhere or belongs to an executor it frees.
LEMMA HeldMove ==
    ASSUME NEW c \in [Workers -> Core], NEW n, Held(c, n), NEW w \in Workers, NEW x \in Core, NEW m,
           \A p \in Workers : Carries(c[w], p) \/ Travels(n, p) =>
              Carries(x, p) \/ Travels(m, p) \/ With(c, w, x)[p].pv = NoBlock,
           x.pv # NoBlock => c[w].pv # NoBlock \/ Carries(x, w)
    PROVE  Held(With(c, w, x), m)
<1> DEFINE d == With(c, w, x)
<1>1. d[w] = x /\ \A v \in Workers : v # w => d[v] = c[v]
  BY WithFacts
<1> HIDE DEF d
<1> SUFFICES ASSUME NEW p \in Workers, d[p].pv # NoBlock
             PROVE  (\E v \in Workers : Carries(d[v], p)) \/ Travels(m, p)
  BY DEF Held, d
<1>2. CASE Carries(x, p)
  BY <1>1, <1>2
<1>3. CASE c[p].pv # NoBlock
  <2>1. (\E v \in Workers : Carries(c[v], p)) \/ Travels(n, p)
    BY <1>3 DEF Held
  <2>2. CASE Carries(c[w], p) \/ Travels(n, p)
    BY <1>1, <2>2 DEF d
  <2> QED BY <1>1, <2>1, <2>2
<1> QED BY <1>1, <1>2, <1>3

\* What a worker carries is in its queues.
LEMMA SameCarries ==
    ASSUME NEW x, NEW y, y.outgoing = x.outgoing, y.incoming = x.incoming
    PROVE  \A p : Carries(x, p) => Carries(y, p)
BY DEF Carries

\* A message that is queued is carried, with all that was.
LEMMA EnqueueCarries ==
    ASSUME NEW x \in Core, NEW msg \in Message, ~Enqueue(x, msg).fault
    PROVE  /\ Enqueue(x, msg).pv = x.pv /\ Carries(Enqueue(x, msg), msg.owner)
           /\ \A p : Carries(x, p) => Carries(Enqueue(x, msg), p)
<1> DEFINE y == [x EXCEPT !.outgoing = Append(x.outgoing, msg)]
<1>1. Enqueue(x, msg) = y
  BY DEF Enqueue, Throw, Core
<1>2. y.pv = x.pv /\ y.incoming = x.incoming /\ y.outgoing = Append(x.outgoing, msg)
  BY DEF Core
<1>3. x.outgoing \in Seq(Message)
  BY DEF Core
<1> HIDE DEF y
<1>4. /\ Len(x.outgoing) \in Nat /\ Len(y.outgoing) = Len(x.outgoing) + 1
      /\ \A i \in 1 .. Len(x.outgoing) : y.outgoing[i] = x.outgoing[i]
      /\ y.outgoing[Len(x.outgoing) + 1] = msg
  <2>1. Appended(Message, x.outgoing, msg)
    BY <1>3, AppendFacts
  <2> QED BY <1>2, <2>1 DEF Appended
<1>5. /\ Len(x.outgoing) + 1 \in 1 .. Len(y.outgoing)
      /\ \A i \in 1 .. Len(x.outgoing) : i \in 1 .. Len(y.outgoing)
  BY <1>4
<1> QED BY <1>1, <1>2, <1>4, <1>5 DEF Carries

\* A payload that is received waits for its landing; an ACK frees its executor.
LEMMA ReceiveCarries ==
    ASSUME NEW x \in Core, NEW w \in Workers, NEW f \in Message, ~Receive(x, w, f).fault
    PROVE  /\ \A p : Carries(x, p) => Carries(Receive(x, w, f), p)
           /\ Receive(x, w, f).pv # NoBlock => x.pv # NoBlock
           /\ Carries(Receive(x, w, f), f.owner) \/ (f.owner = w /\ Receive(x, w, f).pv = NoBlock)
<1>1. CASE f.kind = "Ack"
  <2> DEFINE y == [x EXCEPT !.pending = x.pending \ {f.key}, !.finished = x.finished \cup {f.key.block},
                            !.pv = NoBlock]
  <2>1. Receive(x, w, f) = y /\ f.owner = w
    BY <1>1 DEF Receive, ReceiveAck, Throw, Core
  <2>2. y.pv = NoBlock /\ y.incoming = x.incoming /\ y.outgoing = x.outgoing
    BY DEF Core
  <2> QED BY <2>1, <2>2 DEF Carries
<1>2. CASE f.kind # "Ack"
  <2> DEFINE land == [msg |-> f, offset |-> 0]
             y == [x EXCEPT !.received = x.received \cup {f.head}, !.incoming = Append(x.incoming, land)]
  <2>1. Receive(x, w, f) = y
    BY <1>2 DEF Receive, ReceiveData, Throw, Core
  <2>2. y.pv = x.pv /\ y.incoming = Append(x.incoming, land) /\ y.outgoing = x.outgoing
    BY DEF Core
  <2>3. x.incoming \in Seq(Landing) /\ land \in Landing /\ land.msg = f
    BY HandoffAssumption DEF Core, Landing
  <2> HIDE DEF y, land
  <2>4. /\ Len(x.incoming) \in Nat /\ Len(y.incoming) = Len(x.incoming) + 1
        /\ \A i \in 1 .. Len(x.incoming) : y.incoming[i] = x.incoming[i]
        /\ y.incoming[Len(x.incoming) + 1] = land
    <3>1. Appended(Landing, x.incoming, land)
      BY <2>3, AppendFacts
    <3> QED BY <2>2, <3>1 DEF Appended
  <2>5. /\ Len(x.incoming) + 1 \in 1 .. Len(y.incoming)
        /\ \A i \in 1 .. Len(x.incoming) : i \in 1 .. Len(y.incoming)
    BY <2>4
  <2> QED BY <2>1, <2>2, <2>3, <2>4, <2>5 DEF Carries
<1> QED BY <1>1, <1>2

\* All but the front entry of a queue stay.
LEMMA TailStays ==
    ASSUME NEW S, NEW s \in Seq(S), s # <<>>, NEW i \in 1 .. Len(s), i # 1
    PROVE  i - 1 \in 1 .. Len(Tail(s)) /\ Tail(s)[i - 1] = s[i]
OBVIOUS

\* The front message of the outgoing queue reaches the network or the own core.
LEMMA PumpCarries ==
    ASSUME NEW x \in Core, NEW w \in Workers, ~PumpOutgoing(x, w).fault
    PROVE  /\ PumpOutgoing(x, w).pv # NoBlock => x.pv # NoBlock
           /\ \A p : Carries(x, p) =>
                 \/ Carries(PumpOutgoing(x, w), p)
                 \/ Travels(PumpedMessages(x, w), p)
                 \/ p = w /\ PumpOutgoing(x, w).pv = NoBlock
<1>1. CASE x.outgoing = <<>>
  <2>1. PumpOutgoing(x, w) = x
    BY <1>1 DEF PumpOutgoing
  <2> QED BY <2>1
<1>2. CASE x.outgoing # <<>>
  <2> DEFINE f == Head(x.outgoing)
             y == [x EXCEPT !.outgoing = Tail(x.outgoing)]
  <2>1. x.outgoing \in Seq(Message)
    BY DEF Core
  <2>2. f \in Message /\ f = x.outgoing[1] /\ Tail(x.outgoing) \in Seq(Message)
    BY <1>2, <2>1, TailFacts
  <2>3. y \in Core /\ y.pv = x.pv /\ y.incoming = x.incoming /\ y.outgoing = Tail(x.outgoing)
    BY <2>2 DEF Core
  <2>4. PumpOutgoing(x, w) = IF Dest(f) = w THEN Receive(y, w, f) ELSE y
    BY <1>2 DEF PumpOutgoing
  <2>5. PumpedMessages(x, w) = IF Dest(f) = w THEN {} ELSE {f}
    BY <1>2 DEF PumpedMessages
  <2> HIDE DEF f, y
  <2>6. ASSUME NEW p, Carries(x, p) PROVE Carries(y, p) \/ p = f.owner
    <3>1. CASE \E i \in 1 .. Len(x.outgoing) : x.outgoing[i].owner = p
      <4>1. PICK i \in 1 .. Len(x.outgoing) : x.outgoing[i].owner = p
        BY <3>1
      <4>2. CASE i = 1
        BY <2>2, <4>1, <4>2
      <4>3. CASE i # 1
        <5>1. i - 1 \in 1 .. Len(Tail(x.outgoing)) /\ Tail(x.outgoing)[i - 1] = x.outgoing[i]
          BY <1>2, <2>1, <4>3, TailStays
        <5> QED BY <2>3, <4>1, <5>1 DEF Carries
      <4> QED BY <4>2, <4>3
    <3>2. CASE \E i \in 1 .. Len(x.incoming) : x.incoming[i].msg.owner = p
      BY <2>3, <3>2 DEF Carries
    <3> QED BY <2>6, <3>1, <3>2 DEF Carries
  <2>7. CASE Dest(f) = w
    <3>0. PumpOutgoing(x, w) = Receive(y, w, f)
      BY <2>4, <2>7
    <3>1. /\ \A p : Carries(y, p) => Carries(Receive(y, w, f), p)
          /\ Receive(y, w, f).pv # NoBlock => y.pv # NoBlock
          /\ Carries(Receive(y, w, f), f.owner) \/ (f.owner = w /\ Receive(y, w, f).pv = NoBlock)
      BY <2>2, <2>3, <3>0, ReceiveCarries
    <3> QED BY <2>3, <2>6, <3>0, <3>1
  <2>8. CASE Dest(f) # w
    <3>1. Travels(PumpedMessages(x, w), f.owner)
      BY <2>5, <2>8 DEF Travels
    <3>2. PumpOutgoing(x, w) = y
      BY <2>4, <2>8
    <3> QED BY <2>3, <2>6, <3>1, <3>2
  <2> QED BY <2>7, <2>8
<1> QED BY <1>1, <1>2

\* A landing stays in its queue until its ACK is in the other one.
LEMMA LandedCarries ==
    ASSUME NEW x \in Core, NEW w \in Workers, x.incoming # <<>>, ~Landed(x, w).fault,
           Head(x.incoming).offset < Chunks
    PROVE  Landed(x, w).pv = x.pv /\ \A p : Carries(x, p) => Carries(Landed(x, w), p)
<1> DEFINE front == Head(x.incoming)
           cur == [front EXCEPT !.offset = front.offset + 1]
           ack == [cur.msg EXCEPT !.kind = "Ack", !.worker = w]
           more == [x EXCEPT !.landingPending = FALSE, !.incoming = <<cur>> \o Tail(x.incoming)]
           last == [x EXCEPT !.landingPending = FALSE, !.landed = x.landed \cup {cur.msg.head},
                             !.incoming = Tail(x.incoming)]
<1>1. Landed(x, w) = IF cur.offset # Chunks THEN more ELSE Enqueue(last, ack)
  BY Zenon DEF Landed
<1>2. x.incoming \in Seq(Landing)
  BY DEF Core
<1>3. /\ front \in Landing /\ front = x.incoming[1] /\ Tail(x.incoming) \in Seq(Landing)
      /\ Len(x.incoming) \in Nat \ {0} /\ Len(Tail(x.incoming)) = Len(x.incoming) - 1
      /\ \A i \in 1 .. Len(Tail(x.incoming)) : Tail(x.incoming)[i] = x.incoming[i + 1]
  BY <1>2, TailFacts
<1>4. front.msg \in Message /\ front.offset + 1 \in 0 .. Chunks
  BY <1>3, HandoffAssumption DEF Landing
<1>5. cur \in Landing /\ cur.msg = front.msg
  <2> HIDE DEF front
  <2> QED BY <1>3, <1>4, Zenon DEF Landing
<1>6. ack \in Message /\ ack.owner = front.msg.owner
  <2>1. ack = [front.msg EXCEPT !.kind = "Ack", !.worker = w]
    BY <1>5
  <2> HIDE DEF front, cur, ack
  <2> QED BY <1>4, <2>1 DEF Message
<1>7. /\ more.pv = x.pv /\ more.outgoing = x.outgoing /\ more.incoming = <<cur>> \o Tail(x.incoming)
      /\ last.pv = x.pv /\ last.outgoing = x.outgoing /\ last.incoming = Tail(x.incoming)
  <2> HIDE DEF cur
  <2> QED BY DEF Core
<1>8. last \in Core
  <2>1. x.landed \cup {cur.msg.head} \in SUBSET Heads
    BY <1>4, <1>5 DEF Core, Message
  <2> HIDE DEF cur
  <2> QED BY <1>3, <2>1 DEF Core
<1> HIDE DEF more, last, ack
<1>9. CASE cur.offset # Chunks
  <2> HIDE DEF cur, front
  <2>1. /\ Len(more.incoming) = Len(x.incoming) /\ more.incoming[1] = cur
        /\ \A i \in 1 .. Len(x.incoming) : i # 1 => more.incoming[i] = x.incoming[i]
    BY <1>3, <1>5, <1>7
  <2>2. \A i \in 1 .. Len(x.incoming) : more.incoming[i].msg = x.incoming[i].msg
    BY <1>3, <1>5, <2>1
  <2>3. \A p : Carries(x, p) => Carries(more, p)
    BY <1>7, <2>1, <2>2 DEF Carries
  <2> QED BY <1>1, <1>7, <1>9, <2>3
<1>10. CASE cur.offset = Chunks
  <2>1. Landed(x, w) = Enqueue(last, ack)
    BY <1>1, <1>10
  <2>2. /\ Enqueue(last, ack).pv = last.pv /\ Carries(Enqueue(last, ack), ack.owner)
        /\ \A p : Carries(last, p) => Carries(Enqueue(last, ack), p)
    BY <1>6, <1>8, <2>1, EnqueueCarries
  <2> HIDE DEF cur, front
  <2>3. ASSUME NEW p, Carries(x, p) PROVE Carries(last, p) \/ p = ack.owner
    <3>1. CASE \E i \in 1 .. Len(x.incoming) : x.incoming[i].msg.owner = p
      <4>1. PICK i \in 1 .. Len(x.incoming) : x.incoming[i].msg.owner = p
        BY <3>1
      <4>2. CASE i = 1
        BY <1>3, <1>6, <4>1, <4>2
      <4>3. CASE i # 1
        <5>1. i - 1 \in 1 .. Len(Tail(x.incoming)) /\ Tail(x.incoming)[i - 1] = x.incoming[i]
          BY <1>2, <4>3, TailStays
        <5> QED BY <1>7, <4>1, <5>1 DEF Carries
      <4> QED BY <4>2, <4>3
    <3>2. CASE \E i \in 1 .. Len(x.outgoing) : x.outgoing[i].owner = p
      BY <1>7, <3>2 DEF Carries
    <3> QED BY <2>3, <3>1, <3>2 DEF Carries
  <2> QED BY <1>7, <2>1, <2>2, <2>3
<1> QED BY <1>9, <1>10

\* Queues and executors that do not change.
LEMMA HeldSame ==
    ASSUME NEW c, NEW d, NEW n, Held(c, n),
           \A v \in Workers :
              d[v].pv = c[v].pv /\ d[v].outgoing = c[v].outgoing /\ d[v].incoming = c[v].incoming
    PROVE  Held(d, n)
<1>1. \A v \in Workers : \A p : Carries(c[v], p) <=> Carries(d[v], p)
  BY DEF Carries
<1> QED BY <1>1 DEF Held

LEMMA NothingLostNext ==
    ASSUME HInv, HInv', NothingLost, [Next]_vars
    PROVE  NothingLost'
<1>1. /\ core \in [Workers -> Core] /\ net \subseteq Message /\ Held(core, net)
      /\ core' \in [Workers -> Core] /\ \A w \in Workers : ~core'[w].fault
  BY DEF HInv, Inv, Typed, MemoryInv, NothingLost
<1>2. ASSUME NEW p \in Producers, NEW b \in Blocks, Dispatch(p, b) PROVE NothingLost'
  <2> DEFINE key == [block |-> b, epoch |-> root.layer]
             msg == [kind |-> "Data", owner |-> p, worker |-> TargetOf(b), head |-> HeadOf(b), key |-> key]
             x == [core[p] EXCEPT !.pv = b]
             y == [core[p] EXCEPT !.pv = b, !.pending = {key}]
             z == Enqueue(y, msg)
  <2>1. p \in Workers /\ core[p] \in Core /\ core[p].pending = {} /\ root.layer \in 1 .. Layers
    BY <1>1, <1>2, HandoffAssumption DEF HInv, Inv, Typed, PvInv, Root, Dispatch
  <2>2. key \in Key
    <3>1. root.layer \in Epochs
      BY <2>1, LayerEpoch
    <3> QED BY <3>1 DEF Key
  <2>3. msg \in Message /\ msg.owner = p
    BY <2>1, <2>2, GeometryType DEF Message
  <2>4. /\ y \in Core /\ y.outgoing = core[p].outgoing /\ y.incoming = core[p].incoming
        /\ x.pending = {} /\ y = [x EXCEPT !.pending = {key}]
    <3> HIDE DEF key
    <3> QED BY <2>1, <2>2 DEF Core
  <2>5. DispatchTo(x, p, b, root.layer) = z
    <3> HIDE DEF x, y
    <3> QED BY <2>4, Zenon DEF DispatchTo
  <2>6. core' = With(core, p, z) /\ net' = net
    BY <1>2, <2>5 DEF Dispatch, With
  <2> HIDE DEF z, y, msg
  <2>7. core'[p] = z /\ z \in Core /\ ~z.fault
    BY <1>1, <2>1, <2>6 DEF With
  <2>8. Carries(z, p) /\ \A q : Carries(y, q) => Carries(z, q)
    BY <2>3, <2>4, <2>7, EnqueueCarries DEF z
  <2>9. \A q : Carries(core[p], q) => Carries(z, q)
    <3>1. \A q : Carries(core[p], q) => Carries(y, q)
      BY <2>4, SameCarries
    <3> QED BY <3>1, <2>8
  <2> QED BY <1>1, <2>1, <2>6, <2>7, <2>8, <2>9, HeldMove DEF NothingLost
<1>3. ASSUME NEW w \in Workers, NEW accepted \in BOOLEAN, Tick(w, accepted) PROVE NothingLost'
  <2> DEFINE x == PumpOutgoing(core[w], w)
             m == PumpedMessages(core[w], w)
             y == [x EXCEPT !.landingPending = accepted]
             z == IF x.landingPending \/ x.incoming = <<>> THEN x ELSE y
  <2>1. x \in Core
    BY Pumped, OwnersBounded DEF HInv
  <2>2. core' = With(core, w, z) /\ net' = net \cup m
    BY <1>3 DEF Tick, With
  <2> HIDE DEF x
  <2>3. y \in Core /\ y.outgoing = x.outgoing /\ y.incoming = x.incoming /\ y.pv = x.pv /\ y.fault = x.fault
    BY <2>1 DEF Core
  <2> HIDE DEF y
  <2>4. /\ z \in Core /\ z.outgoing = x.outgoing /\ z.incoming = x.incoming /\ z.pv = x.pv
        /\ z.fault = x.fault
    BY <2>1, <2>3
  <2> HIDE DEF z, m
  <2>5. core'[w] = z /\ ~x.fault
    BY <1>1, <2>2, <2>4 DEF With
  <2>6. /\ x.pv # NoBlock => core[w].pv # NoBlock
        /\ \A p : Carries(core[w], p) => Carries(x, p) \/ Travels(m, p) \/ (p = w /\ x.pv = NoBlock)
    BY <1>1, <2>5, PumpCarries DEF x, m
  <2>7. \A p : Carries(x, p) <=> Carries(z, p)
    BY <2>4 DEF Carries
  <2>8. \A p : Travels(net, p) \/ Travels(m, p) => Travels(net', p)
    BY <2>2 DEF Travels
  <2>9. With(core, w, z)[w].pv = x.pv
    BY <2>2, <2>4, <2>5
  <2>10. \A p \in Workers : Carries(core[w], p) \/ Travels(net, p) =>
            Carries(z, p) \/ Travels(net', p) \/ With(core, w, z)[p].pv = NoBlock
    BY <2>6, <2>7, <2>8, <2>9
  <2>11. Held(With(core, w, z), net')
    BY <1>1, <2>4, <2>6, <2>10, HeldMove
  <2> QED BY <2>2, <2>11 DEF NothingLost
<1>4. ASSUME NEW w \in Workers, LandingAck(w) PROVE NothingLost'
  <2> DEFINE x == Landed(core[w], w)
  <2>1. core' = With(core, w, x) /\ net' = net /\ core[w].landingPending
    BY <1>4 DEF LandingAck, With
  <2> HIDE DEF x
  <2>2. core'[w] = x /\ x \in Core /\ ~x.fault /\ core[w] \in Core
    BY <1>1, <2>1 DEF With
  <2>3. core[w].incoming # <<>> /\ core[w].incoming \in Seq(Landing)
    BY <2>1, <2>2 DEF HInv, Inv, MemoryInv, Core
  <2>4. Head(core[w].incoming) = core[w].incoming[1] /\ 1 \in 1 .. Len(core[w].incoming)
    <3>1. Len(core[w].incoming) \in Nat \ {0} /\ Head(core[w].incoming) = core[w].incoming[1]
      BY <2>3, TailFacts
    <3> QED BY <3>1, FirstIndex
  <2>5. Head(core[w].incoming).offset < Chunks
    <3>1. InInv(core, gm, root)
      BY DEF HInv, Inv
    <3>2. InOk(core, gm, root, w, core[w].incoming[1])
      BY <2>4, <3>1 DEF InInv, InIx, InAt
    <3> QED BY <2>4, <3>2 DEF InOk
  <2>6. x.pv = core[w].pv /\ \A p : Carries(core[w], p) => Carries(x, p)
    BY <2>2, <2>3, <2>5, LandedCarries DEF x
  <2> QED BY <1>1, <2>1, <2>2, <2>6, HeldMove DEF NothingLost
<1>5. ASSUME NEW msg \in net, Deliver(msg) PROVE NothingLost'
  <2> DEFINE w == Dest(msg)
             x == Receive(core[w], w, msg)
  <2>1. w \in Workers /\ x \in Core /\ msg \in Message
    BY <1>1, Received, OwnersBounded DEF HInv
  <2>2. core' = With(core, w, x) /\ net' = net \ {msg}
    BY <1>5 DEF Deliver, With
  <2> HIDE DEF w, x
  <2>3. core'[w] = x /\ ~x.fault /\ core[w] \in Core
    BY <1>1, <2>1, <2>2 DEF With
  <2>4. /\ \A p : Carries(core[w], p) => Carries(x, p)
        /\ x.pv # NoBlock => core[w].pv # NoBlock
        /\ Carries(x, msg.owner) \/ (msg.owner = w /\ x.pv = NoBlock)
    BY <2>1, <2>3, ReceiveCarries DEF x
  <2>5. \A p : Travels(net, p) => Travels(net', p) \/ p = msg.owner
    BY <2>2 DEF Travels
  <2>6. With(core, w, x)[w].pv = x.pv
    BY <2>2, <2>3
  <2>7. \A p \in Workers : Carries(core[w], p) \/ Travels(net, p) =>
           Carries(x, p) \/ Travels(net', p) \/ With(core, w, x)[p].pv = NoBlock
    BY <2>4, <2>5, <2>6
  <2>8. Held(With(core, w, x), net')
    BY <1>1, <2>1, <2>4, <2>7, HeldMove
  <2> QED BY <2>2, <2>8 DEF NothingLost
<1>6. ASSUME NEW w \in Workers, StartWo(w) \/ FinishWo(w) PROVE NothingLost'
  <2>1. net' = net
    BY <1>6 DEF StartWo, FinishWo
  <2>2. ASSUME NEW v \in Workers
        PROVE  /\ core'[v].pv = core[v].pv /\ core'[v].outgoing = core[v].outgoing
               /\ core'[v].incoming = core[v].incoming
    <3>1. core[v] \in Core
      BY <1>1
    <3>2. core'[v] \in {core[v], Throw(core[v]), Acquire(core[v]), Consume(core[v]), Release(core[v], wo[v].layer)}
      BY <1>1, <1>6 DEF StartWo, FinishWo
    <3> QED BY <3>1, <3>2 DEF Throw, Acquire, Consume, Release, RetireGeneration, Core
  <2> QED BY <1>1, <2>1, <2>2, HeldSame DEF NothingLost
<1>7. CASE BeginLayer
  <2>1. net' = net
    BY <1>7 DEF BeginLayer
  <2>2. ASSUME NEW v \in Workers
        PROVE  /\ core'[v].pv = core[v].pv /\ core'[v].outgoing = core[v].outgoing
               /\ core'[v].incoming = core[v].incoming
    <3>1. core[v] \in Core /\ core'[v] = [core[v] EXCEPT !.finished = {}]
      BY <1>1, <1>7 DEF BeginLayer
    <3> QED BY <3>1 DEF Core
  <2> QED BY <1>1, <2>1, <2>2, HeldSame DEF NothingLost
<1>8. ASSUME UNCHANGED <<core, net>> PROVE NothingLost'
  BY <1>1, <1>8 DEF NothingLost
<1>9. ASSUME NEW w \in Workers, NEW h \in Heads, ReadHead(w, h) PROVE NothingLost'
  BY <1>8, <1>9 DEF ReadHead
<1>10. CASE ReleaseDecoder \/ Idle \/ UNCHANGED vars
  BY <1>8, <1>10 DEF ReleaseDecoder, Idle, vars
<1> QED BY <1>2, <1>3, <1>4, <1>5, <1>6, <1>7, <1>9, <1>10 DEF Next

\* The payload or the ACK of an executor that waits exists: with the
\* uniqueness in HInv, a custodian and no more than one.
THEOREM HandoffNothingLost == Spec => []NothingLost
<1>1. Init => NothingLost
  <2>1. Init => \A p \in Workers : core[p].pv = NoBlock
    BY DEF Init, NewCore
  <2> QED BY <2>1 DEF NothingLost, Held
<1> QED BY <1>1, NothingLostNext, HandoffInvariant, PTL DEF Spec

LEMMA CopyPlaces ==
    ASSUME NEW k, NEW e
    PROVE  e \in Copies(k) <=>
              \/ \E w \in Workers : \E i \in DOMAIN core[w].outgoing :
                    e = <<"outgoing", w, i>> /\ core[w].outgoing[i].key = k
              \/ \E w \in Workers : \E i \in DOMAIN core[w].incoming :
                    e = <<"incoming", w, i>> /\ core[w].incoming[i].msg.key = k
              \/ e \in net /\ e.key = k
<1> DEFINE OutOf(w) == {<<"outgoing", w, i>> : i \in {j \in DOMAIN core[w].outgoing :
                            core[w].outgoing[j].key = k}}
           InOf(w) == {<<"incoming", w, i>> : i \in {j \in DOMAIN core[w].incoming :
                            core[w].incoming[j].msg.key = k}}
<1>1. Copies(k) = (UNION {OutOf(w) : w \in Workers}) \cup (UNION {InOf(w) : w \in Workers})
                  \cup {msg \in net : msg.key = k}
  BY DEF Copies
<1>2. ASSUME NEW w \in Workers
      PROVE  /\ e \in OutOf(w) <=> \E i \in DOMAIN core[w].outgoing :
                                      e = <<"outgoing", w, i>> /\ core[w].outgoing[i].key = k
             /\ e \in InOf(w) <=> \E i \in DOMAIN core[w].incoming :
                                     e = <<"incoming", w, i>> /\ core[w].incoming[i].msg.key = k
  OBVIOUS
<1> HIDE DEF OutOf, InOf
<1> QED BY <1>1, <1>2

\* A place that holds k, seen from the message in it.
LEMMA CopyOwner ==
    ASSUME HInv, NEW k \in Key, NEW e \in Copies(k)
    PROVE  \E p \in Producers :
              /\ k \in core[p].pending
              /\ \/ \E w \in Workers : \E i \in OutIx(core, w) :
                       e = <<"outgoing", w, i>> /\ OutAt(core, w, i).owner = p
                 \/ \E w \in Workers : \E i \in InIx(core, w) :
                       e = <<"incoming", w, i>> /\ InAt(core, w, i).msg.owner = p
                 \/ e \in net /\ e.owner = p
<1>1. /\ core \in [Workers -> Core] /\ OutInv(core, root) /\ NetInv(core, net, root)
      /\ InInv(core, gm, root) /\ PvInv(core, root)
  BY DEF HInv, Inv, Typed
<1>2. \A w \in Workers : DOMAIN core[w].outgoing = OutIx(core, w) /\ DOMAIN core[w].incoming = InIx(core, w)
  <2> SUFFICES ASSUME NEW w \in Workers
               PROVE  DOMAIN core[w].outgoing = OutIx(core, w) /\ DOMAIN core[w].incoming = InIx(core, w)
    OBVIOUS
  <2>1. core[w].outgoing \in Seq(Message) /\ core[w].incoming \in Seq(Landing)
    BY <1>1 DEF Core
  <2> QED BY <2>1 DEF OutIx, InIx
<1>3. k = [block |-> k.block, epoch |-> k.epoch] /\ k.block \in Blocks
  BY DEF Key
<1>4. ASSUME NEW msg, Wellformed(core, root, msg), msg.key = k
      PROVE  msg.owner \in Producers /\ k \in core[msg.owner].pending
  <2>1. msg.owner \in Producers /\ core[msg.owner].pv = k.block /\ k.epoch = root.layer
    BY <1>4 DEF Wellformed
  <2>2. msg.owner \in Workers /\ core[msg.owner].pv # NoBlock
    BY <1>3, <2>1, NoBlockIsNone, HandoffAssumption
  <2>3. core[msg.owner].pending = {[block |-> core[msg.owner].pv, epoch |-> root.layer]}
    BY <1>1, <2>2 DEF PvInv
  <2> QED BY <1>3, <2>1, <2>3
<1>5. \/ \E w \in Workers : \E i \in OutIx(core, w) : e = <<"outgoing", w, i>> /\ OutAt(core, w, i).key = k
      \/ \E w \in Workers : \E i \in InIx(core, w) : e = <<"incoming", w, i>> /\ InAt(core, w, i).msg.key = k
      \/ e \in net /\ e.key = k
  BY <1>2, CopyPlaces DEF OutAt, InAt
<1>6. ASSUME NEW w \in Workers, NEW i \in OutIx(core, w) PROVE Wellformed(core, root, OutAt(core, w, i))
  BY <1>1 DEF OutInv, OutOk
<1>7. ASSUME NEW w \in Workers, NEW i \in InIx(core, w) PROVE Wellformed(core, root, InAt(core, w, i).msg)
  BY <1>1 DEF InInv, InOk
<1>8. ASSUME NEW y \in net PROVE Wellformed(core, root, y)
  BY <1>1 DEF NetInv
<1> QED BY <1>4, <1>5, <1>6, <1>7, <1>8

(* One custodian: an unacknowledged block has exactly one copy, as payload or
   as ACK, in the queues of pvWoHandoff.h and on the network, and a block that
   is not pending has none. *)
THEOREM HandoffOneCustodian == Spec => []OneCustodian
<1>1. HInv /\ NothingLost => OneCustodian
  <2> SUFFICES ASSUME HInv, NothingLost, NEW k \in Key
               PROVE  Cardinality(Copies(k)) = Cardinality({p \in Producers : k \in core[p].pending})
    BY DEF OneCustodian
  <2> DEFINE P == {p \in Producers : k \in core[p].pending}
  <2>1. core \in [Workers -> Core] /\ PvInv(core, root) /\ Unique(core, net)
    BY DEF HInv, Inv, Typed
  <2>2. CASE P = {}
    <3>1. Copies(k) = {}
      BY <2>2, CopyOwner
    <3> QED BY <2>2, <3>1
  <2>3. ASSUME NEW p \in P PROVE Cardinality(Copies(k)) = Cardinality(P)
    <3>1. p \in Workers /\ core[p].pv # NoBlock /\ k = [block |-> core[p].pv, epoch |-> root.layer]
      BY <2>1, HandoffAssumption DEF PvInv
    <3>2. ASSUME NEW q \in P PROVE q = p
      <4>1. q \in Workers /\ k = [block |-> core[q].pv, epoch |-> root.layer]
        BY <2>1, HandoffAssumption DEF PvInv
      <4>2. core[q].pv = core[p].pv
        BY <3>1, <4>1
      <4> QED BY <2>1, <3>1, <4>1, <4>2 DEF PvInv
    <3>3. P = {p}
      BY <3>2
    <3> HIDE DEF P
    <3>4. \E e : e \in Copies(k)
      <4>1. ASSUME NEW msg \in Message, Wellformed(core, root, msg), msg.owner = p PROVE msg.key = k
        <5>1. msg.key = [block |-> msg.key.block, epoch |-> msg.key.epoch]
          BY DEF Message, Key
        <5>2. msg.key.block = core[p].pv /\ msg.key.epoch = root.layer
          BY <4>1 DEF Wellformed
        <5> QED BY <3>1, <5>1, <5>2
      <4>2. (\E w \in Workers : Carries(core[w], p)) \/ Travels(net, p)
        BY <3>1 DEF NothingLost, Held
      <4>3. ASSUME NEW w \in Workers, NEW i \in 1 .. Len(core[w].outgoing), core[w].outgoing[i].owner = p
            PROVE  <<"outgoing", w, i>> \in Copies(k)
        <5>1. core[w].outgoing \in Seq(Message)
          BY <2>1 DEF Core
        <5>2. i \in DOMAIN core[w].outgoing /\ core[w].outgoing[i] \in Message
          BY <5>1
        <5>3. Wellformed(core, root, core[w].outgoing[i])
          BY DEF HInv, Inv, OutInv, OutIx, OutAt, OutOk
        <5>4. core[w].outgoing[i].key = k
          BY <4>1, <4>3, <5>2, <5>3
        <5> QED BY <5>2, <5>4, CopyPlaces
      <4>4. ASSUME NEW w \in Workers, NEW i \in 1 .. Len(core[w].incoming), core[w].incoming[i].msg.owner = p
            PROVE  <<"incoming", w, i>> \in Copies(k)
        <5>1. core[w].incoming \in Seq(Landing)
          BY <2>1 DEF Core
        <5>2. i \in DOMAIN core[w].incoming /\ core[w].incoming[i] \in Landing
          BY <5>1
        <5>3. Wellformed(core, root, core[w].incoming[i].msg) /\ core[w].incoming[i].msg \in Message
          BY <5>2 DEF HInv, Inv, InInv, InIx, InAt, InOk, Landing
        <5>4. core[w].incoming[i].msg.key = k
          BY <4>1, <4>4, <5>3
        <5> QED BY <5>2, <5>4, CopyPlaces
      <4>5. ASSUME NEW msg \in net, msg.owner = p PROVE msg \in Copies(k)
        <5>1. Wellformed(core, root, msg) /\ msg \in Message
          BY DEF HInv, Inv, Typed, NetInv
        <5>2. msg.key = k
          BY <4>1, <4>5, <5>1
        <5> QED BY <5>2, CopyPlaces
      <4> QED BY <4>2, <4>3, <4>4, <4>5 DEF Carries, Travels
    <3>5. ASSUME NEW e \in Copies(k)
          PROVE  \/ \E w \in Workers : \E i \in OutIx(core, w) :
                       e = <<"outgoing", w, i>> /\ OutAt(core, w, i).owner = p
                 \/ \E w \in Workers : \E i \in InIx(core, w) :
                       e = <<"incoming", w, i>> /\ InAt(core, w, i).msg.owner = p
                 \/ e \in net /\ e.owner = p
      BY <3>2, CopyOwner DEF P
    <3>6. \A d, e \in Copies(k) : d = e
      BY <2>1, <3>5 DEF Unique
    <3>7. PICK e : Copies(k) = {e}
      BY <3>4, <3>6
    <3> QED BY <3>3, <3>7, FS_Singleton
  <2> QED BY <2>2, <2>3
<1> QED BY <1>1, HandoffInvariant, HandoffNothingLost, PTL
=============================================================================
