-------------------------- MODULE PvWoHandoffInv --------------------------
(***************************************************************************)
(* The inductive invariant behind the safety of PvWoHandoff.               *)
(*                                                                         *)
(* It is written over the values c, g, n, o and r of the variables core,   *)
(* gm, net, wo and root: a step of the code moves a message in two or      *)
(* three stages (taken from a queue, handled, queued again), and the proof *)
(* follows them one at a time.                                             *)
(***************************************************************************)
EXTENDS PvWoHandoff

Typed(c, g, n, o, r) ==
    /\ c \in [Workers -> Core]
    /\ g \in [Workers -> [Heads -> [1 .. Chunks -> Epochs]]]
    /\ n \in SUBSET Message
    /\ o \in [Workers -> Wo]
    /\ r \in Root

\* A message carries the block its owner holds, of this layer, to the worker
\* and for the head that the block's geometry gives.
Wellformed(c, r, msg) ==
    /\ msg.owner \in Producers
    /\ c[msg.owner].pv = msg.key.block
    /\ msg.key.epoch = r.layer
    /\ msg.worker = TargetOf(msg.key.block)
    /\ msg.head = HeadOf(msg.key.block)

\* A payload under way has not been received, one whose ACK is under way has
\* landed.
Tracked(c, msg) ==
    /\ msg.kind = "Data" => msg.head \notin c[msg.worker].received
    /\ msg.kind = "Ack" => msg.head \in c[msg.worker].landed
                           /\ msg.head \in c[msg.worker].received

\* Entries of the queues of worker w.
OutIx(c, w)    == 1 .. Len(c[w].outgoing)
OutAt(c, w, i) == c[w].outgoing[i]
InIx(c, w)     == 1 .. Len(c[w].incoming)
InAt(c, w, i)  == c[w].incoming[i]

\* A message may be queued at worker w: at its sender.
OutOk(c, r, w, msg) ==
    /\ Wellformed(c, r, msg) /\ Tracked(c, msg)
    /\ w = IF msg.kind = "Data" THEN msg.owner ELSE msg.worker

\* A landing at worker w has been received and is being written.
InOk(c, g, r, w, land) ==
    /\ Wellformed(c, r, land.msg) /\ land.msg.kind = "Data" /\ land.msg.worker = w
    /\ land.msg.head \in c[w].received /\ land.msg.head \notin c[w].landed
    /\ land.offset < Chunks
    /\ \A k \in 1 .. land.offset : g[w][land.msg.head][k] = r.layer

OutInv(c, r)    == \A w \in Workers : \A i \in OutIx(c, w) : OutOk(c, r, w, OutAt(c, w, i))
NetInv(c, n, r) == \A msg \in n : Wellformed(c, r, msg) /\ Tracked(c, msg)
InInv(c, g, r)  == \A w \in Workers : \A i \in InIx(c, w) : InOk(c, g, r, w, InAt(c, w, i))

\* One custodian: no two messages, queued or travelling, have the same owner.
Unique(c, n) ==
    /\ \A w, v \in Workers : \A i \in OutIx(c, w), j \in OutIx(c, v) :
          OutAt(c, w, i).owner = OutAt(c, v, j).owner => w = v /\ i = j
    /\ \A w, v \in Workers : \A i \in InIx(c, w), j \in InIx(c, v) :
          InAt(c, w, i).msg.owner = InAt(c, v, j).msg.owner => w = v /\ i = j
    /\ \A x, y \in n : x.owner = y.owner => x = y
    /\ \A w, v \in Workers : \A i \in OutIx(c, w), j \in InIx(c, v) :
          OutAt(c, w, i).owner # InAt(c, v, j).msg.owner
    /\ \A w \in Workers : \A i \in OutIx(c, w), y \in n : OutAt(c, w, i).owner # y.owner
    /\ \A w \in Workers : \A i \in InIx(c, w), y \in n : InAt(c, w, i).msg.owner # y.owner

\* A PV executor owns its block alone, and "pending" says which.
PvInv(c, r) ==
    \A p \in Workers :
        /\ c[p].pv = NoBlock => c[p].pending = {}
        /\ c[p].pv # NoBlock =>
              /\ p \in Producers /\ r.stage = "attention"
              /\ c[p].pending = {[block |-> c[p].pv, epoch |-> r.layer]}
              /\ c[p].pv \notin r.unstarted
              /\ \A q \in Workers : c[p].pv \notin c[q].finished /\ (q # p => c[q].pv # c[p].pv)
        /\ \A b \in c[p].finished : b \notin r.unstarted

\* The generation of worker w that is being filled is the layer's.
Open(c, r, w) == c[w].consumedEpoch + 1 = r.layer

\* Where worker w is in the layer, and what that means for its generation.
PhaseInv(c, o, r, w) ==
    /\ r.stage = "attention" =>
          Open(c, r, w) /\ ~c[w].leased /\ ~o[w].running /\ o[w].layer = r.layer
    /\ r.stage = "decoder" =>
          /\ o[w].layer \in {r.layer, r.layer + 1}
          /\ o[w].running => o[w].layer = r.layer
          /\ c[w].leased = (o[w].running /\ r.direct)
          /\ IF o[w].layer = r.layer /\ (o[w].running => r.direct)
             THEN Open(c, r, w) ELSE c[w].consumedEpoch = r.layer

\* The landing memory of worker w holds what has landed or is being read.
MemoryInv(c, g, o, r, w) ==
    /\ c[w].landed \subseteq c[w].received
    /\ ~Open(c, r, w) => c[w].received = {} /\ c[w].landed = {}
    /\ Open(c, r, w) => \A h \in c[w].landed : \A k \in 1 .. Chunks : g[w][h][k] = r.layer
    /\ o[w].running => \A h \in Heads : \A k \in 1 .. Chunks : g[w][h][k] = r.layer
    /\ c[w].landingPending => c[w].incoming # <<>>
    /\ ~c[w].fault

\* What the progress of a block says of the masks at its target.
BlockInv(c, r) ==
    \A b \in Blocks :
        /\ r.stage = "attention" /\ b \in r.unstarted =>
              HeadOf(b) \notin c[TargetOf(b)].received
        /\ Open(c, r, TargetOf(b)) /\ (\E q \in Workers : b \in c[q].finished) =>
              HeadOf(b) \in c[TargetOf(b)].received /\ HeadOf(b) \in c[TargetOf(b)].landed
        /\ r.stage = "decoder" => \E q \in Workers : b \in c[q].finished

Inv(c, g, n, o, r) ==
    /\ Typed(c, g, n, o, r)
    /\ OutInv(c, r) /\ NetInv(c, n, r) /\ InInv(c, g, r)
    /\ Unique(c, n)
    /\ PvInv(c, r)
    /\ \A w \in Workers : PhaseInv(c, o, r, w) /\ MemoryInv(c, g, o, r, w)
    /\ BlockInv(c, r)

(* The tokens of the hand-off are tracked: every message belongs to the one
   block its owner holds, the masks of a worker say exactly which blocks have
   arrived and landed, and the landing memory holds their bytes. *)
HInv == Inv(core, gm, net, wo, root)

\* Core record x has a queue entry of producer p; so has the network n.
Carries(x, p) ==
    \/ \E i \in 1 .. Len(x.outgoing) : x.outgoing[i].owner = p
    \/ \E i \in 1 .. Len(x.incoming) : x.incoming[i].msg.owner = p
Travels(n, p) == \E msg \in n : msg.owner = p

(* No block is lost: the payload of an executor that waits, or its ACK, is in
   a queue or on the network. *)
Held(c, n) ==
    \A p \in Workers : c[p].pv # NoBlock => (\E w \in Workers : Carries(c[w], p)) \/ Travels(n, p)
NothingLost == Held(core, net)
=============================================================================
