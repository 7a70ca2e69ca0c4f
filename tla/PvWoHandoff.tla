---------------------------- MODULE PvWoHandoff ----------------------------
(***************************************************************************)
(* The hand-off of attention outputs to the output projection Wo           *)
(* (attention/pvWoHandoff.h).  A PV executor that finishes a 64-row block   *)
(* of one head dispatches it over the control network to the worker whose  *)
(* Wo needs it; the worker lands it in its local memory with timed writes, *)
(* acknowledges, and may start Wo once all heads of the layer have landed. *)
(*                                                                         *)
(* Actors that interleave: the clock of every core, the receive handler,   *)
(* the callback of the local write, the PV executor, Wo, and the guest's   *)
(* root that opens each layer (golem_attention_runtime.cpp).               *)
(*                                                                         *)
(* A payload is the epoch (layer) it was produced in.  The shape checks of *)
(* dispatch and receive are left out: the block geometry is kept.  Every   *)
(* std::logic_error of the class, and the failures its callers treat as    *)
(* fatal, set the field "fault" and stop the system.                       *)
(***************************************************************************)
EXTENDS Integers, Sequences, FiniteSets

CONSTANTS
    Managers,      \* number of query bands (4)
    Lanes,         \* workers per band = query blocks per head (4)
    GroupSize,     \* query heads per K/V head (4)
    KvHeads,       \* K/V heads (8)
    Producers,     \* workers that run PV (cores 12 .. 19)
    QueueBound,    \* bound on incoming_ (8)
    OutgoingBound, \* bound on outgoing_ (16)
    Chunks,        \* local writes per payload
    Layers         \* bound: layers of the stack

Workers == (0 .. Managers - 1) \X (0 .. Lanes - 1)
Heads   == 0 .. KvHeads * GroupSize - 1

\* A block is <<manager, K/V head, block of 64 rows within the band's group>>.
Blocks  == (0 .. Managers - 1) \X (0 .. KvHeads - 1) \X (0 .. GroupSize * Lanes - 1)

ASSUME HandoffAssumption ==
    /\ Managers \in Nat \ {0} /\ Lanes \in Nat \ {0}
    /\ GroupSize \in Nat \ {0} /\ KvHeads \in Nat \ {0}
    /\ Producers \subseteq Workers /\ Producers # {}
    /\ QueueBound \in Nat /\ OutgoingBound \in Nat
    /\ Cardinality(Producers) <= QueueBound
    /\ Cardinality(Producers) < OutgoingBound
    /\ Chunks \in Nat \ {0} /\ Layers \in Nat \ {0}

VARIABLES
    core,   \* core[w]: the PvWoHandoff object of worker w and its PV executor
    gm,     \* gm[w][h][c]: epoch of the bytes in chunk c of head h's landing
    net,    \* messages travelling on the control network
    wo,     \* wo[w]: the guest loop of worker w and its Wo job
    root    \* the guest: layer, its stage, blocks whose PV has not finished

vars == <<core, gm, net, wo, root>>

-----------------------------------------------------------------------------
(* Geometry of dispatch. *)

NoBlock == <<>>

\* Seeded fault: heads are counted from one.
HeadOfOneBased(b) == (b[2] * GroupSize) + (b[3] \div Lanes) + 1

HeadOf(b)   == (b[2] * GroupSize) + (b[3] \div Lanes)
TargetOf(b) == <<b[1], b[3] % Lanes>>

-----------------------------------------------------------------------------
(* State of a core. *)

Epochs  == 0 .. Layers
Key     == [block : Blocks, epoch : Epochs]
Message == [kind : {"Data", "Ack"}, owner : Workers, worker : Workers,
            head : Heads, key : Key]
Landing == [msg : Message, offset : 0 .. Chunks]

Core ==
    [ consumedEpoch  : Epochs,
      received       : SUBSET Heads,
      landed         : SUBSET Heads,
      landingPending : BOOLEAN,
      leased         : BOOLEAN,
      pending        : SUBSET Key,
      incoming       : Seq(Landing),
      outgoing       : Seq(Message),
      pv             : Blocks \cup {NoBlock},  \* block the PV executor holds
      finished       : SUBSET Blocks,          \* PvComplete sent in this layer
      fault          : BOOLEAN ]

Wo   == [layer : 1 .. Layers + 1, running : BOOLEAN, unread : SUBSET Heads]
Root == [layer : 1 .. Layers, stage : {"attention", "decoder"},
         unstarted : SUBSET Blocks, direct : BOOLEAN]

(* Fields keep the ranges of the C++ members: masks over the heads, epochs that
   never pass the layer count, queues of landings and of messages. *)
TypeOK ==
    /\ core \in [Workers -> Core]
    /\ gm \in [Workers -> [Heads -> [1 .. Chunks -> Epochs]]]
    /\ net \in SUBSET Message
    /\ wo \in [Workers -> Wo]
    /\ root \in Root

Dest(msg) == IF msg.kind = "Data" THEN msg.worker ELSE msg.owner

-----------------------------------------------------------------------------
(* Operations of the class on one core record. *)

Throw(c) == [c EXCEPT !.fault = TRUE]

Enqueue(c, msg) ==
    IF Len(c.outgoing) >= OutgoingBound THEN Throw(c)
    ELSE [c EXCEPT !.outgoing = Append(@, msg)]

DispatchTo(c, p, b, epoch) ==
    IF c.pending # {} THEN Throw(c)
    ELSE LET key == [block |-> b, epoch |-> epoch] IN
         Enqueue([c EXCEPT !.pending = {key}],
                 [kind |-> "Data", owner |-> p, worker |-> TargetOf(b),
                  head |-> HeadOf(b), key |-> key])

\* Seeded fault: the executor is released while the block is unacknowledged.
ReceiveAckKeepsPending(c, w, msg) ==
    [c EXCEPT !.finished = @ \cup {msg.key.block}, !.pv = NoBlock]

\* The done callback reports PvComplete and frees the PV executor.
ReceiveAck(c, w, msg) ==
    IF msg.key \notin c.pending \/ msg.owner # w \/ msg.worker # TargetOf(msg.key.block)
    THEN Throw(c)
    ELSE [c EXCEPT !.pending = @ \ {msg.key},
                   !.finished = @ \cup {msg.key.block},
                   !.pv = NoBlock]

ReceiveData(c, w, msg) ==
    IF \/ c.leased
       \/ msg.worker # w
       \/ msg.owner \notin Producers
       \/ msg.key.epoch # c.consumedEpoch + 1
       \/ Len(c.incoming) >= QueueBound
       \/ msg.head \in c.received
    THEN Throw(c)
    ELSE [c EXCEPT !.received = @ \cup {msg.head},
                   !.incoming = Append(@, [msg |-> msg, offset |-> 0])]

Receive(c, w, msg) ==
    IF msg.kind = "Ack" THEN ReceiveAck(c, w, msg) ELSE ReceiveData(c, w, msg)

Ready(c, epoch) ==
    /\ ~c.leased
    /\ epoch = c.consumedEpoch + 1
    /\ c.received = Heads /\ c.landed = Heads
    /\ ~c.landingPending
    /\ c.incoming = <<>>

\* Seeded fault: the masks of the consumed generation survive.
RetireKeepsMasks(c) == [c EXCEPT !.consumedEpoch = @ + 1]

RetireGeneration(c) ==
    [c EXCEPT !.consumedEpoch = @ + 1, !.received = {}, !.landed = {}]

Consume(c) == RetireGeneration(c)
Acquire(c) == [c EXCEPT !.leased = TRUE]
Release(c, epoch) ==
    IF c.leased /\ epoch = c.consumedEpoch + 1
    THEN RetireGeneration([c EXCEPT !.leased = FALSE])
    ELSE Throw(c)

\* pumpOutgoing: a message to the own core is handled in place.
PumpOutgoing(c, w) ==
    IF c.outgoing = <<>> THEN c
    ELSE LET popped == [c EXCEPT !.outgoing = Tail(@)] IN
         IF Dest(Head(c.outgoing)) = w THEN Receive(popped, w, Head(c.outgoing)) ELSE popped

PumpedMessages(c, w) ==
    IF c.outgoing = <<>> \/ Dest(Head(c.outgoing)) = w THEN {} ELSE {Head(c.outgoing)}

\* Seeded fault: the landing is acknowledged after its first chunk.
LandedFirstChunk(c, w) ==
    LET cur == Head(c.incoming)
        ack == [cur.msg EXCEPT !.kind = "Ack"]
    IN  Enqueue([c EXCEPT !.landingPending = FALSE, !.landed = @ \cup {cur.msg.head},
                          !.incoming = Tail(@)], ack)

\* Seeded fault: the acknowledgement of a complete landing is forgotten.
LandedSilently(c, w) ==
    LET cur == [Head(c.incoming) EXCEPT !.offset = @ + 1]
    IN  IF cur.offset # Chunks
        THEN [c EXCEPT !.landingPending = FALSE, !.incoming = <<cur>> \o Tail(@)]
        ELSE [c EXCEPT !.landingPending = FALSE, !.landed = @ \cup {cur.msg.head},
                       !.incoming = Tail(@)]

\* The callback of a local write: the last chunk publishes the head.
Landed(c, w) ==
    IF c.incoming = <<>> THEN Throw([c EXCEPT !.landingPending = FALSE])
    ELSE
    LET cur == [Head(c.incoming) EXCEPT !.offset = @ + 1]
        ack == [cur.msg EXCEPT !.kind = "Ack", !.worker = w]
    IN  IF cur.offset # Chunks
        THEN [c EXCEPT !.landingPending = FALSE, !.incoming = <<cur>> \o Tail(@)]
        ELSE Enqueue([c EXCEPT !.landingPending = FALSE,
                               !.landed = @ \cup {cur.msg.head},
                               !.incoming = Tail(@)], ack)

-----------------------------------------------------------------------------
(* Initial state: nothing has landed; either input mode may be configured. *)

NewCore ==
    [ consumedEpoch |-> 0, received |-> {}, landed |-> {},
      landingPending |-> FALSE, leased |-> FALSE, pending |-> {},
      incoming |-> <<>>, outgoing |-> <<>>,
      pv |-> NoBlock, finished |-> {}, fault |-> FALSE ]

Init ==
    /\ core = [w \in Workers |-> NewCore]
    /\ gm = [w \in Workers |-> [h \in Heads |-> [c \in 1 .. Chunks |-> 0]]]
    /\ net = {}
    /\ wo = [w \in Workers |-> [layer |-> 1, running |-> FALSE, unread |-> {}]]
    /\ root \in [layer : {1}, stage : {"attention"}, unstarted : {Blocks}, direct : BOOLEAN]

-----------------------------------------------------------------------------
(* Actions. *)

\* A PV executor takes a block and, when it has computed it, dispatches it.
Dispatch(p, b) ==
    /\ root.stage = "attention" /\ b \in root.unstarted
    /\ core[p].pv = NoBlock
    /\ core' = [core EXCEPT ![p] = DispatchTo([@ EXCEPT !.pv = b], p, b, root.layer)]
    /\ root' = [root EXCEPT !.unstarted = @ \ {b}]
    /\ UNCHANGED <<gm, net, wo>>

\* PvWoHandoff::tick.  The local memory may refuse the write: the next tick
\* tries again.
Tick(w, accepted) ==
    LET c == PumpOutgoing(core[w], w)
        idle == c.landingPending \/ c.incoming = <<>>
    IN  /\ core' = [core EXCEPT ![w] =
               IF idle THEN c ELSE [c EXCEPT !.landingPending = accepted]]
        /\ net' = net \cup PumpedMessages(core[w], w)
        /\ UNCHANGED <<gm, wo, root>>

\* The local memory performs the pending write of the front landing and runs
\* its callback.
LandingAck(w) ==
    /\ core[w].landingPending
    /\ LET front == Head(core[w].incoming) IN
       gm' = [gm EXCEPT ![w][front.msg.head][front.offset + 1] = front.msg.key.epoch]
    /\ core' = [core EXCEPT ![w] = Landed(@, w)]
    /\ UNCHANGED <<net, wo, root>>

\* The control network delivers a message.
Deliver(msg) ==
    /\ msg \in net
    /\ net' = net \ {msg}
    /\ core' = [core EXCEPT ![Dest(msg)] = Receive(@, Dest(msg), msg)]
    /\ UNCHANGED <<gm, wo, root>>

\* Seeded fault: Wo's output overwrites the landing before it is read.
StartWoOutputFirst(w) ==
    /\ root.stage = "decoder" /\ root.layer = wo[w].layer /\ ~wo[w].running
    /\ core' = [core EXCEPT ![w] = IF root.direct THEN Acquire(@) ELSE Consume(@)]
    /\ wo' = [wo EXCEPT ![w] = [@ EXCEPT !.running = TRUE, !.unread = Heads]]
    /\ gm' = [gm EXCEPT ![w] = [h \in Heads |-> [c \in 1 .. Chunks |-> 0]]]
    /\ UNCHANGED <<net, root>>

\* The worker sees decoder_release reach its layer and starts Wo, which takes
\* the landed heads or throws (DecoderOpJob::start).
StartWo(w) ==
    /\ root.stage = "decoder" /\ root.layer = wo[w].layer /\ ~wo[w].running
    /\ core' = [core EXCEPT ![w] =
           IF ~Ready(@, wo[w].layer) THEN Throw(@)
           ELSE IF root.direct THEN Acquire(@) ELSE Consume(@)]
    /\ wo' = [wo EXCEPT ![w] = [@ EXCEPT !.running = TRUE, !.unread = Heads]]
    /\ UNCHANGED <<gm, net, root>>

\* Wo reads one head out of the landing: relocates it, or streams it directly.
ReadHead(w, h) ==
    /\ wo[w].running /\ h \in wo[w].unread
    /\ wo' = [wo EXCEPT ![w] = [@ EXCEPT !.unread = wo[w].unread \ {h}]]
    /\ UNCHANGED <<core, gm, net, root>>

\* DecoderOpJob::finish; afterwards later operators reuse the landing memory.
FinishWo(w) ==
    /\ wo[w].running /\ wo[w].unread = {}
    /\ core' = [core EXCEPT ![w] = IF root.direct THEN Release(@, wo[w].layer) ELSE @]
    /\ wo' = [wo EXCEPT ![w] = [@ EXCEPT !.running = FALSE, !.layer = wo[w].layer + 1]]
    /\ gm' = [gm EXCEPT ![w] = [h \in Heads |-> [c \in 1 .. Chunks |-> 0]]]
    /\ UNCHANGED <<net, root>>

\* The guest's root has waited for every attention job: decoder_release.
ReleaseDecoder ==
    /\ root.stage = "attention"
    /\ UNION {core[w].finished : w \in Workers} = Blocks
    /\ root' = [root EXCEPT !.stage = "decoder"]
    /\ UNCHANGED <<core, gm, net, wo>>

\* The root has waited for every worker's decoder_done flag: the next layer.
BeginLayer ==
    /\ root.stage = "decoder" /\ root.layer < Layers
    /\ \A w \in Workers : wo[w].layer > root.layer
    /\ root' = [root EXCEPT !.layer = @ + 1, !.stage = "attention", !.unstarted = Blocks]
    /\ core' = [w \in Workers |-> [core[w] EXCEPT !.finished = {}]]
    /\ UNCHANGED <<gm, net, wo>>

StackDone == \A w \in Workers : wo[w].layer > Layers

\* The program ended.
Idle == StackDone /\ UNCHANGED vars

\* An exception ends the simulation.
NoFault == \A w \in Workers : ~core[w].fault

Next ==
    /\ NoFault
    /\ \/ \E p \in Producers, b \in Blocks : Dispatch(p, b)
       \/ \E w \in Workers, accepted \in BOOLEAN : Tick(w, accepted)
       \/ \E w \in Workers : LandingAck(w)
       \/ \E msg \in net : Deliver(msg)
       \/ \E w \in Workers : StartWo(w)
       \/ \E w \in Workers, h \in Heads : ReadHead(w, h)
       \/ \E w \in Workers : FinishWo(w)
       \/ ReleaseDecoder
       \/ BeginLayer
       \/ Idle

Spec == Init /\ [][Next]_vars

-----------------------------------------------------------------------------
(* Fairness: clocks keep ticking and the local memory does not refuse a write
   for ever; the memory and the network finish what they accepted; executors
   and guest programs keep running. *)
FairSpec ==
    /\ Spec
    /\ \A w \in Workers :
          /\ WF_vars(Tick(w, TRUE))
          /\ WF_vars(LandingAck(w))
          /\ WF_vars(\E msg \in net : Dest(msg) = w /\ Deliver(msg))
          /\ WF_vars(StartWo(w))
          /\ WF_vars(\E h \in Heads : ReadHead(w, h))
          /\ WF_vars(FinishWo(w))
    /\ \A p \in Producers : WF_vars(\E b \in Blocks : Dispatch(p, b))
    /\ WF_vars(ReleaseDecoder)
    /\ WF_vars(BeginLayer)

-----------------------------------------------------------------------------
(* Properties. *)

\* Places that hold block and epoch k: queue entries and travelling messages.
Copies(k) ==
    (UNION {{<<"outgoing", w, i>> : i \in {j \in DOMAIN core[w].outgoing :
                core[w].outgoing[j].key = k}} : w \in Workers})
    \cup (UNION {{<<"incoming", w, i>> : i \in {j \in DOMAIN core[w].incoming :
                core[w].incoming[j].msg.key = k}} : w \in Workers})
    \cup {msg \in net : msg.key = k}

(* No exception of the class and no fatal error of its callers is reachable:
   no wrong generation, duplicate head, stray ACK or write under a lease, no
   queue beyond its bound, and Wo never starts before its input is complete. *)
NoException == NoFault

(* "A PV producer owns one unacknowledged output": an unacknowledged block is
   in exactly one place, its data or its ACK, and no other block is anywhere;
   hence the bounds of incoming_ and outgoing_. *)
OneCustodian ==
    \A k \in Key :
        Cardinality(Copies(k)) =
            Cardinality({p \in Producers : k \in core[p].pending})

(* "A head is published only after timed GM ACKs": while attention of a layer
   runs, every block reported complete is entirely in its target's memory. *)
CompleteMeansLanded ==
    root.stage = "attention" =>
        \A w \in Workers : \A b \in core[w].finished :
            \A c \in 1 .. Chunks : gm[TargetOf(b)][HeadOf(b)][c] = root.layer

(* A head that Wo still has to read holds this layer's bytes: no landing of
   another generation reaches the memory between the start and the last read,
   in the leased (direct) mode and in the relocating mode alike. *)
WoInputIntact ==
    \A w \in Workers : wo[w].running =>
        \A h \in wo[w].unread : \A c \in 1 .. Chunks : gm[w][h][c] = wo[w].layer

(* The hand-off never stalls the stack: every layer ends. *)
StackCompletes == <>StackDone
=============================================================================
