--------------------------- MODULE WeightCohortInv ---------------------------
(***************************************************************************)
(* The inductive invariant of WeightCohort.  It is stated of a state given *)
(* by its parts (mem, job, dest, server, scratch, net), so that it can be  *)
(* carried through the steps of tick(), which handles a message, pumps the *)
(* landings, admits requests, pumps the slots and releases in one action.  *)
(***************************************************************************)
EXTENDS WeightCohort

TileOf(source) == [c \in 1 .. Chunks |-> source]

\* Member m has a fetch of the tile under way and no bytes of it yet.
Waiting(M, m, epoch, source) ==
    \E l \in M[m].landings : l.epoch = epoch /\ l.source = source /\ l.bytes = <<>>

-----------------------------------------------------------------------------
(* Messages. *)

\* What a message is about.  A request and the delivery that answers it have
\* the same identity: they are the one token of the fetch.
Id(msg) ==
    [class  |-> IF msg.kind \in {"Request", "Delivery"} THEN "Tile" ELSE msg.kind,
     owner  |-> IF msg.kind \in {"Delivery", "Release"} THEN msg.to ELSE msg.from,
     epoch  |-> msg.epoch,
     source |-> msg.source]

Ids(s) == {Id(s[k]) : k \in 1 .. Len(s)}
NetIds(N) == {Id(msg) : msg \in N}
Distinct(s) == \A j, k \in 1 .. Len(s) : Id(s[j]) = Id(s[k]) => j = k

\* A message in flight is not yet reflected in the state of its receiver.
MsgOk(M, J, S, msg) ==
    /\ msg.kind = "Join" =>
          /\ msg.to = Leader /\ msg.source = 0
          /\ msg.from \notin S.joined[msg.epoch] /\ J[msg.from].epoch = msg.epoch
    /\ msg.kind = "Finish" =>
          /\ msg.to = Leader /\ msg.source = 0
          /\ msg.from \notin S.finished[msg.epoch] /\ J[msg.from].epoch = msg.epoch
          /\ J[msg.from].finishSent
    /\ msg.kind = "Release" =>
          /\ msg.source = 0 /\ msg.epoch \in M[Leader].released
          /\ msg.to # Leader => msg.epoch \notin M[msg.to].released
    /\ msg.kind = "Request" =>
          msg.to = Leader /\ Waiting(M, msg.from, msg.epoch, msg.source)
    /\ msg.kind = "Delivery" =>
          msg.bytes = TileOf(msg.source) /\ Waiting(M, msg.to, msg.epoch, msg.source)

\* Only the leader sends deliveries and releases; a member sends the rest for itself.
OutOk(M, J, S, m, msg) ==
    /\ MsgOk(M, J, S, msg)
    /\ IF msg.kind \in {"Delivery", "Release"} THEN m = Leader ELSE msg.from = m

RequestOk(M, J, S, msg) == msg.kind = "Request" /\ MsgOk(M, J, S, msg)

WaiterOk(M, J, S, i, msg) ==
    /\ RequestOk(M, J, S, msg)
    /\ msg.epoch = S.slots[i].epoch /\ msg.source = S.slots[i].source

MsgInv(M, J, S, N) ==
    /\ \A m \in Members : \A k \in 1 .. Len(M[m].outgoing) : OutOk(M, J, S, m, M[m].outgoing[k])
    /\ \A msg \in N : MsgOk(M, J, S, msg)
    /\ \A k \in 1 .. Len(S.requests) : RequestOk(M, J, S, S.requests[k])
    /\ \A i \in SlotIds : \A k \in 1 .. Len(S.slots[i].waiters) :
          WaiterOk(M, J, S, i, S.slots[i].waiters[k])

\* Where messages are kept, and which identities are kept there.
OutBox(m) == <<"out", m>>
SlotBox(i) == <<"slot", i>>
QueueBox == <<"queue", 0>>
NetBox == <<"net", 0>>
Boxes == {OutBox(m) : m \in Members} \cup {SlotBox(i) : i \in SlotIds} \cup {QueueBox, NetBox}
Box(M, S, N) ==
    [b \in Boxes |->
        IF b[1] = "out" THEN Ids(M[b[2]].outgoing)
        ELSE IF b[1] = "slot" THEN Ids(S.slots[b[2]].waiters)
        ELSE IF b[1] = "queue" THEN Ids(S.requests)
        ELSE NetIds(N)]
Disjoint(B) == \A a, b \in Boxes : a # b => B[a] \cap B[b] = {}

\* No identity is in two places.
Unique(M, S, N) ==
    /\ \A m \in Members : Distinct(M[m].outgoing)
    /\ \A i \in SlotIds : Distinct(S.slots[i].waiters)
    /\ Distinct(S.requests)
    /\ \A x, y \in N : Id(x) = Id(y) => x = y
    /\ Disjoint(Box(M, S, N))

\* A release the leader sends to itself is queued before its next Join.
Ordered(q, now) ==
    \A k \in 1 .. Len(q) :
        q[k].kind = "Release" /\ q[k].to = Leader =>
            \/ now = q[k].epoch
            \/ /\ now = q[k].epoch + 1
               /\ \E j \in k + 1 .. Len(q) : q[j].kind = "Join" /\ q[j].epoch = now

-----------------------------------------------------------------------------
(* Members, epochs and slots. *)

\* A landing belongs to the operator under way; its written chunks are in place.
LandingOk(J, D, m, l) ==
    /\ J[m].active /\ ~J[m].finishSent
    /\ l.epoch = J[m].epoch /\ l.source \in 1 .. J[m].next - 1
    /\ (l.bytes = <<>> /\ l.offset = 0 /\ ~l.pending) \/ l.bytes = TileOf(l.source)
    /\ J[m].holds[DestOf(l.source)] = 0
    /\ \A c \in 1 .. l.offset : D[m][DestOf(l.source)][c] = l.source

LandingInv(M, J, D, m) ==
    /\ \A l \in M[m].landings : LandingOk(J, D, m, l)
    /\ \A l, k \in M[m].landings : DestOf(l.source) = DestOf(k.source) => l = k

HoldsInv(J, D, m) ==
    \A d \in 1 .. Dests :
        J[m].holds[d] # 0 => \A c \in 1 .. Chunks : D[m][d][c] = J[m].holds[d]

\* An operator ends only after its epoch was released to the member.
JobInv(M, J, m) ==
    /\ J[m].active => J[m].epoch # 0
    /\ J[m].finishSent => J[m].next > Sources
    /\ \A e \in EpochIds :
          e < J[m].epoch \/ (e = J[m].epoch /\ ~J[m].active) => e \in M[m].released
    /\ M[m].released \subseteq M[Leader].released

EpochInv(M, J, S, e) ==
    /\ \A m \in S.joined[e] : J[m].epoch >= e
    /\ \A m \in S.finished[e] : J[m].epoch > e \/ (J[m].epoch = e /\ J[m].finishSent)
    /\ e \in M[Leader].released => S.joined[e] = Members /\ S.finished[e] = Members

\* A slot works only for requests that wait for it, after every member joined.
SlotInv(S, X, i) ==
    LET s == S.slots[i] IN
    /\ s.dma \/ s.reading => s.waiters # <<>>
    /\ s.pending => s.reading
    /\ s.reading => ~s.dma
    /\ s.waiters # <<>> => s.epoch # 0 /\ S.joined[s.epoch] = Members
    /\ s.epoch # 0 /\ ~s.dma => X[i] = TileOf(s.source)
    /\ s.reading => /\ s.offset < Chunks /\ s.bytes \in Bytes
                    /\ \A c \in 1 .. s.offset : s.bytes[c] = s.source

Typed(M, J, D, S, X, N) ==
    /\ M \in [Members -> Member] /\ J \in [Members -> Job]
    /\ D \in [Members -> [1 .. Dests -> Bytes]]
    /\ S \in Server /\ X \in [SlotIds -> Bytes] /\ N \subseteq Message

Inv(M, J, D, S, X, N) ==
    /\ Typed(M, J, D, S, X, N)
    /\ MsgInv(M, J, S, N) /\ Unique(M, S, N) /\ Ordered(M[Leader].outgoing, J[Leader].epoch)
    /\ \A m \in Members : LandingInv(M, J, D, m) /\ HoldsInv(J, D, m) /\ JobInv(M, J, m)
    /\ \A e \in EpochIds : EpochInv(M, J, S, e)
    /\ \A i \in SlotIds : SlotInv(S, X, i)

(* Every request, with the delivery that answers it, and every Join, Finish and
   Release of the cohort is in one place only and agrees with the landings,
   epochs and slots it is about; landings and slots hold the bytes that they
   are recorded to hold. *)
CohortInv == Inv(mem, job, dest, server, scratch, net)
=============================================================================
