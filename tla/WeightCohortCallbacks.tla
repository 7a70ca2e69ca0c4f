------------------------ MODULE WeightCohortCallbacks ------------------------
(***************************************************************************)
(* The moves of WeightCohort outside tick(): the answers of the HBM and of *)
(* the local memories, and what the decoder job does with the interface    *)
(* (begin, fetch, wait and release).  Each keeps the invariant Inv.        *)
(***************************************************************************)
EXTENDS WeightCohortMoves

\* A leaf is tried with Zenon, then with SMT.
USE ZenonT(5), SMTT(20)

-----------------------------------------------------------------------------
(* HBM answers and local reads. *)

\* Only slot i changed.
SlotPut(S, i, t) == [S EXCEPT !.slots = [@ EXCEPT ![i] = t]]

IsSlotPut(T, S, i, t) ==
    /\ T \in Server /\ T.joined = S.joined /\ T.finished = S.finished /\ T.requests = S.requests
    /\ T.slots[i] = t /\ \A j \in SlotIds : j # i => T.slots[j] = S.slots[j]

LEMMA SlotPutIs ==
    ASSUME NEW S \in Server, NEW i \in SlotIds, NEW t \in Slot
    PROVE  IsSlotPut(SlotPut(S, i, t), S, i, t)
BY DEF SlotPut, IsSlotPut, Server

\* A slot goes on for the same requests.
LEMMA SlotGoesOn ==
    ASSUME NEW M, NEW J, NEW D, NEW S, NEW X, NEW N, Inv(M, J, D, S, X, N), NEW i \in SlotIds, NEW t \in Slot,
           t.waiters = S.slots[i].waiters, t.epoch = S.slots[i].epoch, t.source = S.slots[i].source,
           NEW Y \in [SlotIds -> Bytes], \A j \in SlotIds : j # i => Y[j] = X[j],
           SlotInv(SlotPut(S, i, t), Y, i)
    PROVE  Inv(M, J, D, SlotPut(S, i, t), Y, N)
<1> DEFINE T == SlotPut(S, i, t)
<1>1. /\ M \in [Members -> Member] /\ S \in Server /\ N \in SUBSET Message
      /\ MsgInv(M, J, S, N) /\ Unique(M, S, N)
  BY DEF Inv, Typed
<1>2. IsSlotPut(T, S, i, t)
  BY <1>1, SlotPutIs
<1>3. SlotInv(T, Y, i)
  OBVIOUS
<1> HIDE DEF T
<1>4. /\ T \in Server /\ T.joined = S.joined /\ T.finished = S.finished /\ T.requests = S.requests
      /\ T.slots[i] = t /\ \A j \in SlotIds : j # i => T.slots[j] = S.slots[j]
  BY <1>2 DEF IsSlotPut
<1>5. SameQueues(M, S, M, T)
  BY <1>4 DEF SameQueues
<1>6. Keeps(M, J, S, M, J, T)
  BY <1>4 DEF Keeps
<1>7. MsgInv(M, J, T, N) /\ Unique(M, T, N)
  BY <1>1, <1>5, <1>6, Undisturbed, SameBoxes
<1>8. ASSUME NEW j \in SlotIds PROVE SlotInv(T, Y, j)
  <2>1. CASE j # i
    <3>1. SlotInv(S, X, j) /\ T.slots[j] = S.slots[j] /\ Y[j] = X[j]
      BY <1>4, <2>1 DEF Inv
    <3> QED BY <1>4, <3>1, SameSlot
  <2> QED BY <1>3, <2>1
<1>9. ASSUME NEW e \in EpochIds PROVE EpochInv(M, J, T, e)
  BY <1>4 DEF Inv, EpochInv
<1>10. Typed(M, J, D, T, Y, N)
  BY <1>4 DEF Inv, Typed
<1>11. Inv(M, J, D, T, Y, N)
  BY <1>7, <1>8, <1>9, <1>10 DEF Inv
<1> QED BY <1>11 DEF T

\* The tile of cache slot i arrives from HBM.
Load(X, i, source) == [X EXCEPT ![i] = [c \in 1 .. Chunks |-> source]]

\* The load of a slot is answered.
LEMMA DmaAnswered ==
    ASSUME NEW M, NEW J, NEW D, NEW S, NEW X, NEW N, Inv(M, J, D, S, X, N), NEW i \in SlotIds, S.slots[i].dma
    PROVE  Inv(M, J, D, SlotPut(S, i, [S.slots[i] EXCEPT !.dma = FALSE]), Load(X, i, S.slots[i].source), N)
<1> DEFINE s == S.slots[i]
           t == [s EXCEPT !.dma = FALSE]
           T == SlotPut(S, i, t)
           Y == Load(X, i, s.source)
<1>1. S \in Server /\ X \in [SlotIds -> Bytes] /\ s \in Slot /\ SlotInv(S, X, i)
  BY KeptTypes DEF Inv, Typed
<1>2. /\ t \in Slot /\ t.waiters = s.waiters /\ t.epoch = s.epoch /\ t.source = s.source /\ ~t.dma
      /\ t.reading = s.reading /\ t.pending = s.pending /\ s.source \in Tiles
  <2> HIDE DEF s
  <2> QED BY <1>1 DEF Slot
<1>3. Y \in [SlotIds -> Bytes] /\ Y[i] = TileOf(s.source) /\ \A j \in SlotIds : j # i => Y[j] = X[j]
  <2>1. TileOf(s.source) \in Bytes
    BY <1>2, TileType
  <2>2. Y = [X EXCEPT ![i] = TileOf(s.source)]
    BY DEF Load, TileOf
  <2> HIDE DEF Y, s
  <2> QED BY <1>1, <2>1, <2>2
<1>4. IsSlotPut(T, S, i, t)
  BY <1>1, <1>2, SlotPutIs
<1> HIDE DEF T, t, Y
<1>5. T.slots[i] = t /\ T.joined = S.joined
  BY <1>4 DEF IsSlotPut
<1>6. /\ s.dma /\ (s.dma \/ s.reading => s.waiters # <<>>) /\ (s.pending => s.reading) /\ (s.reading => ~s.dma)
      /\ (s.waiters # <<>> => s.epoch # 0 /\ S.joined[s.epoch] = Members)
  BY <1>1 DEF SlotInv
<1> HIDE DEF s
<1>7. SlotInv(T, Y, i)
  BY <1>2, <1>3, <1>5, <1>6 DEF SlotInv
<1>8. Inv(M, J, D, T, Y, N)
  BY <1>2, <1>3, <1>7, SlotGoesOn DEF T, s
<1> QED BY <1>8 DEF T, t, Y, s

\* What the callback of a local read leaves in the slot.
ReadSlot(s, x) ==
    [s EXCEPT !.pending = FALSE, !.offset = @ + 1, !.bytes = [@ EXCEPT ![s.offset + 1] = x[s.offset + 1]]]

LEMMA NextChunk ==
    ASSUME NEW p \in Nat, NEW n \in Nat, p < n
    PROVE  /\ p + 1 \in 1 .. n /\ p + 1 \in 0 .. n /\ p + 1 <= n /\ p + 1 \in Nat
           /\ \A c \in 1 .. p + 1 : c \in 1 .. n /\ (c = p + 1 \/ (c \in 1 .. p /\ c # p + 1))
<1>1. p + 1 \in 1 .. n /\ p + 1 \in 0 .. n /\ p + 1 <= n /\ p + 1 \in Nat
  OBVIOUS
<1>2. ASSUME NEW c \in 1 .. p + 1 PROVE c \in 1 .. n /\ (c = p + 1 \/ (c \in 1 .. p /\ c # p + 1))
  <2>1. c \in Int /\ 1 <= c /\ c <= p + 1
    OBVIOUS
  <2>2. c \in 1 .. n
    BY <2>1
  <2>3. c # p + 1 => c \in 1 .. p
    BY <2>1
  <2> QED BY <2>2, <2>3
<1> QED BY <1>1, <1>2

IsReadSlot(S, X, i, s, t) ==
    /\ t \in Slot /\ t.waiters = s.waiters /\ t.epoch = s.epoch /\ t.source = s.source
    /\ ~s.dma /\ ~t.dma /\ t.reading /\ ~t.pending /\ t.bytes \in Bytes
    /\ s.waiters # <<>> /\ s.epoch # 0 /\ S.joined[s.epoch] = Members /\ X[i] = TileOf(s.source)
    /\ s.source \in Tiles /\ t.offset <= Chunks /\ t.offset \in Nat
    /\ \A c \in 1 .. t.offset : t.bytes[c] = s.source

LEMMA ReadSlotIs ==
    ASSUME NEW S \in Server, NEW X \in [SlotIds -> Bytes], NEW i \in SlotIds, SlotInv(S, X, i), S.slots[i].pending
    PROVE  IsReadSlot(S, X, i, S.slots[i], ReadSlot(S.slots[i], X[i]))
<1> DEFINE s == S.slots[i]
           x == X[i]
           o == s.offset
           b == [s.bytes EXCEPT ![o + 1] = x[o + 1]]
           t == ReadSlot(s, x)
<1>1. /\ s \in Slot /\ x \in Bytes
      /\ s.pending /\ s.reading /\ ~s.dma /\ s.waiters # <<>>
      /\ s.epoch # 0 /\ S.joined[s.epoch] = Members /\ x = TileOf(s.source)
      /\ o < Chunks /\ s.bytes \in Bytes
      /\ \A c \in 1 .. o : s.bytes[c] = s.source
  <2>1. s \in Slot /\ x \in Bytes /\ s.pending
    BY DEF Server
  <2>2. /\ s.dma \/ s.reading => s.waiters # <<>>
        /\ s.pending => s.reading
        /\ s.reading => ~s.dma
        /\ s.waiters # <<>> => s.epoch # 0 /\ S.joined[s.epoch] = Members
        /\ s.epoch # 0 /\ ~s.dma => x = TileOf(s.source)
        /\ s.reading => /\ s.offset < Chunks /\ s.bytes \in Bytes
                        /\ \A c \in 1 .. s.offset : s.bytes[c] = s.source
    BY DEF SlotInv
  <2> HIDE DEF s, x
  <2> QED BY <2>1, <2>2
<1> HIDE DEF s, x
<1>2. t = [s EXCEPT !.pending = FALSE, !.offset = o + 1, !.bytes = b]
  BY <1>1 DEF ReadSlot, Slot
<1> HIDE DEF t
<1>3. o \in Nat /\ s.source \in Tiles /\ Chunks \in Nat
  <2>1. s.offset \in 0 .. Chunks /\ s.source \in Tiles
    BY <1>1 DEF Slot
  <2> QED BY <2>1, CohortAssumption
<1> HIDE DEF o
<1>4. /\ o + 1 \in 1 .. Chunks /\ o + 1 \in 0 .. Chunks /\ o + 1 <= Chunks /\ o + 1 \in Nat
      /\ \A c \in 1 .. o + 1 : c \in 1 .. Chunks /\ (c = o + 1 \/ (c \in 1 .. o /\ c # o + 1))
  <2>1. o < Chunks /\ o \in Nat /\ Chunks \in Nat
    BY <1>1, <1>3
  <2> QED BY <2>1, NextChunk
<1>5. x[o + 1] = s.source
  BY <1>1, <1>4 DEF TileOf
<1>6. b \in Bytes /\ b[o + 1] = s.source /\ \A c \in 1 .. Chunks : c # o + 1 => b[c] = s.bytes[c]
  BY <1>1, <1>3, <1>4, <1>5 DEF Bytes
<1> HIDE DEF b
<1>7. /\ t \in Slot /\ t.waiters = s.waiters /\ t.epoch = s.epoch /\ t.source = s.source /\ t.dma = s.dma
      /\ t.reading = s.reading /\ t.pending = FALSE /\ t.bytes = b /\ t.offset = o + 1
  BY <1>1, <1>2, <1>4, <1>6 DEF Slot
<1>8. ASSUME NEW c \in 1 .. o + 1 PROVE b[c] = s.source
  <2>1. CASE c = o + 1
    BY <1>6, <2>1
  <2>2. CASE c \in 1 .. o /\ c # o + 1
    <3>1. b[c] = s.bytes[c] /\ s.bytes[c] = s.source
      BY <1>1, <1>4, <1>6, <2>2
    <3> QED BY <3>1
  <2> QED BY <1>4, <2>1, <2>2
<1>9. /\ ~s.dma /\ ~t.dma /\ t.reading /\ ~t.pending /\ t.bytes \in Bytes /\ t.offset <= Chunks /\ t.offset \in Nat
      /\ \A c \in 1 .. t.offset : t.bytes[c] = s.source
  BY <1>1, <1>4, <1>6, <1>7, <1>8
<1>10. IsReadSlot(S, X, i, s, t)
  BY <1>1, <1>3, <1>7, <1>9 DEF IsReadSlot, x
<1> QED BY <1>10 DEF s, t, x

\* A chunk that is not the last.
LEMMA ChunkRead ==
    ASSUME NEW M, NEW J, NEW D, NEW S, NEW X, NEW N, Inv(M, J, D, S, X, N), NEW i \in SlotIds, S.slots[i].pending,
           ReadSlot(S.slots[i], X[i]).offset # Chunks
    PROVE  Inv(M, J, D, SlotPut(S, i, ReadSlot(S.slots[i], X[i])), X, N)
<1> DEFINE s == S.slots[i]
           t == ReadSlot(s, X[i])
           T == SlotPut(S, i, t)
<1>1. S \in Server /\ X \in [SlotIds -> Bytes] /\ SlotInv(S, X, i) /\ s.pending /\ t.offset # Chunks
  BY DEF Inv, Typed
<1>2. /\ t \in Slot /\ t.waiters = s.waiters /\ t.epoch = s.epoch /\ t.source = s.source
      /\ ~s.dma /\ ~t.dma /\ t.reading /\ ~t.pending /\ t.bytes \in Bytes
      /\ s.waiters # <<>> /\ s.epoch # 0 /\ S.joined[s.epoch] = Members /\ X[i] = TileOf(s.source)
      /\ t.offset <= Chunks /\ t.offset \in Nat
      /\ \A c \in 1 .. t.offset : t.bytes[c] = s.source
  <2>1. IsReadSlot(S, X, i, s, t)
    BY <1>1, ReadSlotIs
  <2> HIDE DEF s, t
  <2> QED BY <2>1 DEF IsReadSlot
<1>3. IsSlotPut(T, S, i, t)
  BY <1>1, <1>2, SlotPutIs
<1> HIDE DEF T, t, s
<1>4. T.slots[i] = t /\ T.joined = S.joined
  BY <1>3 DEF IsSlotPut
<1>5. t.offset < Chunks
  BY <1>1, <1>2, CohortAssumption
<1>6. SlotInv(T, X, i)
  BY <1>2, <1>4, <1>5 DEF SlotInv
<1>7. Inv(M, J, D, T, X, N)
  BY <1>1, <1>2, <1>6, SlotGoesOn DEF T, s
<1> QED BY <1>7 DEF T, t, s

\* A slot that has answered its requests is free.
LEMMA SlotEmptied ==
    ASSUME NEW M, NEW J, NEW D, NEW S, NEW X, NEW N, Inv(M, J, D, S, X, N), NEW i \in SlotIds, NEW t \in Slot,
           t.waiters = <<>>, ~t.dma, ~t.reading, ~t.pending, ~S.slots[i].dma,
           t.epoch = S.slots[i].epoch, t.source = S.slots[i].source
    PROVE  /\ Inv(M, J, D, SlotPut(S, i, t), X, N)
           /\ Fresh(M, SlotPut(S, i, t), N, Ids(S.slots[i].waiters))
<1> DEFINE T == SlotPut(S, i, t)
           I == Ids(S.slots[i].waiters)
<1>1. /\ M \in [Members -> Member] /\ S \in Server /\ N \in SUBSET Message
      /\ MsgInv(M, J, S, N) /\ Unique(M, S, N)
  BY DEF Inv, Typed
<1>2. IsSlotPut(T, S, i, t)
  BY <1>1, SlotPutIs
<1> HIDE DEF T
<1>3. /\ T \in Server /\ T.joined = S.joined /\ T.finished = S.finished /\ T.requests = S.requests
      /\ T.slots[i] = t /\ \A j \in SlotIds : j # i => T.slots[j] = S.slots[j]
  BY <1>2 DEF IsSlotPut
<1>4. \A k \in 1 .. Len(<<>>) : FALSE
  OBVIOUS
<1>5. Ids(<<>>) = {} /\ Distinct(<<>>)
  BY <1>4 DEF Ids, Distinct
<1>6. MsgInv(M, J, T, N)
  <2>1. Keeps(M, J, S, M, J, T)
    BY <1>3 DEF Keeps
  <2>2. \A y \in Message : MsgOk(M, J, S, y) => MsgOk(M, J, T, y)
    BY <2>1, KeepsMsg
  <2>3. ASSUME NEW v \in Members, NEW k \in 1 .. Len(M[v].outgoing) PROVE OutOk(M, J, T, v, M[v].outgoing[k])
    BY <1>1, <2>2, KeptTypes DEF MsgInv, OutOk
  <2>4. \A y \in N : MsgOk(M, J, T, y)
    BY <1>1, <2>2 DEF MsgInv
  <2>5. \A k \in 1 .. Len(S.requests) : RequestOk(M, J, T, S.requests[k])
    BY <1>1, <2>2, KeptTypes DEF MsgInv, RequestOk
  <2>6. ASSUME NEW j \in SlotIds, NEW k \in 1 .. Len(T.slots[j].waiters) PROVE WaiterOk(M, J, T, j, T.slots[j].waiters[k])
    <3>1. j # i /\ T.slots[j] = S.slots[j]
      BY <1>3, <1>4
    <3>2. S.slots[j].waiters[k] \in Message /\ WaiterOk(M, J, S, j, S.slots[j].waiters[k])
      BY <1>1, <3>1, KeptTypes DEF MsgInv
    <3> QED BY <2>2, <3>1, <3>2 DEF WaiterOk, RequestOk
  <2> QED BY <1>3, <2>3, <2>4, <2>5, <2>6 DEF MsgInv
<1> DEFINE B == Box(M, S, N)
           C == Box(M, T, N)
<1>7. IsBox(B, M, S, N) /\ IsBox(C, M, T, N) /\ Disjoint(B)
  BY <1>1, BoxAt DEF Unique
<1> HIDE DEF B, C
<1>8. ASSUME NEW j \in SlotIds PROVE C[SlotBox(j)] \subseteq B[SlotBox(j)] /\ Ids(T.slots[j].waiters) \cap I = {}
  <2>1. B[SlotBox(j)] = Ids(S.slots[j].waiters) /\ C[SlotBox(j)] = Ids(T.slots[j].waiters)
    BY <1>7 DEF IsBox
  <2>2. CASE j = i
    BY <1>3, <1>5, <2>1, <2>2
  <2>3. CASE j # i
    <3>1. B[SlotBox(i)] = I
      BY <1>7 DEF IsBox
    <3>2. B[SlotBox(j)] \cap B[SlotBox(i)] = {}
      BY <1>7, <2>3, BoxNames DEF Disjoint
    <3>3. T.slots[j] = S.slots[j]
      BY <1>3, <2>3
    <3> QED BY <2>1, <3>1, <3>2, <3>3
  <2> QED BY <2>2, <2>3
<1>9. Unique(M, T, N)
  <2>1. ASSUME NEW c \in Boxes PROVE C[c] \subseteq B[c]
    <3>1. ASSUME NEW v \in Members, c = OutBox(v) PROVE C[c] \subseteq B[c]
      <4>1. B[c] = Ids(M[v].outgoing) /\ C[c] = Ids(M[v].outgoing)
        BY <1>7, <3>1 DEF IsBox
      <4> QED BY <4>1
    <3>2. ASSUME NEW j \in SlotIds, c = SlotBox(j) PROVE C[c] \subseteq B[c]
      BY <1>8, <3>2
    <3>3. CASE c = QueueBox
      BY <1>3, <1>7, <3>3 DEF IsBox
    <3>4. CASE c = NetBox
      BY <1>7, <3>4 DEF IsBox
    <3> QED BY <3>1, <3>2, <3>3, <3>4, BoxCases
  <2>2. Disjoint(C)
    BY <1>7, <2>1, ShrinkDisjoint
  <2>3. \A j \in SlotIds : Distinct(T.slots[j].waiters)
    BY <1>1, <1>3, <1>5 DEF Unique
  <2> QED BY <1>1, <1>3, <2>2, <2>3 DEF Unique, C
<1>10. Fresh(M, T, N, I)
  <2>1. /\ \A v \in Members : Ids(M[v].outgoing) \cap I = {}
        /\ I \cap NetIds(N) = {} /\ I \cap Ids(S.requests) = {}
    BY <1>1, Apart
  <2>2. NetIds(N) \cap I = {} /\ Ids(T.requests) \cap I = {}
    BY <1>3, <2>1
  <2> HIDE DEF I
  <2> QED BY <1>8, <2>1, <2>2 DEF Fresh
<1>11. ASSUME NEW j \in SlotIds PROVE SlotInv(T, X, j)
  <2>1. SlotInv(S, X, j)
    BY DEF Inv
  <2>2. CASE j # i
    <3>1. T.slots[j] = S.slots[j]
      BY <1>3, <2>2
    <3> QED BY <1>3, <2>1, <3>1 DEF SlotInv
  <2>3. CASE j = i
    <3>1. S.slots[i].epoch # 0 => X[i] = TileOf(S.slots[i].source)
      BY <2>1, <2>3 DEF SlotInv
    <3> QED BY <1>3, <2>3, <3>1 DEF SlotInv
  <2> QED BY <2>2, <2>3
<1>12. ASSUME NEW e \in EpochIds PROVE EpochInv(M, J, T, e)
  BY <1>3 DEF Inv, EpochInv
<1>13. Typed(M, J, D, T, X, N)
  BY <1>3 DEF Inv, Typed
<1>14. Inv(M, J, D, T, X, N)
  BY <1>6, <1>9, <1>11, <1>12, <1>13 DEF Inv
<1> QED BY <1>10, <1>14 DEF T

\* The member that queued messages is otherwise as before.
LEMMA Queued ==
    ASSUME NEW M, NEW J, NEW D, NEW S, NEW X, NEW N, Inv(M, J, D, S, X, N), NEW m \in Members, NEW A, NEW x,
           Changed(A, M, m, x), x.landings = M[m].landings, x.released = M[m].released,
           MsgInv(A, J, S, N), Unique(A, S, N), Ordered(A[Leader].outgoing, J[Leader].epoch)
    PROVE  Inv(A, J, D, S, X, N)
<1>1. A \in [Members -> Member] /\ \A v \in Members : A[v].landings = M[v].landings /\ A[v].released = M[v].released
  BY DEF Changed
<1>2. ASSUME NEW v \in Members PROVE LandingInv(A, J, D, v) /\ JobInv(A, J, v)
  <2>1. LandingInv(M, J, D, v) /\ JobInv(M, J, v)
    BY DEF Inv
  <2>2. LandingInv(A, J, D, v)
    BY <1>1, <2>1 DEF LandingInv
  <2> QED BY <1>1, <2>1, <2>2, KeepsJob
<1>3. ASSUME NEW e \in EpochIds PROVE EpochInv(A, J, S, e)
  BY <1>1, LeaderIs DEF Inv, EpochInv
<1>4. Typed(A, J, D, S, X, N)
  BY <1>1 DEF Inv, Typed
<1> QED BY <1>2, <1>3, <1>4 DEF Inv

\* The deliveries of a slot carry the tile and have the identities of the requests they answer.
LEMMA SlotDeliveriesAre ==
    ASSUME NEW M, NEW J, NEW S, NEW i, NEW t \in Slot, t.bytes = TileOf(t.source), Distinct(t.waiters),
           t.waiters = S.slots[i].waiters, t.source = S.slots[i].source,
           \A k \in 1 .. Len(t.waiters) : WaiterOk(M, J, S, i, t.waiters[k])
    PROVE  LET w == SlotDeliveries(t)
           IN  /\ w \in Seq(Message) /\ Distinct(w) /\ Ids(w) \subseteq Ids(t.waiters)
               /\ \A k \in 1 .. Len(w) :
                     /\ w[k].kind = "Delivery" /\ w[k].bytes = TileOf(w[k].source)
                     /\ Waiting(M, w[k].to, w[k].epoch, w[k].source)
<1> DEFINE p == t.waiters
           g(k) == [Msg("Delivery", Leader, p[k].from, p[k].epoch, p[k].source) EXCEPT !.bytes = t.bytes]
           w == SlotDeliveries(t)
<1>1. /\ p \in Seq(Message) /\ t.source \in Tiles /\ t.bytes \in Bytes
      /\ \A k \in 1 .. Len(p) : p[k] \in Message
  <2>1. t.waiters \in Seq(Message) /\ t.source \in Tiles
    BY DEF Slot
  <2> QED BY <2>1, TileType
<1>2. w = [k \in 1 .. Len(p) |-> g(k)]
  <2>1. DOMAIN p = 1 .. Len(p)
    BY <1>1
  <2> QED BY <2>1 DEF SlotDeliveries
<1>3. ASSUME NEW k \in 1 .. Len(p)
      PROVE  /\ g(k) \in Message /\ g(k).kind = "Delivery" /\ g(k).bytes = t.bytes
             /\ g(k).to = p[k].from /\ g(k).epoch = p[k].epoch /\ g(k).source = p[k].source
             /\ p[k].source = t.source /\ Waiting(M, p[k].from, p[k].epoch, p[k].source)
             /\ p[k].kind = "Request"
  <2>1. p[k] \in Message /\ WaiterOk(M, J, S, i, p[k])
    BY <1>1
  <2>2. p[k].source = t.source /\ Waiting(M, p[k].from, p[k].epoch, p[k].source) /\ p[k].kind = "Request"
    BY <2>1 DEF WaiterOk, RequestOk, MsgOk
  <2>3. p[k].from \in Members /\ p[k].epoch \in EpochIds /\ p[k].source \in Tiles /\ Leader \in Members
    BY <2>1, MessageIs, LeaderIs
  <2> HIDE DEF p
  <2> QED BY <1>1, <2>2, <2>3 DEF Msg, Message
<1> HIDE DEF g, p, w
<1>4. ASSUME NEW k \in 1 .. Len(p) PROVE Id(g(k)) = Id(p[k])
  BY <1>3 DEF Id
<1>5. w \in Seq(Message) /\ Len(w) = Len(p) /\ \A k \in 1 .. Len(p) : w[k] = g(k)
  <2>1. Len(p) \in Nat
    BY <1>1
  <2> QED BY <1>2, <1>3, <2>1
<1>6. ASSUME NEW k \in 1 .. Len(w)
      PROVE  /\ w[k] = g(k) /\ k \in 1 .. Len(p) /\ Id(w[k]) = Id(p[k])
  BY <1>4, <1>5
<1>7. Distinct(w)
  <2> SUFFICES ASSUME NEW j \in 1 .. Len(w), NEW k \in 1 .. Len(w), Id(w[j]) = Id(w[k]) PROVE j = k
    BY DEF Distinct
  <2>1. Id(w[j]) = Id(p[j]) /\ j \in 1 .. Len(p)
    BY <1>6
  <2>2. Id(w[k]) = Id(p[k]) /\ k \in 1 .. Len(p)
    BY <1>6
  <2>3. Distinct(p)
    BY DEF p
  <2> QED BY <2>1, <2>2, <2>3 DEF Distinct
<1>8. Ids(w) \subseteq Ids(p)
  <2> SUFFICES ASSUME NEW k \in 1 .. Len(w) PROVE Id(w[k]) \in Ids(p)
    BY DEF Ids
  <2> QED BY <1>6 DEF Ids
<1>9. ASSUME NEW k \in 1 .. Len(w)
      PROVE  /\ w[k].kind = "Delivery" /\ w[k].bytes = TileOf(w[k].source)
             /\ Waiting(M, w[k].to, w[k].epoch, w[k].source)
  <2>1. w[k] = g(k) /\ k \in 1 .. Len(p)
    BY <1>6
  <2>2. /\ g(k).kind = "Delivery" /\ g(k).bytes = t.bytes
        /\ g(k).to = p[k].from /\ g(k).epoch = p[k].epoch /\ g(k).source = p[k].source
        /\ p[k].source = t.source /\ Waiting(M, p[k].from, p[k].epoch, p[k].source)
    BY <1>3, <2>1
  <2>3. g(k).source = t.source
    BY <2>2
  <2>4. w[k].kind = "Delivery" /\ w[k].bytes = TileOf(w[k].source)
    BY <2>1, <2>2, <2>3
  <2> QED BY <2>1, <2>2, <2>4
<1> QED BY <1>5, <1>7, <1>8, <1>9 DEF p, w

\* The last chunk was read: the slot is free and its deliveries are queued at the leader.
LEMMA TileRead ==
    ASSUME NEW M, NEW J, NEW D, NEW S, NEW X, NEW N, Inv(M, J, D, S, X, N), NEW i \in SlotIds, S.slots[i].pending,
           ReadSlot(S.slots[i], X[i]).offset = Chunks
    PROVE  LET read == ReadSlot(S.slots[i], X[i])
               t    == [read EXCEPT !.waiters = <<>>, !.bytes = <<>>, !.reading = FALSE]
               x    == Send(M[Leader], SlotDeliveries(read))
           IN  x \in Member /\ Inv(With(M, Leader, x), J, D, SlotPut(S, i, t), X, N)
<1> DEFINE s == S.slots[i]
           r == ReadSlot(s, X[i])
           t == [r EXCEPT !.waiters = <<>>, !.bytes = <<>>, !.reading = FALSE]
           T == SlotPut(S, i, t)
           w == SlotDeliveries(r)
           q == M[Leader].outgoing
           x == Send(M[Leader], w)
           A == With(M, Leader, x)
<1>1. /\ S \in Server /\ X \in [SlotIds -> Bytes] /\ SlotInv(S, X, i) /\ s.pending /\ r.offset = Chunks
      /\ M \in [Members -> Member] /\ N \in SUBSET Message /\ MsgInv(M, J, S, N) /\ Unique(M, S, N)
  BY DEF Inv, Typed
<1>2. /\ r \in Slot /\ r.waiters = s.waiters /\ r.epoch = s.epoch /\ r.source = s.source
      /\ ~s.dma /\ ~r.dma /\ ~r.pending /\ r.bytes \in Bytes
      /\ \A c \in 1 .. r.offset : r.bytes[c] = s.source
  <2>1. IsReadSlot(S, X, i, s, r)
    BY <1>1, ReadSlotIs
  <2> HIDE DEF s, r
  <2> QED BY <2>1 DEF IsReadSlot
<1>3. r.bytes = TileOf(r.source)
  <2>1. \A c \in 1 .. Chunks : r.bytes[c] = r.source
    BY <1>1, <1>2
  <2>2. IsTile(r.bytes, r.source)
    BY <1>2, <2>1, TileIs
  <2> QED BY <2>2 DEF IsTile
<1> HIDE DEF r
<1>4. /\ t \in Slot /\ t.waiters = <<>> /\ ~t.dma /\ ~t.reading /\ ~t.pending
      /\ t.epoch = s.epoch /\ t.source = s.source
  <2>1. <<>> \in Seq(Message) /\ <<>> \in Bytes \cup {<<>>} /\ FALSE \in BOOLEAN
    OBVIOUS
  <2>2. r \in Slot /\ ~r.dma /\ ~r.pending /\ r.epoch = s.epoch /\ r.source = s.source
    BY <1>2
  <2> HIDE DEF s
  <2> QED BY <2>1, <2>2 DEF Slot
<1> HIDE DEF t
<1>5. Inv(M, J, D, T, X, N) /\ Fresh(M, T, N, Ids(s.waiters))
  BY <1>2, <1>4, SlotEmptied
<1> HIDE DEF T
<1>6. T \in Server /\ MsgInv(M, J, T, N) /\ Unique(M, T, N) /\ Ordered(q, J[Leader].epoch)
  BY <1>5 DEF Inv, Typed
<1>7. /\ w \in Seq(Message) /\ Distinct(w) /\ Ids(w) \subseteq Ids(s.waiters)
      /\ \A k \in 1 .. Len(w) :
            /\ w[k].kind = "Delivery" /\ w[k].bytes = TileOf(w[k].source)
            /\ Waiting(M, w[k].to, w[k].epoch, w[k].source)
  <2>1. Distinct(r.waiters) /\ \A k \in 1 .. Len(r.waiters) : WaiterOk(M, J, S, i, r.waiters[k])
    BY <1>1, <1>2 DEF MsgInv, Unique
  <2>2. /\ w \in Seq(Message) /\ Distinct(w) /\ Ids(w) \subseteq Ids(r.waiters)
        /\ \A k \in 1 .. Len(w) :
              /\ w[k].kind = "Delivery" /\ w[k].bytes = TileOf(w[k].source)
              /\ Waiting(M, w[k].to, w[k].epoch, w[k].source)
    BY <1>2, <1>3, <2>1, SlotDeliveriesAre
  <2> QED BY <1>2, <2>2
<1> HIDE DEF w
<1>8. M[Leader] \in Member /\ q \in Seq(Message) /\ Leader \in Members
  BY <1>1, LeaderIs, KeptTypes
<1>9. x \in Member /\ x.outgoing = q \o w /\ x.landings = M[Leader].landings /\ x.released = M[Leader].released
  <2>1. q \o w \in Seq(Message)
    BY <1>7, <1>8, ConcatIs
  <2> QED BY <1>8, <2>1 DEF Send, Member
<1> HIDE DEF x
<1>10. Changed(A, M, Leader, x)
  BY <1>1, <1>8, <1>9, WithIs
<1> HIDE DEF A
<1>11. /\ A[Leader].outgoing = q \o w /\ \A v \in Members : v # Leader => A[v].outgoing = M[v].outgoing
       /\ \A v \in Members : A[v].landings = M[v].landings /\ A[v].released = M[v].released
  BY <1>9, <1>10 DEF Changed
<1>12. ASSUME NEW y \in Message, MsgOk(M, J, T, y) PROVE MsgOk(A, J, T, y)
  <2>1. Keeps(M, J, T, A, J, T)
    BY <1>11 DEF Keeps
  <2> QED BY <1>12, <2>1, KeepsMsg
<1>13. ASSUME NEW k \in 1 .. Len(w) PROVE OutOk(A, J, T, Leader, w[k])
  <2>1. /\ w[k].kind = "Delivery" /\ w[k].bytes = TileOf(w[k].source)
        /\ Waiting(M, w[k].to, w[k].epoch, w[k].source) /\ w[k].to \in Members
    <3>1. w[k] \in Message
      BY <1>7
    <3> QED BY <1>7, <3>1, MessageIs
  <2>2. Waiting(A, w[k].to, w[k].epoch, w[k].source)
    BY <1>11, <2>1 DEF Waiting
  <2> QED BY <2>1, <2>2 DEF OutOk, MsgOk
<1>14. Fresh(M, T, N, Ids(w))
  BY <1>5, <1>7 DEF Fresh
<1>15. MsgInv(A, J, T, N) /\ Unique(A, T, N)
  BY <1>1, <1>6, <1>7, <1>8, <1>11, <1>12, <1>13, <1>14, PostedFresh
<1>16. Ordered(A[Leader].outgoing, J[Leader].epoch)
  <2>1. \A k \in 1 .. Len(w) : w[k].kind # "Release"
    BY <1>7
  <2>2. Ordered(q \o w, J[Leader].epoch)
    BY <1>6, <1>7, <1>8, <2>1, OrderedConcat
  <2> QED BY <1>11, <2>2
<1>17. Inv(A, J, D, T, X, N)
  BY <1>5, <1>8, <1>9, <1>10, <1>15, <1>16, Queued
<1> QED BY <1>9, <1>17 DEF A, T, x, w, t, r, s

-----------------------------------------------------------------------------
(* Local writes. *)

\* A member's landings and buffers changed, and nothing that a message refers to.
IsLanded(M, J, D, m, A, x, K, E) ==
    /\ Changed(A, M, m, x) /\ x.outgoing = M[m].outgoing /\ x.released = M[m].released
    /\ \A k \in M[m].landings : k.bytes = <<>> => k \in x.landings
    /\ K \in [Members -> Job] /\ \A v \in Members : v # m => K[v] = J[v]
    /\ K[m].epoch = J[m].epoch /\ K[m].active = J[m].active /\ K[m].next = J[m].next
    /\ K[m].finishSent = J[m].finishSent
    /\ E \in [Members -> [1 .. Dests -> Bytes]] /\ \A v \in Members : v # m => E[v] = D[v]
    /\ LandingInv(A, K, E, m) /\ HoldsInv(K, E, m)

LEMMA Landed ==
    ASSUME NEW M, NEW J, NEW D, NEW S, NEW X, NEW N, Inv(M, J, D, S, X, N), NEW m \in Members, NEW A, NEW x,
           NEW K, NEW E, IsLanded(M, J, D, m, A, x, K, E)
    PROVE  Inv(A, K, E, S, X, N)
<1>0. /\ Changed(A, M, m, x) /\ x.outgoing = M[m].outgoing /\ x.released = M[m].released
      /\ \A k \in M[m].landings : k.bytes = <<>> => k \in x.landings
      /\ K \in [Members -> Job] /\ \A v \in Members : v # m => K[v] = J[v]
      /\ K[m].epoch = J[m].epoch /\ K[m].active = J[m].active /\ K[m].next = J[m].next
      /\ K[m].finishSent = J[m].finishSent
      /\ E \in [Members -> [1 .. Dests -> Bytes]] /\ \A v \in Members : v # m => E[v] = D[v]
      /\ LandingInv(A, K, E, m) /\ HoldsInv(K, E, m)
  BY DEF IsLanded
<1> USE <1>0
<1>1. /\ M \in [Members -> Member] /\ S \in Server /\ N \in SUBSET Message
      /\ MsgInv(M, J, S, N) /\ Unique(M, S, N) /\ Ordered(M[Leader].outgoing, J[Leader].epoch)
  BY DEF Inv, Typed
<1>2. /\ A \in [Members -> Member] /\ A[m] = x /\ \A v \in Members : v # m => A[v] = M[v]
  BY DEF Changed
<1>3. \A v \in Members :
        /\ A[v].outgoing = M[v].outgoing /\ A[v].released = M[v].released
        /\ K[v].epoch = J[v].epoch /\ K[v].active = J[v].active /\ K[v].next = J[v].next
        /\ K[v].finishSent = J[v].finishSent
  BY <1>2
<1>4. Keeps(M, J, S, A, K, S)
  BY <1>2, <1>3 DEF Keeps
<1>5. SameQueues(M, S, A, S)
  BY <1>3 DEF SameQueues
<1>6. MsgInv(A, K, S, N) /\ Unique(A, S, N)
  BY <1>1, <1>4, <1>5, Undisturbed, SameBoxes
<1>7. Ordered(A[Leader].outgoing, K[Leader].epoch)
  BY <1>1, <1>3, LeaderIs
<1>8. ASSUME NEW v \in Members PROVE LandingInv(A, K, E, v) /\ HoldsInv(K, E, v)
  <2>1. CASE v # m
    <3>1. LandingInv(M, J, D, v) /\ HoldsInv(J, D, v) /\ A[v] = M[v] /\ K[v] = J[v] /\ E[v] = D[v]
      BY <1>2, <2>1 DEF Inv
    <3> QED BY <3>1, SameLandings
  <2> QED BY <2>1
<1>9. ASSUME NEW v \in Members PROVE JobInv(A, K, v)
  <2>1. JobInv(M, J, v)
    BY DEF Inv
  <2> QED BY <1>3, <2>1, LeaderIs DEF JobInv
<1>10. ASSUME NEW e \in EpochIds PROVE EpochInv(A, K, S, e)
  <2>1. EpochInv(M, J, S, e) /\ S.joined[e] \subseteq Members /\ S.finished[e] \subseteq Members
    BY <1>1 DEF Inv, Server
  <2> QED BY <1>4, <2>1, KeepsEpoch
<1>11. Typed(A, K, E, S, X, N)
  BY <1>2 DEF Inv, Typed
<1>12. \A i \in SlotIds : SlotInv(S, X, i)
  BY DEF Inv
<1> QED BY <1>6, <1>7, <1>8, <1>9, <1>10, <1>11, <1>12 DEF Inv

\* One chunk of one buffer of a member is written.
Write(D, m, d, c, s) == [D EXCEPT ![m][d][c] = s]

IsWrite(E, D, m, d, c, s) ==
    /\ E \in [Members -> [1 .. Dests -> Bytes]] /\ \A v \in Members : v # m => E[v] = D[v]
    /\ \A b \in 1 .. Dests : b # d => E[m][b] = D[m][b]
    /\ E[m][d][c] = s /\ \A k \in 1 .. Chunks : k # c => E[m][d][k] = D[m][d][k]

LEMMA WriteIs ==
    ASSUME NEW D \in [Members -> [1 .. Dests -> Bytes]], NEW m \in Members, NEW d \in 1 .. Dests,
           NEW c \in 1 .. Chunks, NEW s \in Tiles
    PROVE  IsWrite(Write(D, m, d, c, s), D, m, d, c, s)
<1> DEFINE b == [D[m][d] EXCEPT ![c] = s]
           a == [D[m] EXCEPT ![d] = b]
           E == [D EXCEPT ![m] = a]
<1>1. D[m][d] \in Bytes /\ D[m] \in [1 .. Dests -> Bytes]
  OBVIOUS
<1>2. b \in Bytes /\ b[c] = s /\ \A k \in 1 .. Chunks : k # c => b[k] = D[m][d][k]
  BY <1>1 DEF Bytes
<1>3. Write(D, m, d, c, s) = E
  BY DEF Write
<1> HIDE DEF b
<1>4. a \in [1 .. Dests -> Bytes] /\ a[d] = b /\ \A k \in 1 .. Dests : k # d => a[k] = D[m][k]
  BY <1>1, <1>2
<1> HIDE DEF a
<1>5. /\ E \in [Members -> [1 .. Dests -> Bytes]] /\ E[m] = a
      /\ \A v \in Members : v # m => E[v] = D[v]
  BY <1>4
<1> HIDE DEF E
<1>6. IsWrite(E, D, m, d, c, s)
  BY <1>2, <1>4, <1>5 DEF IsWrite
<1> QED BY <1>3, <1>6

LEMMA TileNotEmpty == \A s \in Tiles : TileOf(s) # <<>>
<1> SUFFICES ASSUME NEW s \in Tiles, TileOf(s) = <<>> PROVE FALSE
  OBVIOUS
<1>1. 1 \in 1 .. Chunks /\ 1 \notin 1 .. 0
  BY CohortAssumption
<1>2. DOMAIN TileOf(s) = 1 .. Chunks
  BY DEF TileOf
<1> QED BY <1>1, <1>2, EmptyRange

\* The landing whose write is under way.
IsWriting(M, J, D, m, l) ==
    /\ l \in Landing /\ l.bytes = TileOf(l.source) /\ l.bytes # <<>> /\ l.source \in Tiles
    /\ l.offset \in Nat /\ l.offset < Chunks /\ l.offset + 1 \in 1 .. Chunks
    /\ l.bytes[l.offset + 1] = l.source
    /\ DestOf(l.source) \in 1 .. Dests
    /\ LandingOk(J, D, m, l)
    /\ \A k \in M[m].landings : k # l => DestOf(k.source) # DestOf(l.source) /\ DestOf(k.source) \in 1 .. Dests

LEMMA WritingIs ==
    ASSUME NEW M, NEW J, NEW D, NEW S, NEW X, NEW N, Inv(M, J, D, S, X, N), NEW m \in Members,
           NEW l \in M[m].landings, l.pending
    PROVE  IsWriting(M, J, D, m, l)
<1>1. M \in [Members -> Member] /\ J \in [Members -> Job] /\ LandingInv(M, J, D, m)
  BY DEF Inv, Typed
<1>2. l \in Landing /\ LandingOk(J, D, m, l)
  <2>1. M[m] \in Member
    BY <1>1
  <2>2. M[m].landings \in SUBSET Landing
    BY <2>1 DEF Member
  <2> QED BY <1>1, <2>2 DEF LandingInv
<1>3. l.source \in Tiles /\ l.offset \in 0 .. Chunks - 1
  BY <1>2 DEF Landing
<1>4. l.bytes = TileOf(l.source) /\ l.bytes # <<>>
  BY <1>2, <1>3, TileNotEmpty DEF LandingOk
<1>5. l.offset \in Nat /\ l.offset < Chunks /\ l.offset + 1 \in 1 .. Chunks
  BY <1>3, CohortAssumption
<1>6. l.bytes[l.offset + 1] = l.source
  BY <1>4, <1>5 DEF TileOf
<1>7. ASSUME NEW k \in M[m].landings PROVE DestOf(k.source) \in 1 .. Dests
  <2>1. k.source \in 1 .. J[m].next - 1 /\ J[m].next \in Nat
    <3>1. J[m] \in Job /\ LandingOk(J, D, m, k)
      BY <1>1 DEF LandingInv
    <3>2. J[m].next \in 1 .. Sources + 1
      BY <3>1 DEF Job
    <3> QED BY <3>1, <3>2, CohortAssumption DEF LandingOk
  <2>2. k.source \in Nat \ {0}
    BY <2>1
  <2> QED BY <2>2, DestType
<1>8. ASSUME NEW k \in M[m].landings, k # l PROVE DestOf(k.source) # DestOf(l.source)
  BY <1>1, <1>8 DEF LandingInv
<1> QED BY <1>2, <1>3, <1>4, <1>5, <1>6, <1>7, <1>8 DEF IsWriting

\* A landing goes on with its next chunk.
LEMMA ChunkWritten ==
    ASSUME NEW M, NEW J, NEW D, NEW S, NEW X, NEW N, Inv(M, J, D, S, X, N), NEW m \in Members,
           NEW l \in M[m].landings, l.pending, l.offset + 1 # Chunks
    PROVE  LET k == [l EXCEPT !.offset = l.offset + 1, !.pending = FALSE]
               x == [M[m] EXCEPT !.landings = (@ \ {l}) \cup {k}]
           IN  Inv(With(M, m, x), J, Write(D, m, DestOf(l.source), l.offset + 1, l.source), S, X, N)
<1> DEFINE c == l.offset + 1
           d == DestOf(l.source)
           k == [l EXCEPT !.offset = c, !.pending = FALSE]
           x == [M[m] EXCEPT !.landings = (@ \ {l}) \cup {k}]
           A == With(M, m, x)
           E == Write(D, m, d, c, l.source)
<1>1. /\ M \in [Members -> Member] /\ M[m] \in Member /\ J \in [Members -> Job]
      /\ D \in [Members -> [1 .. Dests -> Bytes]]
      /\ LandingInv(M, J, D, m) /\ HoldsInv(J, D, m)
  BY DEF Inv, Typed
<1>2. /\ l \in Landing /\ l.bytes = TileOf(l.source) /\ l.bytes # <<>> /\ l.source \in Tiles
      /\ l.offset \in Nat /\ l.offset < Chunks /\ c \in 1 .. Chunks
      /\ d \in 1 .. Dests
      /\ LandingOk(J, D, m, l)
      /\ \A j \in M[m].landings : j # l => DestOf(j.source) # d /\ DestOf(j.source) \in 1 .. Dests
  <2>1. IsWriting(M, J, D, m, l)
    BY WritingIs
  <2> QED BY <2>1 DEF IsWriting
<1>3. IsWrite(E, D, m, d, c, l.source)
  BY <1>1, <1>2, WriteIs
<1> HIDE DEF E
<1>4. /\ E \in [Members -> [1 .. Dests -> Bytes]] /\ \A v \in Members : v # m => E[v] = D[v]
      /\ \A b \in 1 .. Dests : b # d => E[m][b] = D[m][b]
      /\ E[m][d][c] = l.source /\ \A b \in 1 .. Chunks : b # c => E[m][d][b] = D[m][d][b]
  BY <1>3 DEF IsWrite
<1>5. /\ k \in Landing /\ k.epoch = l.epoch /\ k.source = l.source /\ k.bytes = l.bytes /\ k.offset = c /\ ~k.pending
  <2>1. c \in 0 .. Chunks - 1
    BY <1>2, CohortAssumption
  <2> HIDE DEF c
  <2> QED BY <1>2, <2>1 DEF Landing
<1> HIDE DEF k
<1>6. /\ x \in Member /\ x.outgoing = M[m].outgoing /\ x.released = M[m].released
      /\ x.landings = (M[m].landings \ {l}) \cup {k}
  BY <1>1, <1>5 DEF Member
<1> HIDE DEF x
<1>7. Changed(A, M, m, x)
  BY <1>1, <1>6, WithIs
<1> HIDE DEF A
<1>8. A[m].landings = (M[m].landings \ {l}) \cup {k}
  BY <1>6, <1>7 DEF Changed
<1>9. HoldsInv(J, E, m)
  <2> SUFFICES ASSUME NEW b \in 1 .. Dests, J[m].holds[b] # 0
               PROVE  \A a \in 1 .. Chunks : E[m][b][a] = J[m].holds[b]
    BY DEF HoldsInv
  <2>1. b # d
    BY <1>2 DEF LandingOk
  <2>2. E[m][b] = D[m][b]
    BY <1>4, <2>1
  <2> QED BY <1>1, <2>2 DEF HoldsInv
<1>10. LandingOk(J, E, m, k)
  <2>1. \A a \in 1 .. c : a \in 1 .. Chunks /\ (a = c \/ (a \in 1 .. l.offset /\ a # c))
    BY <1>2, NextChunk, CohortAssumption
  <2>2. ASSUME NEW a \in 1 .. c PROVE E[m][d][a] = l.source
    <3>1. CASE a = c
      BY <1>4, <3>1
    <3>2. CASE a \in 1 .. l.offset /\ a # c
      <4>1. D[m][d][a] = l.source
        BY <1>2, <3>2 DEF LandingOk
      <4>2. E[m][d][a] = D[m][d][a]
        BY <1>4, <2>1, <3>2
      <4> QED BY <4>1, <4>2
    <3> QED BY <2>1, <3>1, <3>2
  <2> HIDE DEF c
  <2> QED BY <1>2, <1>5, <2>2 DEF LandingOk
<1>11. ASSUME NEW j \in M[m].landings, j # l PROVE LandingOk(J, E, m, j)
  <2>1. LandingOk(J, D, m, j) /\ E[m][DestOf(j.source)] = D[m][DestOf(j.source)]
    BY <1>1, <1>2, <1>4, <1>11 DEF LandingInv
  <2> QED BY <2>1 DEF LandingOk
<1>12. LandingInv(A, J, E, m)
  <2>1. \A j \in A[m].landings : LandingOk(J, E, m, j)
    BY <1>8, <1>10, <1>11
  <2>2. ASSUME NEW i \in A[m].landings, NEW j \in A[m].landings, DestOf(i.source) = DestOf(j.source) PROVE i = j
    <3>1. /\ i = k \/ (i \in M[m].landings /\ i # l)
          /\ j = k \/ (j \in M[m].landings /\ j # l)
      BY <1>8
    <3>2. CASE i = k
      BY <1>2, <1>5, <2>2, <3>1, <3>2
    <3>3. CASE j = k
      BY <1>2, <1>5, <2>2, <3>1, <3>3
    <3>4. CASE i \in M[m].landings /\ j \in M[m].landings
      BY <1>1, <2>2, <3>4 DEF LandingInv
    <3> QED BY <3>1, <3>2, <3>3, <3>4
  <2> QED BY <2>1, <2>2 DEF LandingInv
<1>13. \A j \in M[m].landings : j.bytes = <<>> => j \in x.landings
  BY <1>2, <1>6
<1>14. IsLanded(M, J, D, m, A, x, J, E)
  BY <1>1, <1>4, <1>6, <1>7, <1>9, <1>12, <1>13 DEF IsLanded
<1>15. Inv(A, J, E, S, X, N)
  BY <1>14, Landed
<1> QED BY <1>15 DEF A, E, x, k

\* The last chunk completes the fetch.
LEMMA TileWritten ==
    ASSUME NEW M, NEW J, NEW D, NEW S, NEW X, NEW N, Inv(M, J, D, S, X, N), NEW m \in Members,
           NEW l \in M[m].landings, l.pending, l.offset + 1 = Chunks
    PROVE  LET x == [M[m] EXCEPT !.landings = @ \ {l}]
               j == [J[m] EXCEPT !.holds = [@ EXCEPT ![DestOf(l.source)] = l.source]]
           IN  Inv(With(M, m, x), [J EXCEPT ![m] = j],
                   Write(D, m, DestOf(l.source), l.offset + 1, l.source), S, X, N)
<1> DEFINE c == l.offset + 1
           d == DestOf(l.source)
           x == [M[m] EXCEPT !.landings = @ \ {l}]
           j == [J[m] EXCEPT !.holds = [@ EXCEPT ![d] = l.source]]
           A == With(M, m, x)
           K == [J EXCEPT ![m] = j]
           E == Write(D, m, d, c, l.source)
<1>1. /\ M \in [Members -> Member] /\ M[m] \in Member /\ J \in [Members -> Job] /\ J[m] \in Job
      /\ D \in [Members -> [1 .. Dests -> Bytes]]
      /\ LandingInv(M, J, D, m) /\ HoldsInv(J, D, m)
  BY DEF Inv, Typed
<1>2. /\ l \in Landing /\ l.bytes = TileOf(l.source) /\ l.bytes # <<>> /\ l.source \in Tiles
      /\ l.offset \in Nat /\ l.offset < Chunks /\ c \in 1 .. Chunks
      /\ d \in 1 .. Dests
      /\ LandingOk(J, D, m, l)
      /\ \A k \in M[m].landings : k # l => DestOf(k.source) # d /\ DestOf(k.source) \in 1 .. Dests
  <2>1. IsWriting(M, J, D, m, l)
    BY WritingIs
  <2> QED BY <2>1 DEF IsWriting
<1>3. IsWrite(E, D, m, d, c, l.source)
  BY <1>1, <1>2, WriteIs
<1> HIDE DEF E
<1>4. /\ E \in [Members -> [1 .. Dests -> Bytes]] /\ \A v \in Members : v # m => E[v] = D[v]
      /\ \A b \in 1 .. Dests : b # d => E[m][b] = D[m][b]
      /\ E[m][d][c] = l.source /\ \A b \in 1 .. Chunks : b # c => E[m][d][b] = D[m][d][b]
  BY <1>3 DEF IsWrite
<1>5. /\ j \in Job /\ j.epoch = J[m].epoch /\ j.active = J[m].active /\ j.next = J[m].next
      /\ j.finishSent = J[m].finishSent /\ j.holds[d] = l.source
      /\ \A b \in 1 .. Dests : b # d => j.holds[b] = J[m].holds[b]
  <2>1. J[m].holds \in [1 .. Dests -> Tiles]
    BY <1>1 DEF Job
  <2> DEFINE h == [J[m].holds EXCEPT ![d] = l.source]
  <2>2. h \in [1 .. Dests -> Tiles] /\ h[d] = l.source /\ \A b \in 1 .. Dests : b # d => h[b] = J[m].holds[b]
    BY <1>2, <2>1
  <2>3. j = [J[m] EXCEPT !.holds = h]
    OBVIOUS
  <2> HIDE DEF h, j
  <2>4. j \in Job /\ j.epoch = J[m].epoch /\ j.active = J[m].active /\ j.next = J[m].next
        /\ j.finishSent = J[m].finishSent /\ j.holds = h
    BY <1>1, <2>2, <2>3 DEF Job
  <2> QED BY <2>2, <2>4
<1> HIDE DEF j
<1>6. K \in [Members -> Job] /\ K[m] = j /\ \A v \in Members : v # m => K[v] = J[v]
  BY <1>1, <1>5
<1> HIDE DEF K
<1>7. /\ x \in Member /\ x.outgoing = M[m].outgoing /\ x.released = M[m].released
      /\ x.landings = M[m].landings \ {l}
  BY <1>1 DEF Member
<1> HIDE DEF x
<1>8. Changed(A, M, m, x)
  BY <1>1, <1>7, WithIs
<1> HIDE DEF A
<1>9. A[m].landings = M[m].landings \ {l}
  BY <1>7, <1>8 DEF Changed
<1>10. HoldsInv(K, E, m)
  <2> SUFFICES ASSUME NEW b \in 1 .. Dests, K[m].holds[b] # 0
               PROVE  \A a \in 1 .. Chunks : E[m][b][a] = K[m].holds[b]
    BY DEF HoldsInv
  <2>1. CASE b # d
    <3>1. E[m][b] = D[m][b] /\ K[m].holds[b] = J[m].holds[b]
      BY <1>4, <1>5, <1>6, <2>1
    <3> QED BY <1>1, <3>1 DEF HoldsInv
  <2>2. CASE b = d
    <3>1. \A a \in 1 .. c : a \in 1 .. Chunks /\ (a = c \/ (a \in 1 .. l.offset /\ a # c))
      BY <1>2, NextChunk, CohortAssumption
    <3>2. ASSUME NEW a \in 1 .. c PROVE E[m][d][a] = l.source
      <4>1. CASE a = c
        BY <1>4, <4>1
      <4>2. CASE a \in 1 .. l.offset /\ a # c
        <5>1. D[m][d][a] = l.source
          BY <1>2, <4>2 DEF LandingOk
        <5>2. E[m][d][a] = D[m][d][a]
          BY <1>4, <3>1, <4>2
        <5> QED BY <5>1, <5>2
      <4> QED BY <3>1, <4>1, <4>2
    <3>3. K[m].holds[b] = l.source /\ c = Chunks
      BY <1>5, <1>6, <2>2
    <3> HIDE DEF c
    <3> QED BY <2>2, <3>2, <3>3
  <2> QED BY <2>1, <2>2
<1>11. ASSUME NEW k \in M[m].landings, k # l PROVE LandingOk(K, E, m, k)
  <2>1. /\ LandingOk(J, D, m, k) /\ E[m][DestOf(k.source)] = D[m][DestOf(k.source)]
        /\ K[m].holds[DestOf(k.source)] = J[m].holds[DestOf(k.source)]
    BY <1>1, <1>2, <1>4, <1>5, <1>6, <1>11 DEF LandingInv
  <2>2. K[m].epoch = J[m].epoch /\ K[m].active = J[m].active /\ K[m].next = J[m].next /\ K[m].finishSent = J[m].finishSent
    BY <1>5, <1>6
  <2> QED BY <2>1, <2>2 DEF LandingOk
<1>12. LandingInv(A, K, E, m)
  BY <1>1, <1>9, <1>11 DEF LandingInv
<1>13. \A k \in M[m].landings : k.bytes = <<>> => k \in x.landings
  BY <1>2, <1>7
<1>14. K[m].epoch = J[m].epoch /\ K[m].active = J[m].active /\ K[m].next = J[m].next
       /\ K[m].finishSent = J[m].finishSent
  BY <1>5, <1>6
<1>15. IsLanded(M, J, D, m, A, x, K, E)
  BY <1>4, <1>6, <1>7, <1>8, <1>10, <1>12, <1>13, <1>14 DEF IsLanded
<1>16. Inv(A, K, E, S, X, N)
  BY <1>15, Landed
<1> QED BY <1>16 DEF A, E, x, K, j

-----------------------------------------------------------------------------
(* The decoder job. *)

\* One message.
LEMMA OneMessage ==
    ASSUME NEW msg \in Message
    PROVE  /\ <<msg>> \in Seq(Message) /\ Distinct(<<msg>>) /\ Ids(<<msg>>) = {Id(msg)}
           /\ Len(<<msg>>) = 1 /\ <<msg>>[1] = msg
           /\ \A k \in 1 .. Len(<<msg>>) : k = 1 /\ <<msg>>[k] = msg
<1>1. <<msg>> \in Seq(Message) /\ Len(<<msg>>) = 1 /\ <<msg>>[1] = msg /\ \A k \in 1 .. 1 : k = 1
  OBVIOUS
<1> DEFINE w == <<msg>>
<1> HIDE DEF w
<1>2. w \in Seq(Message) /\ Len(w) = 1 /\ w[1] = msg /\ \A k \in 1 .. Len(w) : k = 1
  BY <1>1 DEF w
<1>3. Distinct(w) /\ \A k \in 1 .. Len(w) : k = 1 /\ w[k] = msg
  BY <1>2 DEF Distinct
<1>4. Ids(w) = {Id(msg)}
  <2>1. 1 \in 1 .. 1
    OBVIOUS
  <2> QED BY <1>2, <1>3, <2>1 DEF Ids
<1> QED BY <1>2, <1>3, <1>4 DEF w

LEMMA SendIs ==
    ASSUME NEW mm \in Member, NEW w \in Seq(Message)
    PROVE  /\ Send(mm, w) \in Member /\ Send(mm, w).outgoing = mm.outgoing \o w
           /\ Send(mm, w).landings = mm.landings /\ Send(mm, w).released = mm.released
<1>1. mm.outgoing \in Seq(Message)
  BY DEF Member
<1>2. mm.outgoing \o w \in Seq(Message)
  BY <1>1, ConcatIs
<1> QED BY <1>2 DEF Send, Member

\* Only the job of member m, its landings and its queue changed.
IsActed(M, J, m, A, x, K) ==
    /\ Changed(A, M, m, x) /\ x.released = M[m].released
    /\ K \in [Members -> Job] /\ \A v \in Members : v # m => K[v] = J[v]

\* The job of member m did not go back.
Onward(J, K, m) ==
    \A e \in EpochIds :
        /\ J[m].epoch >= e => K[m].epoch >= e
        /\ J[m].epoch > e \/ (J[m].epoch = e /\ J[m].finishSent) =>
              K[m].epoch > e \/ (K[m].epoch = e /\ K[m].finishSent)

LEMMA Acted ==
    ASSUME NEW M, NEW J, NEW D, NEW S, NEW X, NEW N, Inv(M, J, D, S, X, N), NEW m \in Members, NEW A, NEW x, NEW K,
           IsActed(M, J, m, A, x, K), Onward(J, K, m),
           MsgInv(A, K, S, N), Unique(A, S, N), Ordered(A[Leader].outgoing, K[Leader].epoch),
           LandingInv(A, K, D, m), HoldsInv(K, D, m), JobInv(A, K, m)
    PROVE  Inv(A, K, D, S, X, N)
<1>0. /\ Changed(A, M, m, x) /\ x.released = M[m].released
      /\ K \in [Members -> Job] /\ \A v \in Members : v # m => K[v] = J[v]
  BY DEF IsActed
<1> USE <1>0
<1>1. /\ A \in [Members -> Member] /\ A[m] = x /\ \A v \in Members : v # m => A[v] = M[v]
  BY DEF Changed
<1>2. \A v \in Members : A[v].released = M[v].released
  BY <1>1
<1>3. ASSUME NEW v \in Members PROVE LandingInv(A, K, D, v) /\ HoldsInv(K, D, v) /\ JobInv(A, K, v)
  <2>1. CASE v # m
    <3>1. LandingInv(M, J, D, v) /\ HoldsInv(J, D, v) /\ JobInv(M, J, v) /\ A[v] = M[v] /\ K[v] = J[v]
      BY <1>1, <2>1 DEF Inv
    <3>2. LandingInv(A, K, D, v) /\ HoldsInv(K, D, v)
      BY <3>1, SameLandings
    <3>3. JobInv(A, K, v)
      BY <1>2, <3>1, LeaderIs DEF JobInv
    <3> QED BY <3>2, <3>3
  <2> QED BY <2>1
<1>4. ASSUME NEW e \in EpochIds PROVE EpochInv(A, K, S, e)
  <2>1. EpochInv(M, J, S, e) /\ S.joined[e] \subseteq Members /\ S.finished[e] \subseteq Members
    BY DEF Inv, Typed, Server
  <2>2. ASSUME NEW v \in S.joined[e] PROVE K[v].epoch >= e
    <3>1. J[v].epoch >= e /\ v \in Members
      BY <2>1 DEF EpochInv
    <3>2. CASE v = m
      BY <3>1, <3>2 DEF Onward
    <3>3. CASE v # m
      BY <3>1, <3>3
    <3> QED BY <3>2, <3>3
  <2>3. ASSUME NEW v \in S.finished[e] PROVE K[v].epoch > e \/ (K[v].epoch = e /\ K[v].finishSent)
    <3>1. (J[v].epoch > e \/ (J[v].epoch = e /\ J[v].finishSent)) /\ v \in Members
      BY <2>1 DEF EpochInv
    <3>2. CASE v = m
      BY <3>1, <3>2 DEF Onward
    <3>3. CASE v # m
      BY <3>1, <3>3
    <3> QED BY <3>2, <3>3
  <2> QED BY <1>2, <2>1, <2>2, <2>3, LeaderIs DEF EpochInv
<1>5. Typed(A, K, D, S, X, N)
  BY <1>1 DEF Inv, Typed
<1>6. \A i \in SlotIds : SlotInv(S, X, i)
  BY DEF Inv
<1> QED BY <1>3, <1>4, <1>5, <1>6 DEF Inv

\* A member whose operator is over has seen every epoch released that it began.
LEMMA BetweenEpochs ==
    ASSUME NEW M, NEW J, NEW D, NEW S, NEW X, NEW N, Inv(M, J, D, S, X, N), NEW m \in Members, ~J[m].active
    PROVE  /\ M[m].landings = {}
           /\ \A e \in EpochIds : e <= J[m].epoch =>
                 e \in M[m].released /\ S.joined[e] = Members /\ S.finished[e] = Members
<1>1. J \in [Members -> Job] /\ LandingInv(M, J, D, m) /\ JobInv(M, J, m)
  BY DEF Inv, Typed
<1>2. M[m].landings = {}
  BY <1>1 DEF LandingInv, LandingOk
<1>3. ASSUME NEW e \in EpochIds, e <= J[m].epoch
      PROVE  e \in M[m].released /\ S.joined[e] = Members /\ S.finished[e] = Members
  <2>1. e < J[m].epoch \/ e = J[m].epoch
    <3>1. e \in Int /\ J[m].epoch \in Int
      BY <1>1 DEF Job, EpochIds
    <3> QED BY <1>3, <3>1
  <2>2. e \in M[m].released /\ e \in M[Leader].released
    BY <1>1, <2>1 DEF JobInv
  <2>3. EpochInv(M, J, S, e)
    BY DEF Inv
  <2> QED BY <2>2, <2>3 DEF EpochInv
<1> QED BY <1>2, <1>3

\* The Join that the leader queues for its next epoch keeps its releases in order.
LEMMA OrderedJoin ==
    ASSUME NEW q \in Seq(Message), NEW now \in Nat, Ordered(q, now),
           \A k \in 1 .. Len(q) : ~(q[k].kind = "Join" /\ q[k].epoch = now),
           NEW msg \in Message, msg.kind = "Join", msg.epoch = now + 1
    PROVE  Ordered(q \o <<msg>>, now + 1)
<1> DEFINE w == <<msg>>
           t == q \o w
<1>1. w \in Seq(Message) /\ Len(w) = 1 /\ w[1] = msg /\ \A k \in 1 .. Len(w) : w[k] = msg
  BY OneMessage
<1> HIDE DEF w
<1>2. /\ Len(q) \in Nat /\ Len(t) = Len(q) + 1
      /\ \A i \in 1 .. Len(q) : t[i] = q[i]
      /\ t[Len(q) + 1] = msg
  <2>1. 1 \in 1 .. Len(w) /\ w \in Seq(Message)
    BY <1>1
  <2>2. /\ Len(q) \in Nat /\ Len(t) = Len(q) + Len(w)
        /\ \A i \in 1 .. Len(q) : t[i] = q[i]
        /\ \A i \in 1 .. Len(w) : t[Len(q) + i] = w[i]
    BY <2>1, ConcatIs
  <2>3. t[Len(q) + 1] = w[1]
    BY <2>1, <2>2
  <2> QED BY <1>1, <2>2, <2>3
<1> HIDE DEF t
<1>3. ASSUME NEW k \in 1 .. Len(t), t[k].kind = "Release" /\ t[k].to = Leader
      PROVE  /\ now + 1 = t[k].epoch + 1
             /\ \E j \in k + 1 .. Len(t) : t[j].kind = "Join" /\ t[j].epoch = now + 1
  <2>1. k # Len(q) + 1
    BY <1>2, <1>3
  <2>2. k \in 1 .. Len(q) /\ Len(q) + 1 \in k + 1 .. Len(t)
    BY <1>2, <2>1
  <2>3. t[k] = q[k]
    BY <1>2, <2>2
  <2>4. now = q[k].epoch
    <3>1. k \in Nat /\ \A j \in k + 1 .. Len(q) : j \in 1 .. Len(q)
      BY <1>2, <2>2
    <3> QED BY <1>3, <2>2, <2>3, <3>1 DEF Ordered
  <2> QED BY <1>2, <2>2, <2>3, <2>4
<1>4. Ordered(t, now + 1)
  BY <1>3 DEF Ordered
<1> QED BY <1>4 DEF t, w

\* begin(epoch)
LEMMA Begun ==
    ASSUME NEW M, NEW J, NEW D, NEW S, NEW X, NEW N, Inv(M, J, D, S, X, N), NEW m \in Members,
           ~J[m].active, J[m].epoch < Epochs, NEW n \in {1, Sources + 1}
    PROVE  LET e == J[m].epoch + 1
               j == [epoch |-> e, active |-> TRUE, next |-> n, finishSent |-> FALSE,
                     holds |-> [d \in 1 .. Dests |-> 0]]
           IN  Inv(With(M, m, Send(M[m], <<Msg("Join", m, Leader, e, 0)>>)), [J EXCEPT ![m] = j], D, S, X, N)
<1> DEFINE e == J[m].epoch + 1
           j == [epoch |-> e, active |-> TRUE, next |-> n, finishSent |-> FALSE, holds |-> [d \in 1 .. Dests |-> 0]]
           K == [J EXCEPT ![m] = j]
           msg == Msg("Join", m, Leader, e, 0)
           w == <<msg>>
           q == M[m].outgoing
           x == Send(M[m], w)
           A == With(M, m, x)
<1>1. /\ M \in [Members -> Member] /\ M[m] \in Member /\ J \in [Members -> Job] /\ J[m] \in Job
      /\ S \in Server /\ N \in SUBSET Message /\ MsgInv(M, J, S, N) /\ Unique(M, S, N)
      /\ Ordered(M[Leader].outgoing, J[Leader].epoch) /\ JobInv(M, J, m) /\ q \in Seq(Message)
  BY KeptTypes DEF Inv, Typed
<1>2. /\ J[m].epoch \in Nat /\ e \in EpochIds /\ e # 0 /\ e # J[m].epoch /\ ~(J[m].epoch >= e)
      /\ \A f \in EpochIds : /\ f < e => f <= J[m].epoch
                             /\ J[m].epoch >= f => e >= f /\ e > f
                             /\ J[m].epoch > f => e > f
  <2>1. J[m].epoch \in 0 .. Epochs /\ Epochs \in Nat
    BY <1>1, CohortAssumption DEF Job
  <2> QED BY <2>1 DEF EpochIds
<1>3. /\ M[m].landings = {}
      /\ \A f \in EpochIds : f <= J[m].epoch =>
            f \in M[m].released /\ S.joined[f] = Members /\ S.finished[f] = Members
  BY BetweenEpochs
<1> HIDE DEF e
<1>4. j \in Job /\ j.epoch = e /\ j.active /\ j.next = n /\ ~j.finishSent /\ \A d \in 1 .. Dests : j.holds[d] = 0
  <2>1. n \in 1 .. Sources + 1 /\ 0 \in Tiles /\ e \in 0 .. Epochs
    BY <1>2, CohortAssumption DEF Tiles, EpochIds
  <2> QED BY <2>1 DEF Job
<1> HIDE DEF j
<1>5. K \in [Members -> Job] /\ K[m] = j /\ \A v \in Members : v # m => K[v] = J[v]
  BY <1>1, <1>4
<1> HIDE DEF K
<1>6. /\ msg \in Message /\ msg.kind = "Join" /\ msg.from = m /\ msg.to = Leader /\ msg.epoch = e /\ msg.source = 0
  <2>1. 0 \in Tiles /\ Leader \in Members
    BY CohortAssumption DEF Tiles
  <2> QED BY <1>2, <2>1 DEF Msg, Message
<1> HIDE DEF msg
<1>7. w \in Seq(Message) /\ Distinct(w) /\ Ids(w) = {Id(msg)} /\ \A k \in 1 .. Len(w) : w[k] = msg
  BY <1>6, OneMessage
<1> HIDE DEF w
<1>8. x \in Member /\ x.outgoing = q \o w /\ x.landings = M[m].landings /\ x.released = M[m].released
  BY <1>1, <1>7, SendIs
<1> HIDE DEF x
<1>9. Changed(A, M, m, x)
  BY <1>1, <1>8, WithIs
<1> HIDE DEF A
<1>10. /\ A[m].outgoing = q \o w /\ \A v \in Members : v # m => A[v].outgoing = M[v].outgoing
       /\ \A v \in Members : A[v].landings = M[v].landings /\ A[v].released = M[v].released
  BY <1>8, <1>9 DEF Changed
<1>11. ASSUME NEW y \in Message, MsgOk(M, J, S, y) PROVE ~(y.kind \in {"Join", "Finish"} /\ y.from = m)
  <2> SUFFICES ASSUME y.kind \in {"Join", "Finish"}, y.from = m PROVE FALSE
    OBVIOUS
  <2>1. y.epoch \in EpochIds /\ J[m].epoch = y.epoch
    BY <1>11, MessageIs DEF MsgOk
  <2>2. y.epoch <= J[m].epoch
    BY <1>2, <2>1
  <2>3. S.joined[y.epoch] = Members /\ S.finished[y.epoch] = Members
    BY <1>3, <2>1, <2>2
  <2> QED BY <1>11, <2>3 DEF MsgOk
<1>12. ASSUME NEW y \in Message, MsgOk(M, J, S, y) PROVE MsgOk(A, K, S, y)
  <2>1. ~(y.kind \in {"Join", "Finish"} /\ y.from = m) /\ y.from \in Members /\ y.to \in Members
    BY <1>11, <1>12, MessageIs
  <2>2. \A v \in Members : \A f, s : Waiting(M, v, f, s) => Waiting(A, v, f, s)
    BY <1>10 DEF Waiting
  <2> QED BY <1>5, <1>10, <1>12, <2>1, <2>2, LeaderIs DEF MsgOk
<1>13. ASSUME NEW y \in Message, MsgOk(M, J, S, y) PROVE Id(y) \notin Ids(w)
  <2> SUFFICES ASSUME Id(y) = Id(msg) PROVE FALSE
    BY <1>7
  <2>1. Id(msg).class = "Join" /\ Id(msg).owner = m
    BY <1>6 DEF Id
  <2>2. Id(y).class = "Join" /\ Id(y).owner = m
    BY <2>1
  <2>3. y.kind = "Join" /\ y.from = m
    BY <2>2 DEF Id
  <2> QED BY <1>11, <1>13, <2>3
<1>14. ASSUME NEW k \in 1 .. Len(w) PROVE OutOk(A, K, S, m, w[k])
  <2>1. w[k] = msg
    BY <1>7
  <2>2. m \notin S.joined[e]
    <3>1. EpochInv(M, J, S, e)
      BY <1>2 DEF Inv
    <3> QED BY <1>2, <3>1 DEF EpochInv
  <2>3. OutOk(A, K, S, m, msg)
    BY <1>4, <1>5, <1>6, <2>2 DEF OutOk, MsgOk
  <2> QED BY <2>1, <2>3
<1>15. MsgInv(A, K, S, N) /\ Unique(A, S, N)
  BY <1>1, <1>7, <1>10, <1>12, <1>13, <1>14, Posted
<1>16. Ordered(A[Leader].outgoing, K[Leader].epoch)
  <2>1. CASE m # Leader
    BY <1>1, <1>5, <1>10, <2>1, LeaderIs
  <2>2. CASE m = Leader
    <3>1. ASSUME NEW k \in 1 .. Len(q) PROVE ~(q[k].kind = "Join" /\ q[k].epoch = J[m].epoch)
      <4>1. q[k] \in Message /\ OutOk(M, J, S, m, q[k])
        BY <1>1, KeptTypes DEF MsgInv
      <4> QED BY <1>11, <4>1 DEF OutOk
    <3>2. Ordered(q, J[m].epoch) /\ msg.epoch = J[m].epoch + 1
      BY <1>1, <1>6, <2>2 DEF e
    <3>3. Ordered(q \o <<msg>>, J[m].epoch + 1)
      BY <1>1, <1>2, <1>6, <3>1, <3>2, OrderedJoin
    <3> QED BY <1>4, <1>5, <1>10, <2>2, <3>3 DEF w, e
  <2> QED BY <2>1, <2>2
<1>17. LandingInv(A, K, D, m) /\ HoldsInv(K, D, m)
  <2>1. A[m].landings = {} /\ \A d \in 1 .. Dests : K[m].holds[d] = 0
    BY <1>3, <1>4, <1>5, <1>10
  <2> QED BY <2>1 DEF LandingInv, HoldsInv
<1>18. JobInv(A, K, m)
  <2>1. K[m].epoch = e /\ K[m].active /\ ~K[m].finishSent /\ A[m].released = M[m].released
        /\ A[Leader].released = M[Leader].released
    BY <1>4, <1>5, <1>10, LeaderIs
  <2>2. M[m].released \subseteq M[Leader].released
    BY <1>1 DEF JobInv
  <2> QED BY <1>2, <1>3, <2>1, <2>2 DEF JobInv
<1>19. \A f \in EpochIds :
         /\ J[m].epoch >= f => K[m].epoch >= f
         /\ J[m].epoch > f \/ (J[m].epoch = f /\ J[m].finishSent) => K[m].epoch > f
  <2>1. ASSUME NEW f \in EpochIds, J[m].epoch = f PROVE J[m].epoch >= f
    BY <1>2, <2>1
  <2>2. K[m].epoch = e
    BY <1>4, <1>5
  <2> QED BY <1>2, <2>1, <2>2
<1>20. IsActed(M, J, m, A, x, K) /\ Onward(J, K, m)
  BY <1>5, <1>8, <1>9, <1>19 DEF IsActed, Onward
<1>21. Inv(A, K, D, S, X, N)
  BY <1>15, <1>16, <1>17, <1>18, <1>20, Acted
<1> QED BY <1>21 DEF A, K, x, w, msg, j, e

\* A member that asks for a tile has a landing to spare.
LEMMA LandingRoom ==
    ASSUME Counting, NEW M, NEW J, NEW D, NEW S, NEW X, NEW N, Inv(M, J, D, S, X, N), NEW m \in Members,
           NEW d \in 1 .. Dests, \A l \in M[m].landings : DestOf(l.source) # d
    PROVE  ~(Cardinality(M[m].landings) >= MaxLandings)
<1> DEFINE L == M[m].landings
           K == (1 .. Dests) \ {d}
           f == [l \in L |-> DestOf(l.source)]
<1>1. J \in [Members -> Job] /\ LandingInv(M, J, D, m)
  BY DEF Inv, Typed
<1>2. ASSUME NEW l \in L PROVE DestOf(l.source) \in 1 .. Dests
  <2>1. J[m] \in Job /\ LandingOk(J, D, m, l)
    BY <1>1 DEF LandingInv
  <2>2. J[m].next \in 1 .. Sources + 1 /\ l.source \in 1 .. J[m].next - 1
    BY <2>1 DEF Job, LandingOk
  <2>3. l.source \in Nat \ {0}
    BY <2>2, CohortAssumption
  <2> QED BY <2>3, DestType
<1>3. f \in [L -> K] /\ \A a, b \in L : f[a] = f[b] => a = b
  <2>1. f \in [L -> K]
    BY <1>2
  <2>2. \A a, b \in L : f[a] = f[b] => a = b
    BY <1>1 DEF LandingInv
  <2> QED BY <2>1, <2>2
<1>4. IsFiniteSet(K) /\ Cardinality(K) = Dests - 1 /\ Dests \in Nat
  <2>1. Dests \in Nat
    BY CohortAssumption
  <2> QED BY <2>1 DEF Counting, Intervals
<1> HIDE DEF K, f, L
<1>5. Cardinality(L) \in Nat /\ Cardinality(L) <= Cardinality(K)
  BY <1>3, <1>4 DEF Counting, Pigeonhole
<1>7. ~(Cardinality(L) >= MaxLandings)
  <2>1. Cardinality(L) <= Dests - 1 /\ Dests <= MaxLandings /\ MaxLandings \in Nat
    BY <1>4, <1>5, CohortAssumption
  <2> QED BY <1>4, <1>5, <2>1
<1> QED BY <1>7 DEF L

\* fetch()
LEMMA Fetched ==
    ASSUME NEW M, NEW J, NEW D, NEW S, NEW X, NEW N, Inv(M, J, D, S, X, N), NEW m \in Members,
           J[m].active, J[m].next <= Sources,
           \A l \in M[m].landings : DestOf(l.source) # DestOf(J[m].next)
    PROVE  LET s == J[m].next
               j == [J[m] EXCEPT !.next = s + 1, !.holds = [@ EXCEPT ![DestOf(s)] = 0]]
               l == [epoch |-> J[m].epoch, source |-> s, bytes |-> <<>>, offset |-> 0, pending |-> FALSE]
               x == Send([M[m] EXCEPT !.landings = @ \cup {l}], <<Msg("Request", m, Leader, J[m].epoch, s)>>)
           IN  /\ DestOf(s) \in 1 .. Dests
               /\ Inv(With(M, m, x), [J EXCEPT ![m] = j], D, S, X, N)
<1> DEFINE s == J[m].next
           e == J[m].epoch
           d == DestOf(s)
           h == [J[m].holds EXCEPT ![d] = 0]
           j == [J[m] EXCEPT !.next = s + 1, !.holds = [@ EXCEPT ![d] = 0]]
           K == [J EXCEPT ![m] = j]
           l == [epoch |-> e, source |-> s, bytes |-> <<>>, offset |-> 0, pending |-> FALSE]
           msg == Msg("Request", m, Leader, e, s)
           w == <<msg>>
           q == M[m].outgoing
           y0 == [M[m] EXCEPT !.landings = @ \cup {l}]
           x == Send(y0, w)
           A == With(M, m, x)
<1>1. /\ M \in [Members -> Member] /\ M[m] \in Member /\ J \in [Members -> Job] /\ J[m] \in Job
      /\ S \in Server /\ N \in SUBSET Message /\ MsgInv(M, J, S, N) /\ Unique(M, S, N)
      /\ Ordered(M[Leader].outgoing, J[Leader].epoch) /\ JobInv(M, J, m) /\ q \in Seq(Message)
      /\ LandingInv(M, J, D, m) /\ HoldsInv(J, D, m)
  BY KeptTypes DEF Inv, Typed
<1>2. /\ s \in Nat \ {0} /\ s \in Tiles /\ s + 1 \in 1 .. Sources + 1 /\ s \in 1 .. (s + 1) - 1
      /\ \A k \in 1 .. s - 1 : k \in 1 .. (s + 1) - 1 /\ k # s
      /\ ~(s > Sources)
  <2>1. J[m].next \in 1 .. Sources + 1 /\ J[m].next <= Sources /\ Sources \in Nat
    BY <1>1, CohortAssumption DEF Job
  <2> HIDE DEF s
  <2> QED BY <2>1 DEF s, Tiles
<1>3. d \in 1 .. Dests
  BY <1>2, DestType
<1>4. e \in EpochIds /\ ~J[m].finishSent
  <2>1. e # 0 /\ e \in 0 .. Epochs
    BY <1>1 DEF JobInv, Job
  <2>2. ~J[m].finishSent
    BY <1>1, <1>2 DEF JobInv
  <2> QED BY <2>1, <2>2, CohortAssumption DEF EpochIds
<1>5. /\ j \in Job /\ j.epoch = e /\ j.active = J[m].active /\ j.next = s + 1
      /\ j.finishSent = J[m].finishSent /\ j.holds[d] = 0
      /\ \A b \in 1 .. Dests : b # d => j.holds[b] = J[m].holds[b]
  <2>1. J[m].holds \in [1 .. Dests -> Tiles] /\ 0 \in Tiles
    BY <1>1, CohortAssumption DEF Job, Tiles
  <2>2. h \in [1 .. Dests -> Tiles] /\ h[d] = 0 /\ \A b \in 1 .. Dests : b # d => h[b] = J[m].holds[b]
    BY <1>3, <2>1
  <2>3. j = [J[m] EXCEPT !.next = s + 1, !.holds = h]
    BY <1>1 DEF Job
  <2> HIDE DEF h, j, d
  <2>4. IsFetching([J[m] EXCEPT !.next = s + 1, !.holds = h], J[m], s + 1, h)
    BY <1>1, <1>2, <2>2, FetchingIs
  <2>5. /\ j \in Job /\ j.epoch = e /\ j.active = J[m].active /\ j.next = s + 1
        /\ j.finishSent = J[m].finishSent /\ j.holds = h
    BY <2>3, <2>4 DEF IsFetching
  <2> QED BY <2>2, <2>5
<1> HIDE DEF j
<1>6. K \in [Members -> Job] /\ K[m] = j /\ \A v \in Members : v # m => K[v] = J[v]
  BY <1>1, <1>5
<1> HIDE DEF K
<1>7. msg \in Message /\ msg.kind = "Request" /\ msg.from = m /\ msg.to = Leader /\ msg.epoch = e /\ msg.source = s
  BY <1>2, <1>4, LeaderIs DEF Msg, Message
<1> HIDE DEF msg
<1>8. w \in Seq(Message) /\ Distinct(w) /\ Ids(w) = {Id(msg)} /\ \A k \in 1 .. Len(w) : w[k] = msg
  BY <1>7, OneMessage
<1> HIDE DEF w
<1>9. l \in Landing /\ l.epoch = e /\ l.source = s /\ l.bytes = <<>> /\ l.offset = 0 /\ ~l.pending
  <2>1. 0 \in 0 .. Chunks - 1
    BY CohortAssumption
  <2> QED BY <1>2, <1>4, <2>1 DEF Landing
<1> HIDE DEF l
<1>10. x \in Member /\ x.outgoing = q \o w /\ x.landings = M[m].landings \cup {l} /\ x.released = M[m].released
  <2>1. /\ y0 \in Member /\ y0.outgoing = q /\ y0.landings = M[m].landings \cup {l} /\ y0.released = M[m].released
    BY <1>1, <1>9 DEF Member
  <2> HIDE DEF y0
  <2>2. /\ x \in Member /\ x.outgoing = y0.outgoing \o w /\ x.landings = y0.landings /\ x.released = y0.released
    BY <1>8, <2>1, SendIs
  <2> QED BY <2>1, <2>2
<1> HIDE DEF x
<1>11. Changed(A, M, m, x)
  BY <1>1, <1>10, WithIs
<1> HIDE DEF A
<1>12. /\ A[m].outgoing = q \o w /\ \A v \in Members : v # m => A[v].outgoing = M[v].outgoing
       /\ A[m].landings = M[m].landings \cup {l}
       /\ \A v \in Members : M[v].landings \subseteq A[v].landings /\ A[v].released = M[v].released
  BY <1>10, <1>11 DEF Changed
<1>13. Keeps(M, J, S, A, K, S)
  BY <1>5, <1>6, <1>12 DEF Keeps
<1>14. ASSUME NEW y \in Message, MsgOk(M, J, S, y) PROVE MsgOk(A, K, S, y)
  BY <1>13, <1>14, KeepsMsg
<1>15. ASSUME NEW y \in Message, MsgOk(M, J, S, y) PROVE Id(y) \notin Ids(w)
  <2> SUFFICES ASSUME Id(y) = Id(msg) PROVE FALSE
    BY <1>8
  <2>1. Id(msg).class = "Tile" /\ Id(msg).owner = m /\ Id(msg).source = s
    BY <1>7 DEF Id
  <2>2. Id(y).class = "Tile" /\ Id(y).owner = m /\ Id(y).source = s
    BY <2>1
  <2>3. y.source = s /\ ((y.kind = "Request" /\ y.from = m) \/ (y.kind = "Delivery" /\ y.to = m))
    <3>1. y.source = s /\ y.kind \in {"Request", "Delivery"}
      <4>1. Id(y).source = y.source
        BY DEF Id
      <4>2. Id(y).class = IF y.kind \in {"Request", "Delivery"} THEN "Tile" ELSE y.kind
        BY DEF Id
      <4>3. y.kind \in {"Join", "Request", "Delivery", "Finish", "Release"}
        BY DEF Message
      <4> HIDE DEF s
      <4> QED BY <2>2, <4>1, <4>2, <4>3
    <3>2. CASE y.kind = "Request"
      BY <2>2, <3>1, <3>2 DEF Id
    <3>3. CASE y.kind = "Delivery"
      BY <2>2, <3>1, <3>3 DEF Id
    <3> QED BY <3>1, <3>2, <3>3
  <2>4. Waiting(M, m, y.epoch, s)
    BY <1>15, <2>3 DEF MsgOk
  <2>5. PICK k \in M[m].landings : k.source = s
    BY <2>4 DEF Waiting
  <2>6. s \in 1 .. s - 1
    BY <1>1, <2>5 DEF LandingInv, LandingOk
  <2> QED BY <1>2, <2>6
<1>16. ASSUME NEW k \in 1 .. Len(w) PROVE OutOk(A, K, S, m, w[k])
  <2>1. w[k] = msg
    BY <1>8
  <2>2. Waiting(A, m, e, s)
    BY <1>9, <1>12 DEF Waiting
  <2>3. OutOk(A, K, S, m, msg)
    BY <1>7, <2>2 DEF OutOk, MsgOk
  <2> QED BY <2>1, <2>3
<1>17. MsgInv(A, K, S, N) /\ Unique(A, S, N)
  BY <1>1, <1>8, <1>12, <1>14, <1>15, <1>16, Posted
<1>18. Ordered(A[Leader].outgoing, K[Leader].epoch)
  <2>1. CASE m # Leader
    BY <1>1, <1>6, <1>12, <2>1, LeaderIs
  <2>2. CASE m = Leader
    <3>1. \A k \in 1 .. Len(w) : w[k].kind # "Release"
      BY <1>7, <1>8
    <3>2. Ordered(q \o w, J[m].epoch)
      BY <1>1, <1>8, <2>2, <3>1, OrderedConcat
    <3> QED BY <1>5, <1>6, <1>12, <2>2, <3>2
  <2> QED BY <2>1, <2>2
<1>19. LandingInv(A, K, D, m)
  <2>1. /\ K[m].epoch = e /\ K[m].active /\ K[m].next = s + 1 /\ ~K[m].finishSent /\ K[m].holds[d] = 0
        /\ \A b \in 1 .. Dests : b # d => K[m].holds[b] = J[m].holds[b]
    BY <1>4, <1>5, <1>6
  <2>2. LandingOk(K, D, m, l)
    <3> QED BY <1>2, <1>9, <2>1, EmptyRange DEF LandingOk
  <2>3. ASSUME NEW k \in M[m].landings PROVE LandingOk(K, D, m, k)
    <3>1. LandingOk(J, D, m, k) /\ DestOf(k.source) # d
      BY <1>1 DEF LandingInv
    <3>2. k.source \in 1 .. (s + 1) - 1 /\ DestOf(k.source) \in 1 .. Dests
      <4>1. k.source \in 1 .. s - 1
        BY <3>1 DEF LandingOk
      <4>2. k.source \in Nat \ {0}
        BY <1>2, <4>1
      <4> QED BY <1>2, <4>1, <4>2, DestType
    <3>3. K[m].holds[DestOf(k.source)] = J[m].holds[DestOf(k.source)]
      BY <2>1, <3>1, <3>2
    <3> QED BY <2>1, <3>1, <3>2, <3>3 DEF LandingOk
  <2>4. \A k \in A[m].landings : k = l \/ k \in M[m].landings
    BY <1>12
  <2>5. ASSUME NEW i \in A[m].landings, NEW k \in A[m].landings, DestOf(i.source) = DestOf(k.source) PROVE i = k
    <3>1. CASE i \in M[m].landings /\ k \in M[m].landings
      BY <1>1, <2>5, <3>1 DEF LandingInv
    <3>2. CASE i = l
      BY <1>9, <2>4, <2>5, <3>2
    <3>3. CASE k = l
      BY <1>9, <2>4, <2>5, <3>3
    <3> QED BY <2>4, <3>1, <3>2, <3>3
  <2> QED BY <2>2, <2>3, <2>4, <2>5 DEF LandingInv
<1>20. HoldsInv(K, D, m)
  <2> SUFFICES ASSUME NEW b \in 1 .. Dests, K[m].holds[b] # 0
               PROVE  \A c \in 1 .. Chunks : D[m][b][c] = K[m].holds[b]
    BY DEF HoldsInv
  <2>1. K[m].holds[b] = J[m].holds[b]
    BY <1>5, <1>6
  <2> QED BY <1>1, <2>1 DEF HoldsInv
<1>21. JobInv(A, K, m)
  <2>1. K[m].epoch = e /\ K[m].active = J[m].active /\ ~K[m].finishSent /\ A[m].released = M[m].released
        /\ A[Leader].released = M[Leader].released
    BY <1>4, <1>5, <1>6, <1>12, LeaderIs
  <2> QED BY <1>1, <2>1 DEF JobInv
<1>22. K[m].epoch = J[m].epoch /\ K[m].finishSent = J[m].finishSent
  BY <1>5, <1>6
<1>23. IsActed(M, J, m, A, x, K) /\ Onward(J, K, m)
  BY <1>6, <1>10, <1>11, <1>22 DEF IsActed, Onward
<1>24. Inv(A, K, D, S, X, N)
  BY <1>17, <1>18, <1>19, <1>20, <1>21, <1>23, Acted
<1> QED BY <1>3, <1>24 DEF A, K, x, w, msg, j, l

\* The job of a member after Signal.
Signalled(M, J, m) == [J[m] EXCEPT !.finishSent = TRUE, !.active = J[m].epoch \notin M[m].released]

IsSignalled(M, J, m, j, K) ==
    /\ K \in [Members -> Job] /\ K[m] = j /\ \A v \in Members : v # m => K[v] = J[v]
    /\ j.epoch = J[m].epoch /\ j.next = J[m].next /\ j.holds = J[m].holds /\ j.finishSent
    /\ j.active <=> J[m].epoch \notin M[m].released

LEMMA SignalledIs ==
    ASSUME NEW M, NEW J \in [Members -> Job], NEW m \in Members
    PROVE  IsSignalled(M, J, m, Signalled(M, J, m), [J EXCEPT ![m] = Signalled(M, J, m)])
<1> DEFINE j == Signalled(M, J, m)
           p == J[m].epoch \notin M[m].released
<1>1. J[m] \in Job /\ p \in BOOLEAN
  OBVIOUS
<1>2. j = [J[m] EXCEPT !.finishSent = TRUE, !.active = p]
  BY DEF Signalled
<1> HIDE DEF p, j
<1>3. /\ j \in Job /\ j.epoch = J[m].epoch /\ j.next = J[m].next /\ j.holds = J[m].holds /\ j.finishSent
      /\ j.active = p
  BY <1>1, <1>2 DEF Job
<1>4. [J EXCEPT ![m] = j] \in [Members -> Job] /\ [J EXCEPT ![m] = j][m] = j
      /\ \A v \in Members : v # m => [J EXCEPT ![m] = j][v] = J[v]
  BY <1>3
<1> QED BY <1>3, <1>4 DEF IsSignalled, p, j

\* The job is over once its epoch is released to it; the landings are gone.
LEMMA JobSignalled ==
    ASSUME NEW M, NEW J, NEW D, NEW S, NEW X, NEW N, Inv(M, J, D, S, X, N), NEW m \in Members,
           J[m].active, J[m].next > Sources, M[m].landings = {}, NEW A, NEW x,
           Changed(A, M, m, x), x.released = M[m].released, x.landings = M[m].landings,
           MsgInv(A, [J EXCEPT ![m] = Signalled(M, J, m)], S, N), Unique(A, S, N),
           Ordered(A[Leader].outgoing, J[Leader].epoch)
    PROVE  Inv(A, [J EXCEPT ![m] = Signalled(M, J, m)], D, S, X, N)
<1> DEFINE j == Signalled(M, J, m)
           K == [J EXCEPT ![m] = j]
<1>1. J \in [Members -> Job] /\ JobInv(M, J, m) /\ HoldsInv(J, D, m) /\ MsgInv(A, K, S, N)
  BY DEF Inv, Typed
<1>2. /\ K \in [Members -> Job] /\ K[m] = j /\ \A v \in Members : v # m => K[v] = J[v]
      /\ j.epoch = J[m].epoch /\ j.next = J[m].next /\ j.holds = J[m].holds /\ j.finishSent
      /\ j.active <=> J[m].epoch \notin M[m].released
  <2>1. IsSignalled(M, J, m, j, K)
    BY <1>1, SignalledIs
  <2> HIDE DEF j, K
  <2> QED BY <2>1 DEF IsSignalled
<1> HIDE DEF K, j
<1>3. /\ A[m].released = M[m].released /\ A[m].landings = {} /\ A[Leader].released = M[Leader].released
  BY LeaderIs DEF Changed
<1>4. LandingInv(A, K, D, m)
  BY <1>3 DEF LandingInv
<1>5. HoldsInv(K, D, m)
  BY <1>1, <1>2 DEF HoldsInv
<1>6. JobInv(A, K, m)
  <2>1. K[m].epoch = J[m].epoch /\ K[m].next = J[m].next /\ K[m].finishSent
        /\ (K[m].active <=> J[m].epoch \notin M[m].released)
    BY <1>2
  <2> QED BY <1>1, <1>3, <2>1 DEF JobInv
<1>7. Ordered(A[Leader].outgoing, K[Leader].epoch)
  <2>1. K[Leader].epoch = J[Leader].epoch
    BY <1>2, LeaderIs
  <2> QED BY <2>1
<1>8. K[m].epoch = J[m].epoch /\ K[m].finishSent
  BY <1>2
<1>9. IsActed(M, J, m, A, x, K) /\ Onward(J, K, m)
  BY <1>2, <1>8 DEF IsActed, Onward
<1>10. Inv(A, K, D, S, X, N)
  BY <1>1, <1>4, <1>5, <1>6, <1>7, <1>9, Acted
<1> QED BY <1>10 DEF K, j

\* Finish is sent.
LEMMA FinishSent ==
    ASSUME NEW M, NEW J, NEW D, NEW S, NEW X, NEW N, Inv(M, J, D, S, X, N), NEW m \in Members,
           J[m].active, J[m].next > Sources, M[m].landings = {}, ~J[m].finishSent
    PROVE  Inv(With(M, m, Send(M[m], <<Msg("Finish", m, Leader, J[m].epoch, 0)>>)),
               [J EXCEPT ![m] = Signalled(M, J, m)], D, S, X, N)
<1> DEFINE e == J[m].epoch
           j == Signalled(M, J, m)
           K == [J EXCEPT ![m] = j]
           msg == Msg("Finish", m, Leader, e, 0)
           w == <<msg>>
           q == M[m].outgoing
           x == Send(M[m], w)
           A == With(M, m, x)
<1>1. /\ M \in [Members -> Member] /\ M[m] \in Member /\ J \in [Members -> Job] /\ J[m] \in Job
      /\ S \in Server /\ N \in SUBSET Message /\ MsgInv(M, J, S, N) /\ Unique(M, S, N)
      /\ Ordered(M[Leader].outgoing, J[Leader].epoch) /\ JobInv(M, J, m) /\ q \in Seq(Message)
  BY KeptTypes DEF Inv, Typed
<1>2. e \in EpochIds /\ 0 \in Tiles /\ ~(e > e)
  <2>1. e # 0 /\ e \in 0 .. Epochs
    BY <1>1 DEF JobInv, Job
  <2> QED BY <2>1, CohortAssumption DEF EpochIds, Tiles
<1>3. /\ K \in [Members -> Job] /\ K[m] = j /\ \A v \in Members : v # m => K[v] = J[v]
      /\ j.epoch = e /\ j.finishSent
  <2>1. IsSignalled(M, J, m, j, K)
    BY <1>1, SignalledIs
  <2> HIDE DEF j, K
  <2> QED BY <2>1 DEF IsSignalled
<1> HIDE DEF K, j
<1>4. msg \in Message /\ msg.kind = "Finish" /\ msg.from = m /\ msg.to = Leader /\ msg.epoch = e /\ msg.source = 0
  BY <1>2, LeaderIs DEF Msg, Message
<1> HIDE DEF msg
<1>5. w \in Seq(Message) /\ Distinct(w) /\ Ids(w) = {Id(msg)} /\ \A k \in 1 .. Len(w) : w[k] = msg
  BY <1>4, OneMessage
<1> HIDE DEF w
<1>6. x \in Member /\ x.outgoing = q \o w /\ x.landings = M[m].landings /\ x.released = M[m].released
  BY <1>1, <1>5, SendIs
<1> HIDE DEF x
<1>7. Changed(A, M, m, x)
  BY <1>1, <1>6, WithIs
<1> HIDE DEF A
<1>8. /\ A[m].outgoing = q \o w /\ \A v \in Members : v # m => A[v].outgoing = M[v].outgoing
      /\ \A v \in Members : A[v].landings = M[v].landings /\ A[v].released = M[v].released
  BY <1>6, <1>7 DEF Changed
<1>9. Keeps(M, J, S, A, K, S)
  BY <1>3, <1>8 DEF Keeps
<1>10. ASSUME NEW y \in Message, MsgOk(M, J, S, y) PROVE MsgOk(A, K, S, y)
  BY <1>9, <1>10, KeepsMsg
<1>11. ASSUME NEW y \in Message, MsgOk(M, J, S, y) PROVE Id(y) \notin Ids(w)
  <2> SUFFICES ASSUME Id(y) = Id(msg) PROVE FALSE
    BY <1>5
  <2>1. Id(msg).class = "Finish" /\ Id(msg).owner = m
    BY <1>4 DEF Id
  <2>2. Id(y).class = "Finish" /\ Id(y).owner = m
    BY <2>1
  <2>3. y.kind = "Finish" /\ y.from = m
    BY <2>2 DEF Id
  <2> QED BY <1>11, <2>3 DEF MsgOk
<1>12. ASSUME NEW k \in 1 .. Len(w) PROVE OutOk(A, K, S, m, w[k])
  <2>1. w[k] = msg
    BY <1>5
  <2>2. m \notin S.finished[e]
    <3>1. EpochInv(M, J, S, e)
      BY <1>2 DEF Inv
    <3> QED BY <1>2, <3>1 DEF EpochInv
  <2>3. OutOk(A, K, S, m, msg)
    BY <1>3, <1>4, <2>2 DEF OutOk, MsgOk
  <2> QED BY <2>1, <2>3
<1>13. MsgInv(A, K, S, N) /\ Unique(A, S, N)
  BY <1>1, <1>5, <1>8, <1>10, <1>11, <1>12, Posted
<1>14. Ordered(A[Leader].outgoing, J[Leader].epoch)
  <2>1. CASE m # Leader
    BY <1>1, <1>8, <2>1, LeaderIs
  <2>2. CASE m = Leader
    <3>1. \A k \in 1 .. Len(w) : w[k].kind # "Release"
      BY <1>4, <1>5
    <3>2. Ordered(q \o w, J[m].epoch)
      BY <1>1, <1>5, <2>2, <3>1, OrderedConcat
    <3> QED BY <1>8, <2>2, <3>2
  <2> QED BY <2>1, <2>2
<1>15. Inv(A, K, D, S, X, N)
  BY <1>6, <1>7, <1>13, <1>14, JobSignalled DEF K, j
<1> QED BY <1>15 DEF A, K, x, w, msg, j

\* The job polls for the release of its epoch.
LEMMA Polled ==
    ASSUME NEW M, NEW J, NEW D, NEW S, NEW X, NEW N, Inv(M, J, D, S, X, N), NEW m \in Members,
           J[m].active, J[m].next > Sources, M[m].landings = {}
    PROVE  Inv(M, [J EXCEPT ![m] = Signalled(M, J, m)], D, S, X, N)
<1> DEFINE j == Signalled(M, J, m)
           K == [J EXCEPT ![m] = j]
<1>1. /\ M \in [Members -> Member] /\ J \in [Members -> Job]
      /\ S \in Server /\ N \in SUBSET Message /\ MsgInv(M, J, S, N) /\ Unique(M, S, N)
      /\ Ordered(M[Leader].outgoing, J[Leader].epoch)
  BY DEF Inv, Typed
<1>2. /\ K \in [Members -> Job] /\ K[m] = j /\ \A v \in Members : v # m => K[v] = J[v]
      /\ j.epoch = J[m].epoch /\ j.finishSent
  <2>1. IsSignalled(M, J, m, j, K)
    BY <1>1, SignalledIs
  <2> HIDE DEF j, K
  <2> QED BY <2>1 DEF IsSignalled
<1> HIDE DEF K, j
<1>3. Keeps(M, J, S, M, K, S) /\ SameQueues(M, S, M, S)
  BY <1>2 DEF Keeps, SameQueues
<1>4. MsgInv(M, K, S, N)
  BY <1>1, <1>3, Undisturbed
<1>5. Changed(M, M, m, M[m])
  BY <1>1 DEF Changed
<1>6. Inv(M, K, D, S, X, N)
  BY <1>1, <1>4, <1>5, JobSignalled DEF K, j
<1> QED BY <1>6 DEF K, j
==============================================================================
