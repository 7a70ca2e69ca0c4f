----------------------- MODULE GlobalMemoryDmaProofs -----------------------
(* The safety of the DMA read engine of GlobalMemoryDma, for any transfers,   *)
(* window, retry limits, port queue and number of generations.                *)
EXTENDS GlobalMemoryDmaInv, TLAPS, FiniteSetTheorems

\* A leaf is tried with Zenon, then with SMT.
USE ZenonT(5), SMTT(20)

-----------------------------------------------------------------------------
(* Constants and identifiers. *)

LEMMA ConstantTypes ==
    /\ LandChunks \in Nat \ {0} /\ TailChunks \in Nat \ {0} /\ TailChunks <= LandChunks
    /\ RetryTicks \in Nat \ {0} /\ MaxRetries \in Nat /\ QueueDepth \in Nat \ {0}
    /\ MaxInflight \in Nat \ {0} /\ Generations \in Nat
    /\ \A t \in Xid : Bursts[t] \in Nat \ {0}
BY DmaAssumption DEF DmaAssumption, Xid

LEMMA NextOffset == \A o, c \in Nat : \A n \in 1 .. c : o < n => o + 1 \in 0 .. c
OBVIOUS

LEMMA OneShorter == \A n, q \in Nat : \A k : n <= q /\ k = n - 1 => k <= q
OBVIOUS

LEMMA RidFields ==
    /\ \A r \in Rid : r[1] \in Xid /\ r[2] \in 1 .. Bursts[r[1]] /\ r = <<r[1], r[2]>>
    /\ \A t \in Xid : \A b \in 1 .. Bursts[t] : <<t, b>> \in Rid
BY DEF Rid

LEMMA LandsType == \A r \in Rid : Lands(r) \in 1 .. LandChunks
BY ConstantTypes, RidFields DEF Lands

-----------------------------------------------------------------------------
(* Sets of READs.  What sending, time-outs and the window do to dma_pending    *)
(* keeps the identifiers and generations. *)

Retimed(d, e) ==
    /\ e \subseteq Op
    /\ \A y \in e : \E x \in d : y.id = x.id /\ y.gen = x.gen
    /\ \A x \in d : \E y \in e : y.id = x.id /\ y.gen = x.gen
    /\ Unique(d) => Unique(e)

LEMMA RetimedSame == ASSUME NEW d \in SUBSET Op PROVE Retimed(d, d)
BY DEF Retimed

LEMMA RetimedTrans ==
    ASSUME NEW d, NEW e, NEW f, Retimed(d, e), Retimed(e, f)
    PROVE  Retimed(d, f)
BY DEF Retimed

LEMMA RetimedIds ==
    ASSUME NEW d, NEW e, Retimed(d, e)
    PROVE  Ids(e) = Ids(d)
BY DEF Retimed, Ids

\* The updates of a PendingDmaOp.
LEMMA OpUpdates ==
    ASSUME NEW op \in Op, NEW k \in 0 .. RetryTicks, NEW n \in 0 .. MaxRetries
    PROVE  /\ LET x == [op EXCEPT !.sent = TRUE, !.ticks = k]
              IN  x \in Op /\ x.id = op.id /\ x.gen = op.gen
           /\ LET x == [op EXCEPT !.issued = TRUE, !.sent = FALSE, !.ticks = k]
              IN  x \in Op /\ x.id = op.id /\ x.gen = op.gen
           /\ LET x == [op EXCEPT !.tries = n, !.sent = FALSE]
              IN  x \in Op /\ x.id = op.id /\ x.gen = op.gen
           /\ LET x == [op EXCEPT !.ticks = k]
              IN  x \in Op /\ x.id = op.id /\ x.gen = op.gen
BY Zenon DEF Op

LEMMA OpAgain ==
    ASSUME NEW op \in Op, op.tries < MaxRetries
    PROVE  LET x == [op EXCEPT !.tries = @ + 1, !.sent = FALSE]
           IN  x \in Op /\ x.id = op.id /\ x.gen = op.gen
<1>1. op.tries + 1 \in 0 .. MaxRetries /\ 0 \in 0 .. RetryTicks
  BY ConstantTypes DEF Op
<1> QED BY <1>1, OpUpdates

\* mark_dma_read_sent
LEMMA TransmitRetimed ==
    ASSUME NEW io, io.dma \in SUBSET Op, NEW s
    PROVE  Retimed(io.dma, Transmit(io, s).dma)
<1> DEFINE f(op) == IF op.id \in Range(s) THEN [op EXCEPT !.sent = TRUE, !.ticks = RetryTicks] ELSE op
           d == io.dma
           e == {f(op) : op \in d}
<1>1. Transmit(io, s).dma = e
  BY DEF Transmit
<1>2. \A op \in d : f(op) \in Op /\ f(op).id = op.id /\ f(op).gen = op.gen
  <2>1. RetryTicks \in 0 .. RetryTicks /\ 0 \in 0 .. MaxRetries
    BY ConstantTypes
  <2> QED BY <2>1, OpUpdates
<1>3. Retimed(d, e)
  <2> HIDE DEF f, d
  <2> QED BY <1>2 DEF Retimed, Unique
<1> QED BY <1>1, <1>3

\* try_send_or_queue
LEMMA SendReadsRetimed ==
    ASSUME NEW d \in SUBSET Op, NEW q, NEW n, NEW s, NEW room
    PROVE  Retimed(d, SendReads([dma |-> d, q |-> q, net |-> n], s, room).dma)
<1> DEFINE all == q \o s
           k == IF room < Len(all) THEN room ELSE Len(all)
           io == [[dma |-> d, q |-> q, net |-> n] EXCEPT !.q = SubSeq(all, k + 1, Len(all))]
<1>1. SendReads([dma |-> d, q |-> q, net |-> n], s, room) = Transmit(io, SubSeq(all, 1, k))
  BY Zenon DEF SendReads
<1>2. io.dma = d
  BY Zenon
<1> HIDE DEF io, k, all
<1> QED BY <1>1, <1>2, TransmitRetimed

\* issue_pending_dma_read_window
LEMMA MarkIssuedRetimed ==
    ASSUME NEW d \in SUBSET Op, NEW ids
    PROVE  Retimed(d, MarkIssued(d, ids))
<1> DEFINE f(op) == IF op.id \in ids THEN [op EXCEPT !.issued = TRUE, !.sent = FALSE, !.ticks = RetryTicks]
                                      ELSE op
<1>1. MarkIssued(d, ids) = {f(op) : op \in d}
  BY DEF MarkIssued
<1>2. \A op \in d : f(op) \in Op /\ f(op).id = op.id /\ f(op).gen = op.gen
  <2>1. RetryTicks \in 0 .. RetryTicks /\ 0 \in 0 .. MaxRetries
    BY ConstantTypes
  <2> QED BY <2>1, OpUpdates
<1> HIDE DEF f
<1> QED BY <1>1, <1>2 DEF Retimed, Unique

\* The end of an event.
LEMMA EndWithRetimed ==
    ASSUME NEW d \in SUBSET Op, NEW q, NEW n, EndWith(d, q, n)
    PROVE  Retimed(d, dma')
<1>1. PICK s \in Windows(d) : \E room \in Room(q, s) :
          dma' = SendReads([dma |-> MarkIssued(d, Range(s)), q |-> q, net |-> n], s, room).dma
  BY DEF EndWith
<1>2. PICK room \in Room(q, s) :
          dma' = SendReads([dma |-> MarkIssued(d, Range(s)), q |-> q, net |-> n], s, room).dma
  BY <1>1
<1>3. Retimed(d, MarkIssued(d, Range(s)))
  BY MarkIssuedRetimed
<1>4. MarkIssued(d, Range(s)) \in SUBSET Op
  BY <1>3 DEF Retimed
<1>5. Retimed(MarkIssued(d, Range(s)), dma')
  BY <1>2, <1>4, SendReadsRetimed
<1> QED BY <1>3, <1>5, RetimedTrans

-----------------------------------------------------------------------------
(* Counting. *)

\* A context's bursts are finitely many.
LEMMA OutstandingFinite ==
    ASSUME NEW t \in Xid, NEW S \in SUBSET (1 .. Bursts[t])
    PROVE  IsFiniteSet(S) /\ Cardinality(S) \in Nat
<1>1. IsFiniteSet(1 .. Bursts[t])
  BY ConstantTypes, FS_Interval
<1>2. IsFiniteSet(S)
  BY <1>1, FS_Subset
<1> QED BY <1>2, FS_CardinalityType

LEMMA RemoveOne ==
    ASSUME NEW S, IsFiniteSet(S), NEW x \in S
    PROVE  Cardinality(S \ {x}) = Cardinality(S) - 1
BY FS_RemoveElement

\* The members of transfer t in a set with unique identifiers, by their number.
LEMMA CountById ==
    ASSUME NEW S, Ids(S) \subseteq Rid, Unique(S), NEW t \in Xid
    PROVE  Cardinality({x \in S : x.id[1] = t})
               = Cardinality({b \in 1 .. Bursts[t] : <<t, b>> \in Ids(S)})
<1> DEFINE A == {x \in S : x.id[1] = t}
           B == {b \in 1 .. Bursts[t] : <<t, b>> \in Ids(S)}
           f == [b \in B |-> CHOOSE x \in A : x.id = <<t, b>>]
<1>1. \A b \in B : f[b] \in A /\ f[b].id = <<t, b>>
  BY DEF Ids
<1>2. \A x \in A : x.id[2] \in B /\ f[x.id[2]] = x
  <2> TAKE x \in A
  <2>1. x.id \in Rid /\ x.id[1] = t
    BY DEF Ids
  <2>2. x.id = <<t, x.id[2]>> /\ x.id[2] \in 1 .. Bursts[t]
    BY <2>1, RidFields
  <2>3. x.id[2] \in B
    BY <2>2 DEF Ids
  <2>4. f[x.id[2]] \in A /\ f[x.id[2]].id = x.id
    BY <1>1, <2>2, <2>3
  <2> QED BY <2>3, <2>4 DEF Unique
<1>3. f \in Bijection(B, A)
  <2> HIDE DEF B
  <2>1. f \in [B -> A]
    BY <1>1
  <2>2. \A b, c \in B : f[b] = f[c] => b = c
    <3> HIDE DEF f, A
    <3> QED BY <1>1
  <2>3. \A x \in A : \E b \in B : f[b] = x
    BY <1>2
  <2> HIDE DEF f, A
  <2> QED BY <2>1, <2>2, <2>3 DEF Bijection, Injection, Surjection, IsInjective
<1>4. ExistsBijection(B, A)
  BY <1>3 DEF ExistsBijection
<1>5. IsFiniteSet(B)
  BY OutstandingFinite
<1> HIDE DEF A, B
<1> QED BY <1>4, <1>5, FS_Bijection DEF A, B

\* The identifiers are finitely many, and so are landings.
LEMMA LandingsFinite ==
    ASSUME NEW S \in SUBSET Landing, Unique(S)
    PROVE  IsFiniteSet(S) /\ Cardinality(S) \in Nat
<1> DEFINE g == [t \in Xid |-> {t} \X (1 .. Bursts[t])]
           R == {{t} \X (1 .. Bursts[t]) : t \in Xid}
           f == [l \in S |-> l.id]
<1>1. IsFiniteSet(Xid)
  <2>1. Xid = 1 .. Len(Bursts) /\ Len(Bursts) \in Nat
    BY DmaAssumption DEF DmaAssumption, Xid
  <2> QED BY <2>1, FS_Interval
<1>2. g \in Surjection(Xid, R)
  BY DEF Surjection
<1>3. IsFiniteSet(R)
  <2> HIDE DEF g, R
  <2> QED BY <1>1, <1>2, FS_Surjection
<1>4. \A T \in R : IsFiniteSet(T)
  <2> SUFFICES ASSUME NEW t \in Xid PROVE IsFiniteSet({t} \X (1 .. Bursts[t]))
    OBVIOUS
  <2>1. IsFiniteSet(1 .. Bursts[t])
    BY ConstantTypes, FS_Interval
  <2>2. IsFiniteSet({t})
    BY FS_Singleton
  <2> QED BY <2>1, <2>2, FS_Product
<1>5. IsFiniteSet(Rid)
  <2> HIDE DEF R
  <2>1. IsFiniteSet(UNION R)
    BY <1>3, <1>4, FS_UNION
  <2> QED BY <2>1 DEF R, Rid
<1>6. f \in Injection(S, Rid)
  BY DEF Landing, Unique, Injection, IsInjective
<1>7. IsFiniteSet(S)
  <2> HIDE DEF f
  <2> QED BY <1>5, <1>6, FS_Injection
<1> QED BY <1>7, FS_CardinalityType

-----------------------------------------------------------------------------
(* The initial states, and the steps that change nothing but the window and the *)
(* network.                                                                     *)

LEMMA DInvInit == Init => DInv
<1> SUFFICES ASSUME Init PROVE DInv
  OBVIOUS
<1>1. Typed
  BY ConstantTypes DEF Init, Typed, Context, Gen
<1>2. Distinct /\ Owned /\ Counted /\ Queued /\ Contents
  BY ConstantTypes, RidFields DEF Init, Distinct, Unique, Owned, Counted, Queued, QueueOk, Contents, Ids
<1> QED BY <1>1, <1>2 DEF DInv

LEMMA RetimedInv ==
    ASSUME DInv, Retimed(dma, dma'), UNCHANGED <<fence, landings, local, xfer, mem>>
    PROVE  DInv'
<1>1. /\ dma' \subseteq Op
      /\ \A y \in dma' : \E x \in dma : y.id = x.id /\ y.gen = x.gen
      /\ Unique(dma) => Unique(dma')
  BY DEF Retimed
<1>2. Ids(dma') = Ids(dma)
  BY RetimedIds
<1>3. Typed'
  BY <1>1 DEF DInv, Typed
<1>4. Distinct'
  BY <1>1 DEF DInv, Distinct, Unique
<1>5. Owned'
  BY <1>1 DEF DInv, Owned
<1>6. Counted'
  BY <1>2 DEF DInv, Counted, Outstanding, Ids
<1>7. Queued'
  <2>1. ASSUME NEW i \in DOMAIN local PROVE AccessOk(local'[i], dma', landings', xfer', fence'.active)
    BY <1>1 DEF DInv, Queued, QueueOk, AccessOk, Ids
  <2> QED BY <2>1 DEF DInv, Queued, QueueOk
<1>8. Contents'
  BY <1>2 DEF DInv, Contents, Ids
<1> QED BY <1>3, <1>4, <1>5, <1>6, <1>7, <1>8 DEF DInv

\* handle_send_available, and a READ answered by the memory node.
LEMMA SendAvailableInv == ASSUME DInv, SendAvailable PROVE DInv'
<1>1. PICK room : dma' = SendReads([dma |-> dma, q |-> sendQ, net |-> net], <<>>, room).dma
  BY DEF SendAvailable
<1>2. Retimed(dma, dma')
  BY <1>1, SendReadsRetimed DEF DInv, Typed
<1> QED BY <1>2, RetimedInv DEF SendAvailable

LEMMA MemoryServesInv == ASSUME DInv, NEW id \in Rid, MemoryServes(id) PROVE DInv'
<1>1. Retimed(dma, dma')
  BY RetimedSame DEF MemoryServes, DInv, Typed
<1> QED BY <1>1, RetimedInv DEF MemoryServes

LEMMA StutterInv == ASSUME DInv, UNCHANGED vars PROVE DInv'
<1>1. Retimed(dma, dma')
  BY RetimedSame DEF vars, DInv, Typed
<1> QED BY <1>1, RetimedInv DEF vars

-----------------------------------------------------------------------------
(* dma_read_from_host_to_globalmem_impl. *)

LEMMA StartReadInv == ASSUME DInv, NEW t \in Xid, StartRead(t) PROVE DInv'
<1> DEFINE new(b) == [id |-> <<t, b>>, gen |-> fence.active, issued |-> FALSE, sent |-> FALSE,
                      ticks |-> RetryTicks, tries |-> 0]
           ops == {new(b) : b \in 1 .. Bursts[t]}
           D == dma \cup ops
<1>1. /\ Typed /\ Distinct /\ Owned /\ Counted /\ Queued /\ Contents
      /\ xfer[t].status = "idle"
      /\ xfer' = [xfer EXCEPT ![t].status = "active", ![t].gen = fence.active]
      /\ UNCHANGED <<fence, landings, local, mem>>
  BY DEF StartRead, DInv
<1>2. \A b \in 1 .. Bursts[t] : new(b) \in Op /\ new(b).id = <<t, b>> /\ new(b).gen = fence.active
  <2>1. RetryTicks \in 0 .. RetryTicks /\ 0 \in 0 .. MaxRetries
    BY ConstantTypes
  <2>2. fence.active \in Gen
    BY <1>1 DEF Typed
  <2> QED BY <2>1, <2>2, RidFields, Zenon DEF Op
<1>3. ops \subseteq Op /\ (\A x \in ops : x.id[1] = t /\ x.gen = fence.active)
      /\ Ids(ops) = {<<t, b>> : b \in 1 .. Bursts[t]} /\ Unique(ops)
  <2> HIDE DEF new
  <2>1. ops \subseteq Op /\ (\A x \in ops : x.id[1] = t /\ x.gen = fence.active)
    BY <1>2
  <2>2. Ids(ops) = {<<t, b>> : b \in 1 .. Bursts[t]}
    BY <1>2 DEF Ids
  <2>3. Unique(ops)
    BY <1>2 DEF Unique
  <2> QED BY <2>1, <2>2, <2>3
<1>4. Retimed(D, dma')
  <2>1. EndWith(D, sendQ, net)
    BY DEF StartRead
  <2>2. D \in SUBSET Op
    BY <1>1, <1>3 DEF Typed
  <2> HIDE DEF D
  <2> QED BY <2>1, <2>2, EndWithRetimed
<1> HIDE DEF ops, new
<1>5. /\ \A x \in dma \cup landings : x.id \in Rid /\ x.id[1] \in Xid /\ x.id[1] # t
      /\ \A i \in DOMAIN local : local[i].owner \in Rid /\ local[i].owner[1] # t
  <2>1. \A x \in dma \cup landings : x.id \in Rid /\ x.id[1] \in Xid
    BY <1>1, RidFields DEF Typed, Op, Landing
  <2>2. \A i \in DOMAIN local : local[i] \in Access
    BY <1>1 DEF Typed
  <2>3. \A i \in DOMAIN local : local[i].owner \in Rid /\ local[i].owner[1] # t
    BY <1>1, <2>2 DEF Queued, QueueOk, AccessOk, Access
  <2> QED BY <1>1, <2>1, <2>3 DEF Owned
<1>6. /\ dma' \subseteq Op
      /\ \A y \in dma' : \E x \in dma \cup ops : y.id = x.id /\ y.gen = x.gen
      /\ Unique(dma \cup ops) => Unique(dma')
  BY <1>4 DEF Retimed
<1>7. Ids(dma') = Ids(dma) \cup {<<t, b>> : b \in 1 .. Bursts[t]}
  <2>1. Ids(dma') = Ids(dma \cup ops)
    BY <1>4, RetimedIds
  <2>2. Ids(dma \cup ops) = Ids(dma) \cup Ids(ops)
    BY DEF Ids
  <2> QED BY <2>1, <2>2, <1>3
<1>8. /\ xfer' \in [Xid -> Context] /\ xfer'[t].status = "active" /\ xfer'[t].gen = fence.active
      /\ xfer'[t].remaining = Bursts[t] /\ xfer'[t].ok
      /\ \A u \in Xid : u # t => xfer'[u] = xfer[u]
  BY ZenonT(40), <1>1 DEF Typed, Counted, Context
<1>9. Typed'
  BY <1>1, <1>6, <1>8 DEF Typed
<1>10. Distinct'
  <2>1. Unique(dma \cup ops)
    BY <1>1, <1>3, <1>5 DEF Distinct, Unique
  <2>2. \A op \in dma', l \in landings : op.id # l.id
    BY <1>1, <1>3, <1>5, <1>6 DEF Distinct
  <2> QED BY <1>1, <1>6, <2>1, <2>2 DEF Distinct, Unique
<1>11. Owned'
  <2>1. \A x \in dma' \cup landings : xfer'[x.id[1]].status = "active" /\ xfer'[x.id[1]].gen = x.gen
    BY <1>1, <1>3, <1>5, <1>6, <1>8 DEF Owned
  <2>2. \A u \in Xid : xfer'[u].status = "active" => xfer'[u].gen \in {0, fence.active}
    BY <1>1, <1>8 DEF Owned
  <2> QED BY <1>1, <2>1, <2>2 DEF Owned
<1>12. Counted'
  <2>1. Outstanding(t)' = 1 .. Bursts[t]
    BY <1>1, <1>7 DEF Outstanding, Ids
  <2>2. Cardinality(1 .. Bursts[t]) = Bursts[t] /\ Bursts[t] > 0
    BY ConstantTypes, FS_Interval
  <2>3. \A u \in Xid : u # t => Outstanding(u)' = Outstanding(u)
    BY <1>1, <1>7 DEF Outstanding, Ids
  <2> QED BY <1>1, <1>8, <2>1, <2>2, <2>3 DEF Counted
<1>13. Queued'
  <2> SUFFICES ASSUME NEW i \in DOMAIN local PROVE AccessOk(local'[i], dma', landings', xfer', fence'.active)
    BY <1>1 DEF Queued, QueueOk
  <2>1. AccessOk(local[i], dma, landings, xfer, fence.active)
    BY <1>1 DEF Queued, QueueOk
  <2>2. \A op \in dma' : op.id # local[i].owner
    BY <1>3, <1>5, <1>6, <2>1 DEF AccessOk
  <2>3. xfer'[local[i].owner[1]] = xfer[local[i].owner[1]]
    BY <1>5, <1>8, RidFields
  <2> QED BY <1>1, <2>1, <2>2, <2>3 DEF AccessOk, Ids
<1>14. Contents'
  <2>1. \A r \in Rid : (xfer'[r[1]].status = "idle" \/ r \in Ids(dma')) => \A c \in Chunk : mem[r][c] = 0
    BY <1>1, <1>7, <1>8, RidFields DEF Contents
  <2>2. \A r \in Rid :
          xfer'[r[1]].status \in {"active", "ok"} /\ xfer'[r[1]].ok
              /\ r \notin Ids(dma') /\ r \notin Ids(landings)
          => \A c \in 1 .. Lands(r) : mem[r][c] = 1
    BY <1>1, <1>7, <1>8, RidFields DEF Contents
  <2>3. mem' = mem /\ landings' = landings
    BY <1>1
  <2>4. \A l \in landings :
          /\ l.offset < Lands(l.id)
          /\ \A c \in Chunk : mem[l.id][c] = IF c <= l.offset THEN 1 ELSE 0
    BY <1>1 DEF Contents
  <2>5. Ids(landings)' = Ids(landings)
    BY <2>3 DEF Ids
  <2> QED BY ZenonT(40), <2>1, <2>2, <2>3, <2>4, <2>5 DEF Contents
<1> QED BY <1>9, <1>10, <1>11, <1>12, <1>13, <1>14 DEF DInv

-----------------------------------------------------------------------------
(* The generation fence. *)

LEMMA BeginGenerationInv == ASSUME DInv, BeginGeneration PROVE DInv'
<1>1. /\ Typed /\ Distinct /\ Owned /\ Counted /\ Queued /\ Contents
      /\ fence.active = 0 /\ fence' \in [active : Gen, begun : Gen]
      /\ UNCHANGED <<dma, landings, local, xfer, mem>>
  BY ConstantTypes DEF BeginGeneration, DInv, Typed, Gen
<1>2. Typed' /\ Distinct' /\ Owned'
  BY <1>1 DEF Typed, Distinct, Unique, Owned
<1>3. Counted'
  <2>1. \A t \in Xid : Outstanding(t)' = Outstanding(t)
    BY <1>1 DEF Outstanding, Ids
  <2> QED BY <1>1, <2>1 DEF Counted
<1>5. Queued'
  <2>1. ASSUME NEW i \in DOMAIN local PROVE AccessOk(local'[i], dma', landings', xfer', fence'.active)
    BY <1>1 DEF Queued, QueueOk, AccessOk, Ids
  <2> QED BY <1>1, <2>1 DEF Queued, QueueOk
<1>4. Contents'
  BY <1>1 DEF Contents, Ids
<1> QED BY <1>2, <1>3, <1>4, <1>5 DEF DInv

\* The fence closes.
LEMMA FenceClosed ==
    \A f \in [active : Gen, begun : Gen] :
        [f EXCEPT !.active = 0] \in [active : Gen, begun : Gen] /\ [f EXCEPT !.active = 0].active = 0
<1>1. 0 \in Gen
  BY ConstantTypes DEF Gen
<1> QED BY <1>1

\* A drained generation has no transfer under way.
LEMMA RetireGenerationInv == ASSUME DInv, RetireGeneration PROVE DInv'
<1> DEFINE g == fence.active
<1>1. /\ Typed /\ Distinct /\ Owned /\ Counted /\ Queued /\ Contents
      /\ fence' = [fence EXCEPT !.active = 0]
      /\ \A op \in dma : op.gen # g
      /\ \A i \in DOMAIN local : local[i].gen # g
      /\ \A l \in landings : l.gen # g
      /\ UNCHANGED <<dma, landings, local, xfer, mem>>
  BY DEF RetireGeneration, Drained, DInv
<1>2. fence' \in [active : Gen, begun : Gen] /\ fence'.active = 0
  <2>1. fence \in [active : Gen, begun : Gen] /\ fence' = [fence EXCEPT !.active = 0]
    BY <1>1 DEF Typed
  <2> QED BY <2>1, FenceClosed
<1>3. \A t \in Xid : xfer[t].status = "active" => xfer[t].gen = 0
  <2> SUFFICES ASSUME NEW t \in Xid, xfer[t].status = "active", xfer[t].gen # 0 PROVE FALSE
    OBVIOUS
  <2>1. Outstanding(t) = {}
    BY <1>1 DEF Outstanding, Ids, Owned
  <2>2. Cardinality(Outstanding(t)) > 0
    BY <1>1 DEF Counted
  <2> QED BY <2>1, <2>2, FS_EmptySet
<1>4. Typed' /\ Distinct' /\ Owned'
  BY <1>1, <1>2, <1>3 DEF Typed, Distinct, Unique, Owned
<1>5. Counted'
  <2>1. \A t \in Xid : Outstanding(t)' = Outstanding(t)
    BY <1>1 DEF Outstanding, Ids
  <2> QED BY <1>1, <2>1 DEF Counted
<1>6. Queued'
  <2>1. ASSUME NEW i \in DOMAIN local PROVE AccessOk(local'[i], dma', landings', xfer', fence'.active)
    BY <1>1, <1>2 DEF Queued, QueueOk, AccessOk, Ids
  <2> QED BY <1>1, <2>1 DEF Queued, QueueOk
<1>7. Contents'
  BY <1>1 DEF Contents, Ids
<1> QED BY <1>4, <1>5, <1>6, <1>7 DEF DInv

\* A cancelled generation takes its READs, landings and accesses with it.
LEMMA CancelGenerationInv == ASSUME DInv, CancelGeneration PROVE DInv'
<1> DEFINE g == fence.active
           D == {op \in dma : op.gen # g}
<1>1. /\ Typed /\ Distinct /\ Owned /\ Counted /\ Queued /\ Contents
      /\ g # 0
      /\ fence' = [fence EXCEPT !.active = 0]
      /\ landings' = {l \in landings : l.gen # g}
      /\ local' = [i \in DOMAIN local |->
             [local[i] EXCEPT !.cancelled = local[i].cancelled \/ local[i].gen = g]]
      /\ xfer' = [t \in Xid |->
             IF xfer[t].status = "active" /\ xfer[t].gen = g
             THEN [xfer[t] EXCEPT !.status = "cancelled"] ELSE xfer[t]]
      /\ mem' = mem
      /\ EndWith(D, sendQ, net)
  BY Zenon DEF CancelGeneration, DInv
<1>2. fence' \in [active : Gen, begun : Gen] /\ fence'.active = 0
  <2>1. fence \in [active : Gen, begun : Gen] /\ fence' = [fence EXCEPT !.active = 0]
    BY <1>1 DEF Typed
  <2> QED BY <2>1, FenceClosed
<1>3. Retimed(D, dma')
  <2>1. D \in SUBSET Op
    BY <1>1 DEF Typed
  <2> HIDE DEF D
  <2> QED BY <1>1, <2>1, EndWithRetimed
<1>4. /\ dma' \subseteq Op
      /\ \A y \in dma' : \E x \in dma : x.gen # g /\ y.id = x.id /\ y.gen = x.gen
      /\ Unique(D) => Unique(dma')
  BY <1>3 DEF Retimed
<1>5. Ids(dma') = Ids(D)
  BY <1>3, RetimedIds
<1>6. /\ xfer' \in [Xid -> Context]
      /\ \A t \in Xid : xfer[t].status = "active" /\ xfer[t].gen = g => xfer'[t].status = "cancelled"
      /\ \A t \in Xid : ~(xfer[t].status = "active" /\ xfer[t].gen = g) => xfer'[t] = xfer[t]
  <2>1. \A t \in Xid : [xfer[t] EXCEPT !.status = "cancelled"] \in Context
                       /\ [xfer[t] EXCEPT !.status = "cancelled"].status = "cancelled"
    BY <1>1 DEF Typed, Context
  <2> QED BY <1>1, <2>1 DEF Typed
<1>7. /\ local' \in Seq(Access) /\ Len(local') <= QueueDepth /\ DOMAIN local' = DOMAIN local
      /\ \A i \in DOMAIN local :
            /\ local'[i].owner = local[i].owner /\ local'[i].chunk = local[i].chunk
            /\ local'[i].gen = local[i].gen
            /\ local'[i].cancelled <=> local[i].cancelled \/ local[i].gen = g
  <2> DEFINE f(i) == [local[i] EXCEPT !.cancelled = local[i].cancelled \/ local[i].gen = g]
  <2>1. \A i \in DOMAIN local :
           /\ f(i) \in Access /\ f(i).owner = local[i].owner /\ f(i).chunk = local[i].chunk
           /\ f(i).gen = local[i].gen /\ (f(i).cancelled <=> local[i].cancelled \/ local[i].gen = g)
    <3>1. \A i \in DOMAIN local : local[i] \in Access
      BY <1>1 DEF Typed
    <3> QED BY <3>1, Zenon DEF Access
  <2>2. local' = [i \in DOMAIN local |-> f(i)]
    BY <1>1
  <2> HIDE DEF f
  <2>3. local' \in Seq(Access) /\ Len(local') = Len(local)
    <3>1. Len(local) \in Nat /\ DOMAIN local = 1 .. Len(local)
      BY <1>1 DEF Typed
    <3>2. local' \in [1 .. Len(local) -> Access]
      BY <2>1, <2>2, <3>1
    <3> QED BY <3>1, <3>2
  <2> QED BY <1>1, <2>1, <2>2, <2>3 DEF Typed
<1>8. \A x \in dma \cup landings : x.id \in Rid /\ x.id[1] \in Xid
  BY <1>1, RidFields DEF Typed, Op, Landing
<1>9. Typed'
  BY <1>1, <1>2, <1>4, <1>6, <1>7 DEF Typed
<1>10. Distinct'
  BY <1>1, <1>4 DEF Distinct, Unique
<1>11. Owned'
  <2>1. \A x \in dma \cup landings : x.gen # g => xfer'[x.id[1]] = xfer[x.id[1]]
    BY <1>1, <1>6, <1>8 DEF Owned
  <2>2. \A x \in dma' \cup landings' : xfer'[x.id[1]].status = "active" /\ xfer'[x.id[1]].gen = x.gen
    <3>1. \A x \in dma \cup landings : x.gen # g =>
             xfer'[x.id[1]].status = "active" /\ xfer'[x.id[1]].gen = x.gen
      BY <1>1, <2>1 DEF Owned
    <3>2. \A x \in landings' : xfer'[x.id[1]].status = "active" /\ xfer'[x.id[1]].gen = x.gen
      BY <1>1, <3>1
    <3>3. \A x \in dma' : xfer'[x.id[1]].status = "active" /\ xfer'[x.id[1]].gen = x.gen
      BY <1>4, <3>1
    <3> QED BY <3>2, <3>3
  <2>3. \A t \in Xid : xfer'[t].status = "active" => xfer'[t].gen \in {0, fence'.active}
    BY <1>1, <1>2, <1>6 DEF Owned
  <2> QED BY <2>2, <2>3 DEF Owned
<1>12. \A t \in Xid : xfer'[t].status \in {"active", "ok"} =>
          /\ xfer'[t] = xfer[t]
          /\ \A b \in 1 .. Bursts[t] :
                /\ <<t, b>> \in Ids(dma') <=> <<t, b>> \in Ids(dma)
                /\ <<t, b>> \in Ids(landings') <=> <<t, b>> \in Ids(landings)
  <2> SUFFICES ASSUME NEW t \in Xid, xfer'[t].status \in {"active", "ok"}
               PROVE  /\ xfer'[t] = xfer[t]
                      /\ \A b \in 1 .. Bursts[t] :
                            /\ <<t, b>> \in Ids(D) <=> <<t, b>> \in Ids(dma)
                            /\ <<t, b>> \in Ids(landings') <=> <<t, b>> \in Ids(landings)
    BY <1>5
  <2>1. xfer'[t] = xfer[t] /\ ~(xfer[t].status = "active" /\ xfer[t].gen = g)
    BY <1>6
  <2>2. \A x \in dma \cup landings : x.id[1] = t => x.gen # g
    BY <1>1, <2>1 DEF Owned
  <2> QED BY <1>1, <2>1, <2>2 DEF Ids
<1>13. Counted'
  <2>1. \A t \in Xid : xfer'[t].status = "active" => Outstanding(t)' = Outstanding(t)
    BY <1>12 DEF Outstanding, Ids
  <2>2. \A t \in Xid : xfer'[t].status = "idle" => xfer'[t] = xfer[t]
    BY <1>6
  <2> QED BY <1>1, <1>12, <2>1, <2>2 DEF Counted
<1>14. Queued'
  <2> SUFFICES ASSUME NEW i \in DOMAIN local PROVE AccessOk(local'[i], dma', landings', xfer', fence'.active)
    <3>1. \A i, j \in DOMAIN local : local[i].owner = local[j].owner => i = j
      BY <1>1 DEF Queued, QueueOk
    <3>2. \A i, j \in DOMAIN local' : local'[i].owner = local'[j].owner => i = j
      BY <1>7, <3>1
    <3> QED BY <1>7, <3>2 DEF Queued, QueueOk
  <2>1. AccessOk(local[i], dma, landings, xfer, fence.active) /\ local[i] \in Access
    BY <1>1 DEF Queued, QueueOk, Typed
  <2>2. \A op \in dma' : op.id # local[i].owner
    BY <1>4, <2>1 DEF AccessOk
  <2>3. xfer'[local[i].owner[1]].status # "idle"
    <3>1. local[i].owner[1] \in Xid /\ xfer[local[i].owner[1]].status # "idle"
      BY <2>1, RidFields DEF AccessOk, Access
    <3> QED BY <1>6, <3>1
  <2>4. \A l \in landings' : l.id = local[i].owner =>
            l.inFlight /\ local[i].chunk = l.offset + 1 /\ l.gen \in {0, local[i].gen}
    BY <1>1, <2>1 DEF AccessOk
  <2>5. ASSUME ~local'[i].cancelled
        PROVE  local[i].gen = 0 /\ local[i].owner \in Ids(landings')
    <3>1. ~local[i].cancelled /\ local[i].gen # g
      BY <1>7, <2>5
    <3>2. local[i].gen = 0 /\ local[i].owner \in Ids(landings)
      BY <2>1, <3>1 DEF AccessOk
    <3>3. \A l \in landings : l.id = local[i].owner => l.gen = 0
      BY <2>1, <3>2 DEF AccessOk
    <3> QED BY <1>1, <3>2, <3>3 DEF Ids
  <2> QED BY <1>7, <2>2, <2>3, <2>4, <2>5 DEF AccessOk, Ids
<1>15. Contents'
  <2>1. \A r \in Rid : (xfer'[r[1]].status = "idle" \/ r \in Ids(dma')) => \A c \in Chunk : mem[r][c] = 0
    BY ZenonT(40), <1>1, <1>5, <1>6, RidFields DEF Contents, Ids
  <2>2. \A r \in Rid :
          xfer'[r[1]].status \in {"active", "ok"} /\ xfer'[r[1]].ok
              /\ r \notin Ids(dma') /\ r \notin Ids(landings')
          => \A c \in 1 .. Lands(r) : mem[r][c] = 1
    <3> TAKE r \in Rid
    <3>1. r[1] \in Xid /\ r[2] \in 1 .. Bursts[r[1]] /\ r = <<r[1], r[2]>>
      BY RidFields
    <3>2. xfer'[r[1]].status \in {"active", "ok"} =>
             /\ xfer'[r[1]] = xfer[r[1]]
             /\ r \in Ids(dma') <=> r \in Ids(dma)
             /\ r \in Ids(landings') <=> r \in Ids(landings)
      BY <1>12, <3>1
    <3> QED BY <1>1, <3>2 DEF Contents
  <2> QED BY <1>1, <2>1, <2>2 DEF Contents, Ids
<1> QED BY <1>9, <1>10, <1>11, <1>13, <1>14, <1>15 DEF DInv

-----------------------------------------------------------------------------
(* handleSelfEvent and process_dma_read_retries. *)

LEMMA ForcedFacts ==
    ASSUME NEW x \in Context, NEW n \in Nat, n <= x.remaining
    PROVE  /\ Forced(x, n) \in Context /\ Forced(x, n).gen = x.gen
           /\ n = 0 => Forced(x, n) = x
           /\ n > 0 => /\ ~Forced(x, n).ok /\ Forced(x, n).remaining = x.remaining - n
                       /\ Forced(x, n).status = IF x.remaining - n > 0 THEN x.status ELSE "failed"
<1> DEFINE left == [x EXCEPT !.remaining = @ - n, !.ok = FALSE]
<1>1. x.remaining - n \in Nat /\ x.remaining \in Nat
  BY DEF Context
<1>2. /\ left \in Context /\ left.gen = x.gen /\ ~left.ok
      /\ left.remaining = x.remaining - n /\ left.status = x.status
  BY <1>1, Zenon DEF Context
<1> HIDE DEF left
<1>3. /\ [left EXCEPT !.status = "failed"] \in Context
      /\ [left EXCEPT !.status = "failed"].gen = left.gen
      /\ [left EXCEPT !.status = "failed"].ok = left.ok
      /\ [left EXCEPT !.status = "failed"].remaining = left.remaining
      /\ [left EXCEPT !.status = "failed"].status = "failed"
  BY <1>2, Zenon DEF Context
<1>4. CASE n = 0
  BY <1>4 DEF Forced
<1>5. CASE n > 0 /\ x.remaining - n > 0
  <2>1. Forced(x, n) = left
    BY <1>2, <1>5 DEF Forced, left
  <2> QED BY <1>2, <1>5, <2>1
<1>6. CASE n > 0 /\ ~(x.remaining - n > 0)
  <2>1. Forced(x, n) = [left EXCEPT !.status = "failed"]
    BY <1>2, <1>6 DEF Forced, left
  <2> QED BY <1>2, <1>3, <1>6, <2>1
<1> QED BY <1>4, <1>5, <1>6

LEMMA SelfEventInv == ASSUME DInv, SelfEvent PROVE DInv'
<1> DEFINE due   == {op \in dma : op.sent /\ op.ticks = 0}
           again == {op \in due : op.tries < MaxRetries}
           lost  == due \ again
           f(op) == CASE op \in again -> [op EXCEPT !.tries = @ + 1, !.sent = FALSE]
                      [] op.sent /\ op.ticks > 0 -> [op EXCEPT !.ticks = @ - 1]
                      [] OTHER -> op
           counted == {f(op) : op \in dma \ lost}
           n(t) == Cardinality({op \in lost : op.id[1] = t})
           L(t) == {b \in 1 .. Bursts[t] : <<t, b>> \in Ids(lost)}
<1>1. /\ Typed /\ Distinct /\ Owned /\ Counted /\ Queued /\ Contents
      /\ xfer' = [t \in Xid |-> Forced(xfer[t], n(t))]
      /\ UNCHANGED <<fence, landings, local, mem>>
  BY DEF SelfEvent, DInv
<1>2. PICK s, room :
         LET io == SendReads([dma |-> counted, q |-> sendQ, net |-> net], s, room)
         IN  EndWith(io.dma, io.q, io.net)
  BY DEF SelfEvent
<1>3. dma \ lost \in SUBSET Op /\ lost \subseteq dma
  BY <1>1 DEF Typed
<1>4. \A op \in dma \ lost : f(op) \in Op /\ f(op).id = op.id /\ f(op).gen = op.gen
  <2> SUFFICES ASSUME NEW op \in dma \ lost
               PROVE  f(op) \in Op /\ f(op).id = op.id /\ f(op).gen = op.gen
    OBVIOUS
  <2>1. op \in Op /\ 0 \in 0 .. RetryTicks /\ 0 \in 0 .. MaxRetries
    BY <1>3, ConstantTypes
  <2>2. CASE op \in again
    <3>1. op.tries < MaxRetries
      BY <2>2
    <3>2. ~(op.sent /\ op.ticks > 0)
      BY <2>2
    <3>3. f(op) = [op EXCEPT !.tries = @ + 1, !.sent = FALSE]
      BY <2>2, <3>2
    <3> DEFINE x == [op EXCEPT !.tries = @ + 1, !.sent = FALSE]
    <3>4. x \in Op /\ x.id = op.id /\ x.gen = op.gen
      BY <2>1, <3>1, OpAgain
    <3> HIDE DEF f, again
    <3> QED BY <3>3, <3>4
  <2>3. CASE op \notin again /\ op.sent /\ op.ticks > 0
    <3>1. op.ticks - 1 \in 0 .. RetryTicks
      BY <2>1, <2>3, ConstantTypes DEF Op
    <3> QED BY <2>1, <2>3, <3>1, OpUpdates
  <2>4. CASE op \notin again /\ ~(op.sent /\ op.ticks > 0)
    BY <2>1, <2>4
  <2> QED BY <2>2, <2>3, <2>4
<1>5. Retimed(dma \ lost, dma')
  <2> DEFINE io == SendReads([dma |-> counted, q |-> sendQ, net |-> net], s, room)
  <2> HIDE DEF f, lost
  <2>1. Retimed(dma \ lost, counted)
    BY <1>3, <1>4 DEF Retimed, Unique
  <2> HIDE DEF counted
  <2>2. counted \in SUBSET Op
    BY <2>1 DEF Retimed
  <2>3. Retimed(counted, io.dma)
    BY <2>2, SendReadsRetimed
  <2>4. io.dma \in SUBSET Op
    BY <2>3 DEF Retimed
  <2>5. EndWith(io.dma, io.q, io.net)
    BY <1>2
  <2> HIDE DEF io
  <2>6. Retimed(io.dma, dma')
    BY <2>4, <2>5, EndWithRetimed
  <2> QED BY <2>1, <2>3, <2>6, RetimedTrans
<1> HIDE DEF lost, f, counted
<1>6. /\ dma' \subseteq Op
      /\ \A y \in dma' : \E x \in dma : y.id = x.id /\ y.gen = x.gen
      /\ Unique(dma \ lost) => Unique(dma')
  BY <1>5 DEF Retimed
<1>7. \A r : r \in Ids(dma') <=> r \in Ids(dma) /\ r \notin Ids(lost)
  <2>1. Ids(dma') = Ids(dma \ lost)
    BY <1>5, RetimedIds
  <2>2. \A r : r \in Ids(dma \ lost) <=> r \in Ids(dma) /\ r \notin Ids(lost)
    BY <1>1, <1>3 DEF Ids, Distinct, Unique
  <2> QED BY <2>1, <2>2
<1>8. \A x \in dma \cup landings : x.id \in Rid /\ x.id[1] \in Xid
  BY <1>1, RidFields DEF Typed, Op, Landing
<1>9. ASSUME NEW t \in Xid
      PROVE  /\ n(t) = Cardinality(L(t)) /\ n(t) \in Nat
             /\ n(t) = 0 \/ n(t) > 0
             /\ n(t) = 0 <=> L(t) = {}
             /\ n(t) > 0 => xfer[t].status = "active"
             /\ Outstanding(t)' = Outstanding(t) \ L(t)
             /\ Cardinality(Outstanding(t)') = Cardinality(Outstanding(t)) - n(t)
             /\ Cardinality(Outstanding(t)') \in Nat
  <2>1. Ids(lost) \subseteq Rid /\ Unique(lost)
    BY <1>1, <1>3, <1>8 DEF Ids, Distinct, Unique
  <2>2. n(t) = Cardinality(L(t))
    BY <2>1, CountById
  <2>3. IsFiniteSet(L(t)) /\ Cardinality(L(t)) \in Nat
    <3>1. L(t) \in SUBSET (1 .. Bursts[t])
      OBVIOUS
    <3> HIDE DEF L
    <3> QED BY <3>1, OutstandingFinite
  <2>4. Cardinality(L(t)) = 0 <=> L(t) = {}
    BY <2>3, FS_EmptySet
  <2>5. L(t) # {} => xfer[t].status = "active"
    BY <1>1, <1>3 DEF Ids, Owned
  <2>6. Outstanding(t)' = Outstanding(t) \ L(t) /\ L(t) \subseteq Outstanding(t)
    <3>1. Ids(landings)' = Ids(landings) /\ \A r \in Ids(lost) : r \in Ids(dma) /\ r \notin Ids(landings)
      BY <1>1, <1>3 DEF Ids, Distinct
    <3> QED BY <1>7, <3>1 DEF Outstanding, Ids
  <2>7. Outstanding(t) \in SUBSET (1 .. Bursts[t]) /\ Outstanding(t)' \in SUBSET (1 .. Bursts[t])
    BY DEF Outstanding
  <2>8. IsFiniteSet(Outstanding(t)) /\ Cardinality(Outstanding(t)') \in Nat
    BY <2>7, OutstandingFinite
  <2> HIDE DEF L, n
  <2>9. Cardinality(Outstanding(t) \ L(t)) = Cardinality(Outstanding(t)) - Cardinality(Outstanding(t) \cap L(t))
    BY <2>8, FS_Difference
  <2>10. Outstanding(t) \cap L(t) = L(t)
    BY <2>6
  <2>11. n(t) \in Nat /\ (n(t) = 0 \/ n(t) > 0) /\ (n(t) = 0 <=> L(t) = {}) /\ (n(t) > 0 => xfer[t].status = "active")
    BY <2>2, <2>3, <2>4, <2>5
  <2> QED BY <2>2, <2>6, <2>8, <2>9, <2>10, <2>11
<1> HIDE DEF n, L
<1>10. ASSUME NEW t \in Xid
       PROVE  /\ xfer'[t] \in Context /\ xfer'[t].gen = xfer[t].gen
              /\ n(t) = 0 => xfer'[t] = xfer[t]
              /\ n(t) > 0 => /\ ~xfer'[t].ok
                             /\ xfer'[t].remaining = Cardinality(Outstanding(t)')
                             /\ xfer'[t].status = IF Cardinality(Outstanding(t)') > 0 THEN "active" ELSE "failed"
  <2>1. xfer[t] \in Context /\ xfer'[t] = Forced(xfer[t], n(t))
    BY <1>1 DEF Typed
  <2>2. n(t) \in Nat /\ (n(t) > 0 => xfer[t].status = "active")
    BY <1>9
  <2>3. n(t) > 0 => xfer[t].remaining - n(t) = Cardinality(Outstanding(t)')
    BY <1>1, <1>9 DEF Counted
  <2>4. n(t) <= xfer[t].remaining
    <3>1. xfer[t].remaining \in Nat
      BY <2>1 DEF Context
    <3>2. CASE n(t) = 0
      BY <3>1, <3>2
    <3>3. CASE n(t) > 0
      <4>1. Cardinality(Outstanding(t)') \in Nat
        BY <1>9
      <4> HIDE DEF Outstanding
      <4> QED BY <2>2, <2>3, <3>1, <3>3, <4>1
    <3> QED BY <2>2, <3>2, <3>3
  <2> QED BY <2>1, <2>2, <2>3, <2>4, ForcedFacts
<1>11. \A x \in dma' \cup landings : x.id[1] \in Xid /\ xfer'[x.id[1]].status = "active"
                                     /\ xfer'[x.id[1]].gen = x.gen
  <2> SUFFICES ASSUME NEW x \in dma' \cup landings
               PROVE  x.id[1] \in Xid /\ xfer'[x.id[1]].status = "active" /\ xfer'[x.id[1]].gen = x.gen
    OBVIOUS
  <2> DEFINE t == x.id[1]
  <2>1. x.id \in Rid /\ t \in Xid /\ xfer[t].status = "active" /\ xfer[t].gen = x.gen
    BY <1>1, <1>6, <1>8 DEF Owned
  <2>2. x.id[2] \in Outstanding(t)'
    BY <1>1, <2>1, RidFields DEF Outstanding, Ids
  <2>3. Cardinality(Outstanding(t)') > 0
    <3>1. IsFiniteSet(Outstanding(t)')
      <4>1. Outstanding(t)' \in SUBSET (1 .. Bursts[t])
        BY DEF Outstanding
      <4> QED BY <2>1, <4>1, OutstandingFinite
    <3>2. Cardinality(Outstanding(t)') # 0
      BY <2>2, <3>1, FS_EmptySet
    <3>3. Cardinality(Outstanding(t)') \in Nat
      BY <1>9, <2>1
    <3> QED BY <3>2, <3>3
  <2> HIDE DEF t
  <2>4. n(t) \in Nat
    BY <1>9, <2>1
  <2>5. xfer'[t].status = "active" /\ xfer'[t].gen = x.gen
    BY <1>10, <2>1, <2>3, <2>4
  <2> QED BY <2>1, <2>5 DEF t
<1>12. Typed'
  <2>1. xfer' \in [Xid -> Context]
    BY <1>1, <1>10
  <2> QED BY <1>1, <1>6, <2>1 DEF Typed
<1>13. Distinct'
  <2>1. Unique(dma \ lost)
    BY <1>1 DEF Distinct, Unique
  <2>2. \A op \in dma', l \in landings : op.id # l.id
    BY <1>1, <1>6 DEF Distinct
  <2> QED BY <1>1, <1>6, <2>1, <2>2 DEF Distinct, Unique
<1>14. Owned'
  <2>1. \A t \in Xid : xfer'[t].status = "active" => xfer'[t].gen \in {0, fence.active}
    <3> SUFFICES ASSUME NEW t \in Xid, xfer'[t].status = "active"
                 PROVE  xfer'[t].gen \in {0, fence.active}
      OBVIOUS
    <3>1. xfer[t].status = "active"
      BY <1>9, <1>10
    <3> QED BY <1>1, <1>10, <3>1 DEF Owned
  <2> QED BY <1>1, <1>11, <2>1 DEF Owned
<1>15. Counted'
  <2> SUFFICES ASSUME NEW t \in Xid
               PROVE  /\ xfer'[t].status = "idle" => xfer'[t].remaining = Bursts[t] /\ xfer'[t].ok
                      /\ xfer'[t].status = "active" =>
                            xfer'[t].remaining = Cardinality(Outstanding(t)') /\ xfer'[t].remaining > 0
                      /\ xfer'[t].status = "ok" => xfer'[t].ok
    BY DEF Counted
  <2>1. CASE n(t) = 0
    <3>1. xfer'[t] = xfer[t] /\ Outstanding(t)' = Outstanding(t)
      BY <1>9, <1>10, <2>1
    <3> QED BY <1>1, <3>1 DEF Counted
  <2>2. CASE n(t) > 0
    BY <1>9, <1>10, <2>2
  <2> QED BY <1>9, <2>1, <2>2
<1>16. Queued'
  <2> SUFFICES ASSUME NEW i \in DOMAIN local
               PROVE  AccessOk(local[i], dma', landings, xfer', fence.active)
    BY <1>1 DEF Queued, QueueOk
  <2>1. AccessOk(local[i], dma, landings, xfer, fence.active) /\ local[i] \in Access
    BY <1>1 DEF Queued, QueueOk, Typed
  <2>2. \A op \in dma' : op.id # local[i].owner
    BY <1>6, <2>1 DEF AccessOk
  <2>3. xfer'[local[i].owner[1]].status # "idle"
    <3> DEFINE t == local[i].owner[1]
    <3>1. t \in Xid /\ xfer[t].status # "idle"
      BY <2>1, RidFields DEF AccessOk, Access
    <3> HIDE DEF t
    <3>2. n(t) \in Nat
      BY <1>9, <3>1
    <3>3. xfer'[t].status # "idle"
      BY <1>10, <3>1, <3>2
    <3> QED BY <3>3 DEF t
  <2> QED BY <2>1, <2>2, <2>3 DEF AccessOk
<1>17. Contents'
  <2>1. \A r \in Rid : (xfer'[r[1]].status = "idle" \/ r \in Ids(dma')) => \A c \in Chunk : mem[r][c] = 0
    <3> SUFFICES ASSUME NEW r \in Rid, xfer'[r[1]].status = "idle" \/ r \in Ids(dma')
                 PROVE  \A c \in Chunk : mem[r][c] = 0
      OBVIOUS
    <3>1. r[1] \in Xid
      BY RidFields
    <3>2. CASE r \in Ids(dma')
      BY <1>1, <1>7, <3>2 DEF Contents
    <3>3. CASE xfer'[r[1]].status = "idle"
      <4>1. xfer[r[1]].status = "idle"
        BY <1>9, <1>10, <3>1, <3>3
      <4> QED BY <1>1, <4>1 DEF Contents
    <3> QED BY <3>2, <3>3
  <2>2. ASSUME NEW r \in Rid, xfer'[r[1]].status \in {"active", "ok"}, xfer'[r[1]].ok,
               r \notin Ids(dma'), r \notin Ids(landings)
        PROVE  \A c \in 1 .. Lands(r) : mem[r][c] = 1
    <3>1. r[1] \in Xid /\ r[2] \in 1 .. Bursts[r[1]] /\ r = <<r[1], r[2]>>
      BY RidFields
    <3>2. n(r[1]) = 0
      BY <1>9, <1>10, <2>2, <3>1
    <3>3. xfer'[r[1]] = xfer[r[1]] /\ L(r[1]) = {}
      BY <1>9, <1>10, <3>1, <3>2
    <3>5. r \notin Ids(lost)
      BY <3>1, <3>3 DEF L
    <3>4. r \notin Ids(dma)
      BY <1>7, <2>2, <3>5
    <3> QED BY <1>1, <2>2, <3>3, <3>4 DEF Contents
  <2> QED BY <1>1, <2>1, <2>2 DEF Contents, Ids
<1> QED BY <1>12, <1>13, <1>14, <1>15, <1>16, <1>17 DEF DInv

-----------------------------------------------------------------------------
(* The queue of the write port. *)

LEMMA QueueAppend ==
    ASSUME NEW q \in Seq(Access), NEW a \in Access, NEW d, NEW ls, NEW x, NEW g,
           QueueOk(q, d, ls, x, g), AccessOk(a, d, ls, x, g),
           \A i \in DOMAIN q : q[i].owner # a.owner
    PROVE  /\ Append(q, a) \in Seq(Access) /\ Len(Append(q, a)) = Len(q) + 1
           /\ QueueOk(Append(q, a), d, ls, x, g)
<1> DEFINE p == Append(q, a)
<1>1. p \in Seq(Access) /\ Len(p) = Len(q) + 1 /\ Len(q) \in Nat
      /\ \A i \in 1 .. Len(q) : p[i] = q[i]
  OBVIOUS
<1>2. p[Len(q) + 1] = a
  OBVIOUS
<1>3. DOMAIN q = 1 .. Len(q) /\ DOMAIN p = 1 .. Len(q) + 1
  BY <1>1
<1> HIDE DEF p
<1>4. \A i \in DOMAIN p : (i \in DOMAIN q /\ p[i] = q[i]) \/ (i = Len(q) + 1 /\ p[i] = a)
  BY <1>1, <1>2, <1>3
<1>5. \A i, j \in DOMAIN p : p[i].owner = p[j].owner => i = j
  BY <1>4 DEF QueueOk
<1>6. \A i \in DOMAIN p : AccessOk(p[i], d, ls, x, g)
  BY <1>4 DEF QueueOk
<1>7. QueueOk(p, d, ls, x, g)
  BY <1>5, <1>6 DEF QueueOk
<1> QED BY <1>1, <1>7 DEF p

LEMMA QueueTail ==
    ASSUME NEW q \in Seq(Access), q # <<>>, \A i, j \in DOMAIN q : q[i].owner = q[j].owner => i = j
    PROVE  /\ Head(q) \in Access /\ 1 \in DOMAIN q /\ Head(q) = q[1]
           /\ Tail(q) \in Seq(Access) /\ Len(Tail(q)) = Len(q) - 1 /\ Len(q) \in Nat
           /\ \A i \in DOMAIN Tail(q) :
                 i + 1 \in DOMAIN q /\ Tail(q)[i] = q[i + 1] /\ Tail(q)[i].owner # Head(q).owner
           /\ \A i, j \in DOMAIN Tail(q) : Tail(q)[i].owner = Tail(q)[j].owner => i = j
<1>1. Len(q) \in Nat /\ Len(q) # 0 /\ DOMAIN q = 1 .. Len(q)
  OBVIOUS
<1>2. Head(q) \in Access /\ Head(q) = q[1] /\ 1 \in DOMAIN q
  BY <1>1
<1>3. Tail(q) \in Seq(Access) /\ Len(Tail(q)) = Len(q) - 1
  OBVIOUS
<1>4. DOMAIN Tail(q) = 1 .. Len(q) - 1 /\ \A i \in DOMAIN Tail(q) : Tail(q)[i] = q[i + 1]
  BY <1>1, <1>3
<1>5. \A i \in DOMAIN Tail(q) : i \in Int /\ i + 1 \in DOMAIN q /\ i + 1 # 1
  BY <1>1, <1>4
<1>6. \A i \in DOMAIN Tail(q) : Tail(q)[i].owner # Head(q).owner
  BY <1>2, <1>4, <1>5
<1>7. \A i, j \in DOMAIN Tail(q) : Tail(q)[i].owner = Tail(q)[j].owner => i = j
  <2> SUFFICES ASSUME NEW i \in DOMAIN Tail(q), NEW j \in DOMAIN Tail(q),
                      Tail(q)[i].owner = Tail(q)[j].owner
               PROVE  i = j
    OBVIOUS
  <2>1. i + 1 = j + 1
    BY <1>4, <1>5
  <2>2. i \in Int /\ j \in Int
    BY <1>5
  <2> QED BY <2>1, <2>2
<1> QED BY <1>1, <1>2, <1>3, <1>4, <1>5, <1>6, <1>7

\* issueNextDmaLandingChunk
LEMMA SubmitFacts ==
    ASSUME NEW S \in SUBSET Landing, NEW q \in Seq(Access), NEW l \in Landing,
           l.offset < Lands(l.id), NEW crowded \in BOOLEAN, fence.active \in Gen
    PROVE  LET u == SubmitChunk([landings |-> S, local |-> q], l, crowded)
           IN  /\ NextAccess(l) \in Access
               /\ \E m \in Landing :
                    /\ m.id = l.id /\ m.gen = l.gen /\ m.offset = l.offset
                    /\ u.landings = S \cup {m}
                    /\ \/ u.local = q
                       \/ m.inFlight /\ Len(q) < QueueDepth /\ u.local = Append(q, NextAccess(l))
<1> DEFINE st == [landings |-> S, local |-> q]
           u  == SubmitChunk(st, l, crowded)
           m  == [l EXCEPT !.inFlight = TRUE]
<1>1. NextAccess(l) \in Access
  <2>1. l.id \in Rid /\ l.offset \in Nat
    BY DEF Landing
  <2>2. l.offset + 1 \in Chunk
    BY <2>1, LandsType, ConstantTypes DEF Chunk
  <2> QED BY <2>1, <2>2, Zenon DEF NextAccess, Access
<1>2. m \in Landing /\ m.id = l.id /\ m.gen = l.gen /\ m.offset = l.offset /\ m.inFlight
  BY Zenon DEF Landing
<1> HIDE DEF m
<1>3. CASE crowded \/ Len(q) >= QueueDepth
  <2>1. u = [st EXCEPT !.landings = @ \cup {l}]
    BY <1>3, Zenon DEF SubmitChunk
  <2>2. u.landings = S \cup {l} /\ u.local = q
    BY <2>1, Zenon
  <2> QED BY <1>1, <2>2
<1>4. CASE ~(crowded \/ Len(q) >= QueueDepth)
  <2>1. u = [landings |-> S \cup {m}, local |-> Append(q, NextAccess(l))]
    <3>1. st.landings = S /\ st.local = q
      BY Zenon
    <3> HIDE DEF st
    <3> QED BY <1>4, <3>1, Zenon DEF SubmitChunk, m
  <2>2. u.landings = S \cup {m} /\ u.local = Append(q, NextAccess(l))
    <3> HIDE DEF u
    <3> QED BY <2>1, Zenon
  <2>3. Len(q) < QueueDepth
    BY <1>4, ConstantTypes
  <2> QED BY <1>1, <1>2, <2>2, <2>3
<1> QED BY <1>3, <1>4

-----------------------------------------------------------------------------
(* handle_receives for DMA_READ_COMPLETE. *)

LEMMA ReceiveReplyInv ==
    ASSUME DInv, NEW id \in Rid, NEW crowded \in BOOLEAN, ReceiveReply(id, crowded)
    PROVE  DInv'
<1> DEFINE found == {op \in dma : op.id = id}
           taken == {op \in found : Valid(op.gen)}
           st == [landings |-> landings, local |-> local]
           new(op) == [id |-> id, gen |-> op.gen, offset |-> 0, inFlight |-> FALSE]
           land(op) == SubmitChunk(st, new(op), crowded)
<1>1. /\ Typed /\ Distinct /\ Owned /\ Counted /\ Queued /\ Contents
      /\ EndWith(dma \ found, sendQ, [net EXCEPT ![id].reply = @ - 1])
      /\ \/ taken = {} /\ landings' = landings /\ local' = local
         \/ \E op \in taken : landings' = land(op).landings /\ local' = land(op).local
      /\ fence' = fence /\ xfer' = xfer /\ mem' = mem
  BY Zenon DEF ReceiveReply, Taken, DInv
<1>2. Retimed(dma \ found, dma')
  <2>1. dma \ found \in SUBSET Op
    BY <1>1 DEF Typed
  <2> HIDE DEF found
  <2> QED BY <1>1, <2>1, EndWithRetimed
<1>3. CASE found = {}
  <2>1. landings' = landings /\ local' = local
    BY <1>1, <1>3
  <2>2. dma \ found = dma
    BY <1>3
  <2> QED BY <1>1, <1>2, <2>1, <2>2, RetimedInv
<1>4. CASE found # {}
  <2>1. PICK op \in dma : op.id = id
    BY <1>4
  <2>2. /\ op \in Op /\ op.gen \in Gen /\ id[1] \in Xid
        /\ xfer[id[1]].status = "active" /\ xfer[id[1]].gen = op.gen /\ op.gen \in {0, fence.active}
    BY <1>1, <2>1, RidFields DEF Typed, Owned, Op
  <2>3. taken = {op}
    BY <1>1, <2>1, <2>2 DEF Distinct, Unique, Valid
  <2>4. landings' = land(op).landings /\ local' = land(op).local
    <3> HIDE DEF land, taken
    <3> QED BY <1>1, <2>3
  <2> DEFINE l0 == new(op)
  <2>5. l0 \in Landing /\ l0.id = id /\ l0.gen = op.gen /\ l0.offset = 0
    <3>1. 0 \in 0 .. LandChunks
      BY ConstantTypes
    <3> QED BY <2>2, <3>1, Zenon DEF Landing
  <2>6. 0 < Lands(id) /\ fence.active \in Gen /\ local \in Seq(Access) /\ landings \in SUBSET Landing
    BY <1>1, LandsType, ConstantTypes DEF Typed
  <2>7. landings' = SubmitChunk([landings |-> landings, local |-> local], l0, crowded).landings
        /\ local' = SubmitChunk([landings |-> landings, local |-> local], l0, crowded).local
    BY <2>4
  <2> HIDE DEF l0
  <2>8. NextAccess(l0) \in Access
    BY <2>5, <2>6, SubmitFacts
  <2>9. PICK m \in Landing :
          /\ m.id = id /\ m.gen = op.gen /\ m.offset = 0
          /\ landings' = landings \cup {m}
          /\ \/ local' = local
             \/ m.inFlight /\ Len(local) < QueueDepth /\ local' = Append(local, NextAccess(l0))
    <3>1. l0.offset < Lands(l0.id)
      BY <2>5, <2>6
    <3> DEFINE u == SubmitChunk([landings |-> landings, local |-> local], l0, crowded)
    <3>2. PICK m \in Landing :
            /\ m.id = l0.id /\ m.gen = l0.gen /\ m.offset = l0.offset
            /\ u.landings = landings \cup {m}
            /\ \/ u.local = local
               \/ m.inFlight /\ Len(local) < QueueDepth /\ u.local = Append(local, NextAccess(l0))
      BY <2>5, <2>6, <3>1, SubmitFacts
    <3>3. landings' = u.landings /\ local' = u.local
      BY <2>7
    <3> HIDE DEF u
    <3> QED BY <2>5, <3>2, <3>3
  <2>10. /\ dma' \subseteq Op
         /\ \A y \in dma' : y.id # id /\ \E x \in dma : y.id = x.id /\ y.gen = x.gen
         /\ Unique(dma')
    <3>1. Unique(dma \ found)
      BY <1>1 DEF Distinct, Unique
    <3> QED BY <1>2, <3>1 DEF Retimed
  <2>11. \A r : r \in Ids(dma') <=> r \in Ids(dma) /\ r # id
    <3>1. Ids(dma') = Ids(dma \ found)
      BY <1>2, RetimedIds
    <3> QED BY <3>1 DEF Ids
  <2>12. \A r : r \in Ids(landings') <=> r \in Ids(landings) \/ r = id
    BY <2>9 DEF Ids
  <2>13. id \in Ids(dma) /\ (\A l \in landings : l.id # id) /\ id \notin Ids(landings)
    BY <1>1, <2>1 DEF Distinct, Ids
  <2>14. Queued'
    <3>1. QueueOk(local, dma', landings', xfer', fence'.active)
      <4> SUFFICES ASSUME NEW i \in DOMAIN local
                   PROVE  AccessOk(local[i], dma', landings', xfer', fence'.active)
        BY <1>1 DEF Queued, QueueOk
      <4>1. AccessOk(local[i], dma, landings, xfer, fence.active)
        BY <1>1 DEF Queued, QueueOk
      <4>2. local[i].owner # id
        BY <2>1, <4>1 DEF AccessOk
      <4>3. \A y \in dma' : y.id # local[i].owner
        BY <2>10, <4>1 DEF AccessOk
      <4>4. \A l \in landings' : l.id = local[i].owner => l \in landings
        BY <2>9, <4>2
      <4>5. local[i].owner \in Ids(landings) => local[i].owner \in Ids(landings')
        BY <2>12
      <4> QED BY <1>1, <4>1, <4>3, <4>4, <4>5 DEF AccessOk
    <3>2. CASE local' = local
      BY <3>1, <3>2 DEF Queued
    <3>3. CASE m.inFlight /\ local' = Append(local, NextAccess(l0))
      <4> DEFINE a == NextAccess(l0)
      <4>1. a.owner = id /\ a.chunk = 0 + 1 /\ a.gen = fence.active /\ ~a.cancelled
        BY <2>5 DEF NextAccess
      <4> HIDE DEF a
      <4>2. \A l \in landings' : l.id = id => l = m
        BY <2>9, <2>13
      <4>3. m.gen \in {0, a.gen} /\ a.chunk = m.offset + 1
        BY <2>2, <2>9, <4>1
      <4>4. AccessOk(a, dma', landings', xfer', fence'.active)
        BY <1>1, <2>2, <2>10, <2>12, <3>3, <4>1, <4>2, <4>3 DEF AccessOk
      <4>5. \A i \in DOMAIN local : local[i].owner # a.owner
        BY <1>1, <2>1, <4>1 DEF Queued, QueueOk, AccessOk
      <4>6. QueueOk(Append(local, a), dma', landings', xfer', fence'.active)
        BY <2>6, <2>8, <3>1, <4>4, <4>5, QueueAppend DEF a
      <4> QED BY <3>3, <4>6 DEF Queued, a
    <3> QED BY <2>9, <3>2, <3>3
  <2>15. Typed'
    <3>1. local' \in Seq(Access) /\ Len(local') <= QueueDepth
      <4>1. CASE local' = local
        BY <1>1, <4>1 DEF Typed
      <4>2. CASE Len(local) < QueueDepth /\ local' = Append(local, NextAccess(l0))
        BY <2>6, <2>8, <4>2, ConstantTypes
      <4> QED BY <2>9, <4>1, <4>2
    <3> QED BY <1>1, <2>6, <2>9, <2>10, <3>1 DEF Typed
  <2>16. Distinct'
    BY <1>1, <2>9, <2>10, <2>13 DEF Distinct, Unique
  <2>17. Owned'
    <3>1. \A x \in dma' \cup landings' : xfer[x.id[1]].status = "active" /\ xfer[x.id[1]].gen = x.gen
      BY <1>1, <2>2, <2>9, <2>10 DEF Owned
    <3> QED BY <1>1, <3>1 DEF Owned
  <2>18. Counted'
    <3>1. \A t \in Xid : Outstanding(t)' = Outstanding(t)
      BY <2>11, <2>12, <2>13 DEF Outstanding, Ids
    <3> QED BY <1>1, <3>1 DEF Counted
  <2>19. Contents'
    <3>1. \A r \in Rid : (xfer[r[1]].status = "idle" \/ r \in Ids(dma')) => \A c \in Chunk : mem[r][c] = 0
      BY <1>1, <2>11 DEF Contents
    <3>2. \A l \in landings' : l.offset < Lands(l.id)
                               /\ \A c \in Chunk : mem[l.id][c] = IF c <= l.offset THEN 1 ELSE 0
      <4>1. \A c \in Chunk : mem[id][c] = 0 /\ ~(c <= 0)
        BY <1>1, <2>13 DEF Contents, Chunk
      <4> QED BY <1>1, <2>6, <2>9, <4>1 DEF Contents
    <3>3. \A r \in Rid :
            xfer[r[1]].status \in {"active", "ok"} /\ xfer[r[1]].ok
                /\ r \notin Ids(dma') /\ r \notin Ids(landings')
            => \A c \in 1 .. Lands(r) : mem[r][c] = 1
      BY <1>1, <2>11, <2>12 DEF Contents
    <3> QED BY <1>1, <3>1, <3>2, <3>3 DEF Contents, Ids
  <2> QED BY <2>14, <2>15, <2>16, <2>17, <2>18, <2>19 DEF DInv
<1> QED BY <1>3, <1>4

-----------------------------------------------------------------------------
(* handleLocalAccessEvent: the access at the head of the queue is over. *)

\* The next chunk is written: u is the new and v the old count of chunk c.
LEMMA NextWritten ==
    ASSUME NEW c \in Int, NEW o \in Int, NEW v, NEW u, v = (IF c <= o THEN 1 ELSE 0),
           (c = o + 1 /\ u = v + 1) \/ (c # o + 1 /\ u = v)
    PROVE  u = IF c <= o + 1 THEN 1 ELSE 0
OBVIOUS

LEMMA PairEq == \A a, b, c : <<a, b>> = <<a, c>> <=> b = c
OBVIOUS

\* finishDmaReadLanding
LEMMA FinishFacts ==
    ASSUME NEW x \in Context, x.remaining > 0, NEW ok \in BOOLEAN
    PROVE  /\ Finish(x, ok) \in Context /\ Finish(x, ok).gen = x.gen
           /\ Finish(x, ok).remaining = x.remaining - 1
           /\ Finish(x, ok).ok <=> x.ok /\ ok
           /\ x.remaining - 1 > 0 => Finish(x, ok).status = x.status
           /\ ~(x.remaining - 1 > 0) =>
                 Finish(x, ok).status = IF Finish(x, ok).ok THEN "ok" ELSE "failed"
<1> DEFINE left == [x EXCEPT !.remaining = @ - 1, !.ok = @ /\ ok]
           st == IF left.ok THEN "ok" ELSE "failed"
           done == [left EXCEPT !.token = TRUE, !.status = st]
<1>1. x.remaining - 1 \in Nat /\ (x.ok /\ ok) \in BOOLEAN
  BY DEF Context
<1>2. /\ left \in Context /\ left.gen = x.gen /\ (left.ok <=> x.ok /\ ok)
      /\ left.remaining = x.remaining - 1 /\ left.status = x.status
  BY <1>1, Zenon DEF Context
<1>3. Finish(x, ok) = IF left.remaining > 0 THEN left ELSE done
  BY Zenon DEF Finish
<1> HIDE DEF left
<1>4. st \in {"idle", "active", "ok", "failed", "cancelled"}
  OBVIOUS
<1>5. st = IF left.ok THEN "ok" ELSE "failed"
  OBVIOUS
<1> HIDE DEF st
<1>6. /\ done \in Context /\ done.gen = left.gen /\ done.ok = left.ok
      /\ done.remaining = left.remaining /\ done.status = st
  BY <1>2, <1>4, Zenon DEF Context
<1> HIDE DEF done
<1>7. CASE left.remaining > 0
  <2>1. Finish(x, ok) = left /\ x.remaining - 1 > 0
    BY <1>2, <1>3, <1>7
  <2> QED BY <1>2, <2>1
<1>8. CASE ~(left.remaining > 0)
  <2>1. Finish(x, ok) = done /\ ~(x.remaining - 1 > 0)
    BY <1>2, <1>3, <1>8
  <2> QED BY <1>2, <1>5, <1>6, <2>1
<1> QED BY <1>7, <1>8

\* The write of a chunk.
LEMMA WriteFacts ==
    ASSUME mem \in [Rid -> [Chunk -> Nat]], NEW r \in Rid, NEW k \in Chunk, NEW ok \in BOOLEAN,
           mem' = IF ok THEN [mem EXCEPT ![r][k] = @ + 1] ELSE mem
    PROVE  /\ mem' \in [Rid -> [Chunk -> Nat]]
           /\ \A u \in Rid : u # r => mem'[u] = mem[u]
           /\ \A c \in Chunk : c # k => mem'[r][c] = mem[r][c]
           /\ ok => mem'[r][k] = mem[r][k] + 1
           /\ ~ok => mem' = mem
<1>1. CASE ok
  <2>1. mem' = [mem EXCEPT ![r] = [mem[r] EXCEPT ![k] = mem[r][k] + 1]]
    BY <1>1
  <2>2. mem[r][k] + 1 \in Nat /\ mem[r] \in [Chunk -> Nat]
    OBVIOUS
  <2> QED BY <1>1, <2>1, <2>2
<1>2. CASE ~ok
  BY <1>2
<1> QED BY <1>1, <1>2

\* The rest of the queue once the head has gone: landings and contexts may have
\* changed for the owner of the head only.
LEMMA RestOk ==
    ASSUME NEW q \in Seq(Access), q # <<>>, NEW d, NEW ls, NEW x, NEW g, NEW ms, NEW y,
           QueueOk(q, d, ls, x, g),
           \A r \in Rid : r # Head(q).owner /\ x[r[1]].status # "idle" => y[r[1]].status # "idle",
           \A l \in ms : l \in ls \/ l.id = Head(q).owner,
           \A r \in Ids(ls) : r \in Ids(ms) \/ r = Head(q).owner
    PROVE  QueueOk(Tail(q), d, ms, y, g)
<1>1. \A i, j \in DOMAIN q : q[i].owner = q[j].owner => i = j
  BY DEF QueueOk
<1>2. /\ \A i \in DOMAIN Tail(q) :
            i + 1 \in DOMAIN q /\ Tail(q)[i] = q[i + 1] /\ Tail(q)[i].owner # Head(q).owner
      /\ \A i, j \in DOMAIN Tail(q) : Tail(q)[i].owner = Tail(q)[j].owner => i = j
      /\ Tail(q) \in Seq(Access)
  BY <1>1, QueueTail
<1>3. ASSUME NEW i \in DOMAIN Tail(q)
      PROVE  AccessOk(Tail(q)[i], d, ms, y, g)
  <2> DEFINE a == Tail(q)[i]
  <2>1. AccessOk(a, d, ls, x, g) /\ a.owner # Head(q).owner
    BY <1>2 DEF QueueOk
  <2>2. a.owner \in Rid
    <3>1. a \in Access
      BY <1>2
    <3> QED BY <3>1 DEF Access
  <2> HIDE DEF a
  <2>3. AccessOk(a, d, ms, y, g)
    BY <2>1, <2>2 DEF AccessOk
  <2> QED BY <2>3 DEF a
<1> QED BY <1>2, <1>3 DEF QueueOk

\* The callback of an access whose landing is gone does nothing.
LEMMA LocalDoneOrphan ==
    ASSUME DInv, NEW crowded \in BOOLEAN, LocalDone(crowded),
           Head(local).owner \notin Ids(landings)
    PROVE  DInv'
<1> DEFINE a == Head(local)
<1>1. /\ Typed /\ Distinct /\ Owned /\ Counted /\ Queued /\ Contents /\ local # <<>>
      /\ fence' = fence /\ dma' = dma
  BY DEF LocalDone, DInv
<1>2. {l \in landings : l.id = a.owner} = {}
  BY DEF Ids
<1>3. /\ landings' = landings /\ local' = Tail(local) /\ xfer' = xfer
      /\ mem' = IF MayWrite(a) THEN [mem EXCEPT ![a.owner][a.chunk] = @ + 1] ELSE mem
  BY <1>2, Zenon DEF LocalDone
<1>4. \A i, j \in DOMAIN local : local[i].owner = local[j].owner => i = j
  BY <1>1 DEF Queued, QueueOk
<1>5. local \in Seq(Access) /\ Len(local) <= QueueDepth
  BY <1>1 DEF Typed
<1>6. /\ 1 \in DOMAIN local /\ a = local[1] /\ Tail(local) \in Seq(Access)
      /\ Len(Tail(local)) = Len(local) - 1 /\ Len(local) \in Nat
  BY <1>1, <1>4, <1>5, QueueTail
<1>7. mem' = mem
  <2>1. AccessOk(a, dma, landings, xfer, fence.active)
    BY <1>1, <1>6 DEF Queued, QueueOk
  <2>2. a.cancelled
    BY <2>1 DEF AccessOk
  <2> QED BY <1>3, <2>2 DEF MayWrite
<1>8. Typed'
  <2>1. local' \in Seq(Access) /\ Len(local') <= QueueDepth
    BY <1>3, <1>5, <1>6, ConstantTypes
  <2> QED BY <1>1, <1>3, <1>7, <2>1 DEF Typed
<1>9. Distinct' /\ Owned'
  BY <1>1, <1>3 DEF Distinct, Unique, Owned
<1>10. Counted'
  <2>1. \A t \in Xid : Outstanding(t)' = Outstanding(t)
    BY <1>1, <1>3 DEF Outstanding, Ids
  <2> QED BY <1>1, <1>3, <2>1 DEF Counted
<1>11. Queued'
  <2>1. QueueOk(Tail(local), dma, landings, xfer, fence.active)
    BY <1>1, <1>5, RestOk DEF Queued
  <2> QED BY <1>1, <1>3, <2>1 DEF Queued
<1>12. Contents'
  <2>1. Ids(dma)' = Ids(dma) /\ Ids(landings)' = Ids(landings)
    BY <1>1, <1>3 DEF Ids
  <2>2. mem' = mem /\ xfer' = xfer /\ landings' = landings
    BY <1>3, <1>7
  <2>3. Contents
    BY <1>1
  <2> QED BY <2>1, <2>2, <2>3 DEF Contents
<1> QED BY <1>8, <1>9, <1>10, <1>11, <1>12 DEF DInv

\* The head of the queue and its landing.
LEMMA HeadFacts ==
    ASSUME DInv, local # <<>>, NEW l \in landings, l.id = Head(local).owner
    PROVE  /\ {m \in landings : m.id = Head(local).owner} = {l}
           /\ l \in Landing /\ l.id \in Rid /\ l.id[1] \in Xid /\ l.offset \in Nat
           /\ Head(local) \in Access /\ Head(local).chunk = l.offset + 1 /\ Head(local).chunk \in Chunk
           /\ l.offset < Lands(l.id) /\ Lands(l.id) \in 1 .. LandChunks
           /\ l.gen \in {0, fence.active} /\ xfer[l.id[1]].status = "active" /\ xfer[l.id[1]].gen = l.gen
           /\ l.id \notin Ids(dma)
           /\ local \in Seq(Access) /\ Len(local) <= QueueDepth /\ Len(local) \in Nat
           /\ Tail(local) \in Seq(Access) /\ Len(Tail(local)) = Len(local) - 1
           /\ \A i \in DOMAIN Tail(local) : Tail(local)[i].owner # l.id
<1>1. Typed /\ Distinct /\ Owned /\ Queued /\ Contents
  BY DEF DInv
<1>2. {m \in landings : m.id = Head(local).owner} = {l}
  BY <1>1 DEF Distinct, Unique
<1>3. l \in Landing /\ l.id \in Rid /\ l.id[1] \in Xid /\ l.offset \in Nat
  BY <1>1, RidFields DEF Typed, Landing
<1>4. l.offset < Lands(l.id) /\ Lands(l.id) \in 1 .. LandChunks
  BY <1>1, <1>3, LandsType DEF Contents
<1>5. l.gen \in {0, fence.active} /\ xfer[l.id[1]].status = "active" /\ xfer[l.id[1]].gen = l.gen
  BY <1>1, <1>3 DEF Owned
<1>6. l.id \notin Ids(dma)
  BY <1>1 DEF Distinct, Ids
<1>7. local \in Seq(Access) /\ Len(local) <= QueueDepth
  BY <1>1 DEF Typed
<1>8. \A i, j \in DOMAIN local : local[i].owner = local[j].owner => i = j
  BY <1>1 DEF Queued, QueueOk
<1>9. /\ Head(local) \in Access /\ 1 \in DOMAIN local /\ Head(local) = local[1]
      /\ Tail(local) \in Seq(Access) /\ Len(Tail(local)) = Len(local) - 1 /\ Len(local) \in Nat
      /\ \A i \in DOMAIN Tail(local) : Tail(local)[i].owner # l.id
  BY <1>7, <1>8, QueueTail
<1>10. AccessOk(Head(local), dma, landings, xfer, fence.active)
  BY <1>1, <1>9 DEF Queued, QueueOk
<1>11. Head(local).chunk = l.offset + 1 /\ Head(local).chunk \in Chunk
  BY <1>9, <1>10 DEF AccessOk, Access
<1> QED BY <1>2, <1>3, <1>4, <1>5, <1>6, <1>7, <1>9, <1>11

\* The next chunk of the landing is submitted.
LEMMA LocalDoneContinues ==
    ASSUME DInv, NEW crowded \in BOOLEAN, LocalDone(crowded),
           NEW l \in landings, l.id = Head(local).owner,
           MayWrite(Head(local)), l.offset + 1 < Lands(l.id)
    PROVE  DInv'
<1> DEFINE a == Head(local)
           next == [l EXCEPT !.offset = @ + 1, !.inFlight = FALSE]
           S == landings \ {l}
<1>1. /\ Typed /\ Distinct /\ Owned /\ Counted /\ Queued /\ Contents /\ local # <<>>
      /\ fence' = fence /\ dma' = dma
      /\ mem' = IF MayWrite(a) THEN [mem EXCEPT ![a.owner][a.chunk] = @ + 1] ELSE mem
  BY DEF LocalDone, DInv
<1>2. /\ {m \in landings : m.id = a.owner} = {l}
      /\ l \in Landing /\ l.id \in Rid /\ l.id[1] \in Xid /\ l.offset \in Nat
      /\ a \in Access /\ a.chunk = l.offset + 1 /\ a.chunk \in Chunk
      /\ l.offset < Lands(l.id) /\ Lands(l.id) \in 1 .. LandChunks
      /\ l.gen \in {0, fence.active} /\ xfer[l.id[1]].status = "active" /\ xfer[l.id[1]].gen = l.gen
      /\ l.id \notin Ids(dma)
      /\ local \in Seq(Access) /\ Len(local) <= QueueDepth /\ Len(local) \in Nat
      /\ Tail(local) \in Seq(Access) /\ Len(Tail(local)) = Len(local) - 1
      /\ \A i \in DOMAIN Tail(local) : Tail(local)[i].owner # l.id
  BY ZenonT(30), <1>1, HeadFacts
<1>3. next \in Landing /\ next.id = l.id /\ next.gen = l.gen /\ next.offset = l.offset + 1
  <2>1. l.offset + 1 \in 0 .. LandChunks
    <3>1. l.offset \in Nat /\ l.offset < Lands(l.id) /\ Lands(l.id) \in 1 .. LandChunks
      BY <1>2
    <3>2. LandChunks \in Nat
      BY ConstantTypes
    <3> QED BY <3>1, <3>2, NextOffset
  <2> QED BY <1>2, <2>1, Zenon DEF Landing
<1>4. /\ xfer' = xfer
      /\ landings' = SubmitChunk([landings |-> S, local |-> Tail(local)], next, crowded).landings
      /\ local' = SubmitChunk([landings |-> S, local |-> Tail(local)], next, crowded).local
  <2> DEFINE st == SubmitChunk([landings |-> S, local |-> Tail(local)], next, crowded)
             found == {m \in landings : m.id = a.owner}
  <2>1. found = {l}
    BY <1>2
  <2>2. MayWrite(a) /\ next.offset < Lands(l.id)
    BY <1>3
  <2>3. \E m \in found :
           LET nx == [m EXCEPT !.offset = @ + 1, !.inFlight = FALSE]
               u  == SubmitChunk([landings |-> landings \ found, local |-> Tail(local)], nx, crowded)
           IN  IF MayWrite(a) /\ nx.offset < Lands(m.id)
               THEN landings' = u.landings /\ local' = u.local /\ xfer' = xfer
               ELSE /\ landings' = [landings |-> landings \ found, local |-> Tail(local)].landings
                    /\ local' = [landings |-> landings \ found, local |-> Tail(local)].local
                    /\ xfer' = [xfer EXCEPT ![m.id[1]] = Finish(@, MayWrite(a))]
    <3>1. found # {}
      BY <2>1
    <3> QED BY <3>1, Zenon DEF LocalDone
  <2> HIDE DEF found
  <2>4. LET u == SubmitChunk([landings |-> landings \ {l}, local |-> Tail(local)], next, crowded)
        IN  IF MayWrite(a) /\ next.offset < Lands(l.id)
            THEN landings' = u.landings /\ local' = u.local /\ xfer' = xfer
            ELSE /\ landings' = [landings |-> landings \ {l}, local |-> Tail(local)].landings
                 /\ local' = [landings |-> landings \ {l}, local |-> Tail(local)].local
                 /\ xfer' = [xfer EXCEPT ![l.id[1]] = Finish(@, MayWrite(a))]
    BY <2>1, <2>3, Zenon
  <2> QED BY <2>2, <2>4, Zenon
<1> HIDE DEF next
<1>5. PICK m \in Landing :
        /\ m.id = l.id /\ m.gen = l.gen /\ m.offset = l.offset + 1
        /\ landings' = S \cup {m}
        /\ \/ local' = Tail(local)
           \/ m.inFlight /\ Len(Tail(local)) < QueueDepth /\ local' = Append(Tail(local), NextAccess(next))
  <2> DEFINE u == SubmitChunk([landings |-> S, local |-> Tail(local)], next, crowded)
  <2>1. S \in SUBSET Landing /\ fence.active \in Gen /\ next.offset < Lands(next.id)
    BY <1>1, <1>3 DEF Typed
  <2> HIDE DEF S
  <2>2. PICK m \in Landing :
          /\ m.id = next.id /\ m.gen = next.gen /\ m.offset = next.offset
          /\ u.landings = S \cup {m}
          /\ \/ u.local = Tail(local)
             \/ m.inFlight /\ Len(Tail(local)) < QueueDepth /\ u.local = Append(Tail(local), NextAccess(next))
    <3>1. Tail(local) \in Seq(Access) /\ next \in Landing
      BY <1>2, <1>3
    <3> QED BY <2>1, <3>1, SubmitFacts
  <2>3. landings' = u.landings /\ local' = u.local
    BY <1>4
  <2> HIDE DEF u
  <2> QED BY <1>3, <2>2, <2>3
<1>6. NextAccess(next) \in Access
  <2>1. fence.active \in Gen /\ next.offset < Lands(next.id)
    BY <1>1, <1>3 DEF Typed
  <2> QED BY <1>2, <1>3, <2>1, SubmitFacts
<1>7. /\ mem' \in [Rid -> [Chunk -> Nat]]
      /\ \A u \in Rid : u # l.id => mem'[u] = mem[u]
      /\ \A c \in Chunk : c # a.chunk => mem'[l.id][c] = mem[l.id][c]
      /\ mem'[l.id][a.chunk] = mem[l.id][a.chunk] + 1
  <2>1. mem \in [Rid -> [Chunk -> Nat]] /\ MayWrite(a) \in BOOLEAN /\ a.owner = l.id
    BY <1>1 DEF Typed
  <2>2. mem' = IF TRUE THEN [mem EXCEPT ![l.id][a.chunk] = @ + 1] ELSE mem
    BY <1>1, <2>1
  <2> QED BY <1>2, <2>1, <2>2, WriteFacts
<1>8. \A x \in landings : x.id = l.id => x = l
  BY <1>1 DEF Distinct, Unique
<1>9. Ids(landings') = Ids(landings)
  BY <1>5 DEF Ids
<1>10. Typed'
  <2>1. local' \in Seq(Access) /\ Len(local') <= QueueDepth
    <3>0. /\ Tail(local) \in Seq(Access) /\ Len(local) \in Nat /\ QueueDepth \in Nat
          /\ Len(local) <= QueueDepth /\ Len(Tail(local)) = Len(local) - 1
      BY <1>2, ConstantTypes
    <3>1. CASE local' = Tail(local)
      BY <3>0, <3>1, OneShorter
    <3>2. CASE Len(Tail(local)) < QueueDepth /\ local' = Append(Tail(local), NextAccess(next))
      BY <1>6, <3>0, <3>2
    <3> QED BY <1>5, <3>1, <3>2
  <2> QED BY <1>1, <1>4, <1>5, <1>7, <2>1 DEF Typed
<1>11. Distinct'
  <2>1. Unique(landings')
    BY <1>1, <1>5, <1>8 DEF Distinct, Unique
  <2>2. \A op \in dma, x \in landings' : op.id # x.id
    BY <1>1, <1>5 DEF Distinct
  <2> QED BY <1>1, <2>1, <2>2 DEF Distinct, Unique
<1>12. Owned'
  BY ZenonT(30), <1>1, <1>2, <1>4, <1>5 DEF Owned
<1>13. Counted'
  <2>1. \A t \in Xid : Outstanding(t)' = Outstanding(t)
    BY <1>1, <1>9 DEF Outstanding, Ids
  <2> QED BY <1>1, <1>4, <2>1 DEF Counted
<1>14. Queued'
  <2>1. QueueOk(Tail(local), dma', landings', xfer', fence'.active)
    <3>1. QueueOk(local, dma', landings, xfer', fence'.active)
      BY <1>1, <1>4 DEF Queued
    <3>2. \A x \in landings' : x \in landings \/ x.id = a.owner
      BY <1>5
    <3>3. \A r \in Ids(landings) : r \in Ids(landings') \/ r = a.owner
      BY <1>9
    <3> QED BY <1>1, <1>2, <3>1, <3>2, <3>3, RestOk
  <2>2. CASE local' = Tail(local)
    BY <2>1, <2>2 DEF Queued
  <2>3. CASE m.inFlight /\ local' = Append(Tail(local), NextAccess(next))
    <3> DEFINE b == NextAccess(next)
    <3>1. b.owner = l.id /\ b.chunk = next.offset + 1 /\ b.gen = fence.active /\ ~b.cancelled
      BY <1>3 DEF NextAccess
    <3> HIDE DEF b
    <3>2. \A x \in landings' : x.id = l.id => x = m
      BY <1>5, <1>8
    <3>3. m.gen \in {0, b.gen} /\ b.chunk = m.offset + 1 /\ l.id \in Ids(landings')
      <4>1. l.id \in Ids(landings')
        BY <1>9 DEF Ids
      <4>2. b.chunk = m.offset + 1
        BY <1>3, <1>5, <3>1
      <4> QED BY <1>2, <1>5, <3>1, <4>1, <4>2
    <3>4. \A op \in dma' : op.id # l.id
      BY <1>1, <1>2 DEF Ids
    <3>5. AccessOk(b, dma', landings', xfer', fence'.active)
      BY <1>1, <1>2, <1>4, <2>3, <3>1, <3>2, <3>3, <3>4 DEF AccessOk
    <3>6. \A i \in DOMAIN Tail(local) : Tail(local)[i].owner # b.owner
      BY <1>2, <3>1
    <3>7. QueueOk(Append(Tail(local), b), dma', landings', xfer', fence'.active)
      BY <1>2, <1>6, <2>1, <3>5, <3>6, QueueAppend DEF b
    <3> QED BY <2>3, <3>7 DEF Queued, b
  <2> QED BY <1>5, <2>2, <2>3
<1>15. Contents'
  <2>1. \A r \in Rid : (xfer[r[1]].status = "idle" \/ r \in Ids(dma)) => \A c \in Chunk : mem'[r][c] = 0
    <3>1. \A r \in Rid : (xfer[r[1]].status = "idle" \/ r \in Ids(dma)) => r # l.id
      BY <1>2
    <3>2. \A r \in Rid : (xfer[r[1]].status = "idle" \/ r \in Ids(dma)) => \A c \in Chunk : mem[r][c] = 0
      BY <1>1 DEF Contents
    <3>3. \A r \in Rid : r # l.id => mem'[r] = mem[r]
      BY <1>7
    <3> QED BY <3>1, <3>2, <3>3
  <2>2. \A x \in landings' : x.offset < Lands(x.id)
                             /\ \A c \in Chunk : mem'[x.id][c] = IF c <= x.offset THEN 1 ELSE 0
    <3>1. ASSUME NEW x \in landings, x # l
          PROVE  x.offset < Lands(x.id) /\ \A c \in Chunk : mem'[x.id][c] = IF c <= x.offset THEN 1 ELSE 0
      <4>1. x.id # l.id /\ x.id \in Rid
        BY <1>1, <1>8, <3>1 DEF Typed, Landing
      <4> QED BY <1>1, <1>7, <4>1 DEF Contents
    <3>2. \A c \in Chunk : mem'[l.id][c] = IF c <= l.offset + 1 THEN 1 ELSE 0
      <4> SUFFICES ASSUME NEW c \in Chunk PROVE mem'[l.id][c] = IF c <= l.offset + 1 THEN 1 ELSE 0
        OBVIOUS
      <4>1. mem[l.id][c] = IF c <= l.offset THEN 1 ELSE 0
        BY <1>1 DEF Contents
      <4>2. c \in Int /\ l.offset \in Int
        BY <1>2, ConstantTypes DEF Chunk
      <4>3. \/ c = l.offset + 1 /\ mem'[l.id][c] = mem[l.id][c] + 1
            \/ c # l.offset + 1 /\ mem'[l.id][c] = mem[l.id][c]
        BY <1>2, <1>7
      <4> QED BY <4>1, <4>2, <4>3, NextWritten
    <3>3. m.offset < Lands(m.id) /\ \A c \in Chunk : mem'[m.id][c] = IF c <= m.offset THEN 1 ELSE 0
      BY <1>3, <1>5, <3>2
    <3>4. \A x \in landings' : x = m \/ (x \in landings /\ x # l)
      BY <1>5
    <3> QED BY <3>1, <3>3, <3>4
  <2>3. \A r \in Rid :
          xfer[r[1]].status \in {"active", "ok"} /\ xfer[r[1]].ok
              /\ r \notin Ids(dma) /\ r \notin Ids(landings)
          => \A c \in 1 .. Lands(r) : mem'[r][c] = 1
    <3>1. \A r \in Rid : r \notin Ids(landings) => mem'[r] = mem[r]
      BY <1>7 DEF Ids
    <3>2. \A r \in Rid :
            xfer[r[1]].status \in {"active", "ok"} /\ xfer[r[1]].ok
                /\ r \notin Ids(dma) /\ r \notin Ids(landings)
            => \A c \in 1 .. Lands(r) : mem[r][c] = 1
      BY <1>1 DEF Contents
    <3> SUFFICES ASSUME NEW r \in Rid, xfer[r[1]].status \in {"active", "ok"}, xfer[r[1]].ok,
                        r \notin Ids(dma), r \notin Ids(landings), NEW c \in 1 .. Lands(r)
                 PROVE  mem'[r][c] = 1
      OBVIOUS
    <3>3. mem'[r] = mem[r] /\ mem[r][c] = 1
      BY <3>1, <3>2
    <3> QED BY <3>3
  <2> QED BY <1>1, <1>4, <1>9, <2>1, <2>2, <2>3 DEF Contents
<1> QED BY <1>10, <1>11, <1>12, <1>13, <1>14, <1>15 DEF DInv

\* The landing is over.
LEMMA LocalDoneFinishes ==
    ASSUME DInv, NEW crowded \in BOOLEAN, LocalDone(crowded),
           NEW l \in landings, l.id = Head(local).owner,
           ~(MayWrite(Head(local)) /\ l.offset + 1 < Lands(l.id))
    PROVE  DInv'
<1> DEFINE a == Head(local)
           ok == MayWrite(a)
           t == l.id[1]
           S == landings \ {l}
<1>1. /\ Typed /\ Distinct /\ Owned /\ Counted /\ Queued /\ Contents /\ local # <<>>
      /\ fence' = fence /\ dma' = dma
      /\ mem' = IF ok THEN [mem EXCEPT ![a.owner][a.chunk] = @ + 1] ELSE mem
  BY DEF LocalDone, DInv
<1>2. /\ {m \in landings : m.id = a.owner} = {l}
      /\ l \in Landing /\ l.id \in Rid /\ t \in Xid /\ l.offset \in Nat
      /\ a \in Access /\ a.chunk = l.offset + 1 /\ a.chunk \in Chunk
      /\ l.offset < Lands(l.id) /\ Lands(l.id) \in 1 .. LandChunks
      /\ l.gen \in {0, fence.active} /\ xfer[t].status = "active" /\ xfer[t].gen = l.gen
      /\ l.id \notin Ids(dma)
      /\ local \in Seq(Access) /\ Len(local) <= QueueDepth /\ Len(local) \in Nat
      /\ Tail(local) \in Seq(Access) /\ Len(Tail(local)) = Len(local) - 1
      /\ \A i \in DOMAIN Tail(local) : Tail(local)[i].owner # l.id
  BY ZenonT(30), <1>1, HeadFacts
<1>3. /\ landings' = S /\ local' = Tail(local)
      /\ xfer' = [xfer EXCEPT ![t] = Finish(xfer[t], ok)]
  <2> DEFINE found == {m \in landings : m.id = a.owner}
             next(m) == [m EXCEPT !.offset = @ + 1, !.inFlight = FALSE]
             more(m) == ok /\ next(m).offset < Lands(m.id)
  <2>1. found = {l}
    BY <1>2
  <2>2. ~more(l)
    <3>1. next(l).offset = l.offset + 1
      BY <1>2 DEF Landing
    <3> QED BY <3>1
  <2>3. \E m \in found :
           ~more(m) =>
              /\ landings' = [landings |-> landings \ found, local |-> Tail(local)].landings
              /\ local' = [landings |-> landings \ found, local |-> Tail(local)].local
              /\ xfer' = [xfer EXCEPT ![m.id[1]] = Finish(@, ok)]
    <3>1. found # {}
      BY <2>1
    <3> QED BY <3>1, Zenon DEF LocalDone
  <2> HIDE DEF found, more
  <2>4. /\ landings' = [landings |-> landings \ {l}, local |-> Tail(local)].landings
        /\ local' = [landings |-> landings \ {l}, local |-> Tail(local)].local
        /\ xfer' = [xfer EXCEPT ![l.id[1]] = Finish(@, ok)]
    BY <2>1, <2>2, <2>3, Zenon
  <2> QED BY <2>4, Zenon
<1> HIDE DEF ok
<1>4. ok \in BOOLEAN /\ a.owner = l.id /\ mem \in [Rid -> [Chunk -> Nat]]
  BY <1>1 DEF ok, MayWrite, Typed
<1>5. /\ mem' \in [Rid -> [Chunk -> Nat]]
      /\ \A u \in Rid : u # l.id => mem'[u] = mem[u]
      /\ \A c \in Chunk : c # a.chunk => mem'[l.id][c] = mem[l.id][c]
      /\ ok => mem'[l.id][a.chunk] = mem[l.id][a.chunk] + 1
  <2>1. mem' = IF ok THEN [mem EXCEPT ![l.id][a.chunk] = @ + 1] ELSE mem
    BY <1>1, <1>4
  <2>2. l.id \in Rid /\ a.chunk \in Chunk
    BY <1>2
  <2> QED BY ZenonT(40), <1>4, <2>1, <2>2, WriteFacts
<1>6. l.id = <<t, l.id[2]>> /\ l.id[2] \in 1 .. Bursts[t]
  BY <1>2, RidFields
<1>7. \A x \in landings : x.id = l.id => x = l
  BY <1>1 DEF Distinct, Unique
<1>8. \A r : r \in Ids(landings') <=> r \in Ids(landings) /\ r # l.id
  BY <1>3, <1>7 DEF Ids
<1>9. /\ Outstanding(t)' = Outstanding(t) \ {l.id[2]} /\ l.id[2] \in Outstanding(t)
      /\ \A u \in Xid : u # t => Outstanding(u)' = Outstanding(u)
  <2>1. Ids(dma') = Ids(dma) /\ l.id \in Ids(landings)
    BY <1>1 DEF Ids
  <2>2. Outstanding(t)' = Outstanding(t) \ {l.id[2]}
    <3>1. \A b : <<t, b>> = l.id <=> b = l.id[2]
      BY <1>6, PairEq
    <3>2. \A b : <<t, b>> \in Ids(dma') \cup Ids(landings') <=>
                 <<t, b>> \in Ids(dma) \cup Ids(landings) /\ b # l.id[2]
      <4>1. l.id \notin Ids(dma)
        BY <1>2
      <4> QED BY <1>8, <2>1, <3>1, <4>1
    <3> QED BY <3>2 DEF Outstanding, Ids
  <2>3. l.id[2] \in Outstanding(t)
    BY <1>6, <2>1 DEF Outstanding
  <2>4. \A u \in Xid : u # t => Outstanding(u)' = Outstanding(u)
    BY <1>6, <1>8, <2>1 DEF Outstanding
  <2> QED BY <2>2, <2>3, <2>4
<1>10. /\ Cardinality(Outstanding(t)') = xfer[t].remaining - 1 /\ xfer[t].remaining > 0
       /\ xfer[t].remaining - 1 \in Nat /\ IsFiniteSet(Outstanding(t)')
  <2>1. Outstanding(t) \in SUBSET (1 .. Bursts[t]) /\ Outstanding(t)' \in SUBSET (1 .. Bursts[t])
    BY DEF Outstanding
  <2>2. IsFiniteSet(Outstanding(t)) /\ IsFiniteSet(Outstanding(t)') /\ Cardinality(Outstanding(t)) \in Nat
    BY <1>2, <2>1, OutstandingFinite
  <2>3. Cardinality(Outstanding(t) \ {l.id[2]}) = Cardinality(Outstanding(t)) - 1
    BY <1>9, <2>2, RemoveOne
  <2>4. xfer[t].remaining = Cardinality(Outstanding(t)) /\ xfer[t].remaining > 0
    BY <1>1, <1>2 DEF Counted
  <2>5. xfer[t].remaining - 1 \in Nat
    <3> HIDE DEF t
    <3> QED BY <2>2, <2>4
  <2>6. Cardinality(Outstanding(t)') = Cardinality(Outstanding(t)) - 1
    BY <1>9, <2>3
  <2> QED BY <2>2, <2>4, <2>5, <2>6
<1>11. /\ xfer' \in [Xid -> Context] /\ \A u \in Xid : u # t => xfer'[u] = xfer[u]
       /\ xfer'[t].gen = xfer[t].gen /\ xfer'[t].remaining = xfer[t].remaining - 1
       /\ xfer'[t].ok <=> xfer[t].ok /\ ok
       /\ xfer[t].remaining - 1 > 0 => xfer'[t].status = "active"
       /\ ~(xfer[t].remaining - 1 > 0) =>
             xfer'[t].status = IF xfer'[t].ok THEN "ok" ELSE "failed"
  <2>1. xfer \in [Xid -> Context] /\ xfer[t] \in Context
    BY <1>1, <1>2 DEF Typed
  <2>2. /\ Finish(xfer[t], ok) \in Context /\ Finish(xfer[t], ok).gen = xfer[t].gen
        /\ Finish(xfer[t], ok).remaining = xfer[t].remaining - 1
        /\ Finish(xfer[t], ok).ok <=> xfer[t].ok /\ ok
        /\ xfer[t].remaining - 1 > 0 => Finish(xfer[t], ok).status = xfer[t].status
        /\ ~(xfer[t].remaining - 1 > 0) =>
              Finish(xfer[t], ok).status = IF Finish(xfer[t], ok).ok THEN "ok" ELSE "failed"
    <3> DEFINE x == xfer[t]
    <3>1. x \in Context /\ x.remaining > 0 /\ ok \in BOOLEAN
      BY <1>4, <1>10, <2>1
    <3> HIDE DEF x
    <3>2. /\ Finish(x, ok) \in Context /\ Finish(x, ok).gen = x.gen
          /\ Finish(x, ok).remaining = x.remaining - 1
          /\ Finish(x, ok).ok <=> x.ok /\ ok
          /\ x.remaining - 1 > 0 => Finish(x, ok).status = x.status
          /\ ~(x.remaining - 1 > 0) =>
                Finish(x, ok).status = IF Finish(x, ok).ok THEN "ok" ELSE "failed"
      BY ZenonT(30), <3>1, FinishFacts
    <3> QED BY <3>2 DEF x
  <2>3. xfer'[t] = Finish(xfer[t], ok) /\ \A u \in Xid : u # t => xfer'[u] = xfer[u]
    BY <1>2, <1>3, <2>1
  <2>4. xfer' \in [Xid -> Context]
    BY <1>2, <1>3, <2>1, <2>2
  <2> QED BY <1>2, <2>2, <2>3, <2>4
<1>12. Typed'
  <2>1. local' \in Seq(Access) /\ Len(local') <= QueueDepth
    <3>1. /\ Tail(local) \in Seq(Access) /\ Len(local) \in Nat /\ QueueDepth \in Nat
          /\ Len(local) <= QueueDepth /\ Len(Tail(local)) = Len(local) - 1
      BY <1>2, ConstantTypes
    <3> QED BY <1>3, <3>1, OneShorter
  <2> QED BY <1>1, <1>3, <1>5, <1>11, <2>1 DEF Typed
<1>13. Distinct'
  BY <1>1, <1>3 DEF Distinct, Unique
<1>14. Owned'
  <2>1. ASSUME NEW x \in dma \cup S
        PROVE  xfer'[x.id[1]].status = "active" /\ xfer'[x.id[1]].gen = x.gen
    <3>1. x.id \in Rid /\ x.id[1] \in Xid /\ x.id = <<x.id[1], x.id[2]>> /\ x.id[2] \in 1 .. Bursts[x.id[1]]
      BY <1>1, RidFields DEF Typed, Op, Landing
    <3>2. xfer[x.id[1]].status = "active" /\ xfer[x.id[1]].gen = x.gen
      BY <1>1 DEF Owned
    <3>3. CASE x.id[1] # t
      BY <1>11, <3>1, <3>2, <3>3
    <3>4. CASE x.id[1] = t
      <4>1. x.id \in Ids(dma') \cup Ids(landings')
        BY <1>1, <1>3 DEF Ids
      <4>2. x.id[2] \in Outstanding(t)'
        BY <3>1, <3>4, <4>1 DEF Outstanding
      <4>3. Cardinality(Outstanding(t)') # 0
        BY <1>10, <4>2, FS_EmptySet
      <4>4. xfer[t].remaining - 1 > 0
        BY <1>10, <4>3
      <4> QED BY <1>11, <3>2, <3>4, <4>4
    <3> QED BY <3>3, <3>4
  <2>2. ASSUME NEW u \in Xid, xfer'[u].status = "active"
        PROVE  xfer'[u].gen \in {0, fence.active}
    <3>1. CASE u = t
      BY <1>2, <1>11, <3>1
    <3>2. CASE u # t
      BY <1>1, <1>11, <2>2, <3>2 DEF Owned
    <3> QED BY <3>1, <3>2
  <2> QED BY <1>1, <1>3, <2>1, <2>2 DEF Owned
<1>15. Counted'
  <2>1. ASSUME NEW u \in Xid
        PROVE  /\ xfer'[u].status = "idle" => xfer'[u].remaining = Bursts[u] /\ xfer'[u].ok
               /\ xfer'[u].status = "active" =>
                     xfer'[u].remaining = Cardinality(Outstanding(u)') /\ xfer'[u].remaining > 0
               /\ xfer'[u].status = "ok" => xfer'[u].ok
    <3>1. CASE u # t
      <4>1. xfer'[u] = xfer[u]
        BY <1>11, <3>1
      <4>2. Cardinality(Outstanding(u)') = Cardinality(Outstanding(u))
        BY <1>9, <3>1
      <4>3. /\ xfer[u].status = "idle" => xfer[u].remaining = Bursts[u] /\ xfer[u].ok
            /\ xfer[u].status = "active" =>
                  xfer[u].remaining = Cardinality(Outstanding(u)) /\ xfer[u].remaining > 0
            /\ xfer[u].status = "ok" => xfer[u].ok
        BY <1>1 DEF Counted
      <4> QED BY <4>1, <4>2, <4>3
    <3>2. CASE u = t
      BY <1>10, <1>11, <3>2
    <3> QED BY <3>1, <3>2
  <2> QED BY <2>1 DEF Counted
<1>16. Queued'
  <2>1. QueueOk(local, dma', landings, xfer, fence'.active)
    BY <1>1 DEF Queued
  <2>2. \A x \in landings' : x \in landings \/ x.id = a.owner
    BY <1>3
  <2>3. \A r \in Ids(landings) : r \in Ids(landings') \/ r = a.owner
    BY <1>4, <1>8
  <2>4. \A r \in Rid : r # a.owner /\ xfer[r[1]].status # "idle" => xfer'[r[1]].status # "idle"
    <3>1. xfer'[t].status # "idle"
      BY <1>11
    <3> QED BY <1>11, <3>1, RidFields
  <2>5. QueueOk(Tail(local), dma', landings', xfer', fence'.active)
    BY ZenonT(30), <1>1, <1>2, <2>1, <2>2, <2>3, <2>4, RestOk
  <2> QED BY <1>3, <2>5 DEF Queued
<1>17. Contents'
  <2>1. ASSUME NEW r \in Rid, xfer'[r[1]].status = "idle" \/ r \in Ids(dma)
        PROVE  \A c \in Chunk : mem'[r][c] = 0
    <3>1. r[1] \in Xid
      BY RidFields
    <3>2. r # l.id /\ (xfer[r[1]].status = "idle" \/ r \in Ids(dma))
      BY <1>2, <1>11, <2>1, <3>1
    <3> QED BY <1>1, <1>5, <3>2 DEF Contents
  <2>2. ASSUME NEW x \in S
        PROVE  x.offset < Lands(x.id) /\ \A c \in Chunk : mem'[x.id][c] = IF c <= x.offset THEN 1 ELSE 0
    <3>1. x.id # l.id /\ x.id \in Rid
      BY <1>1, <1>7, <2>2 DEF Typed, Landing
    <3> QED BY <1>1, <1>5, <3>1 DEF Contents
  <2>3. ASSUME NEW r \in Rid, xfer'[r[1]].status \in {"active", "ok"}, xfer'[r[1]].ok,
               r \notin Ids(dma), r \notin Ids(landings')
        PROVE  \A c \in 1 .. Lands(r) : mem'[r][c] = 1
    <3>1. r[1] \in Xid
      BY RidFields
    <3>2. CASE r = l.id
      <4>1. ok
        BY <1>11, <2>3, <3>2
      <4>2. Lands(l.id) = l.offset + 1
        BY <1>2, <4>1, ConstantTypes DEF ok
      <4>3. \A c \in Chunk : mem[l.id][c] = IF c <= l.offset THEN 1 ELSE 0
        BY <1>1 DEF Contents
      <4>4. ASSUME NEW c \in 1 .. Lands(l.id) PROVE mem'[l.id][c] = 1
        <5>1. c \in Chunk /\ c \in Int /\ l.offset \in Int /\ c <= l.offset + 1
          BY <1>2, <4>2, ConstantTypes DEF Chunk
        <5>2. \/ c = l.offset + 1 /\ mem'[l.id][c] = mem[l.id][c] + 1
              \/ c # l.offset + 1 /\ mem'[l.id][c] = mem[l.id][c]
          BY <1>2, <1>5, <4>1, <5>1
        <5>3. mem'[l.id][c] = IF c <= l.offset + 1 THEN 1 ELSE 0
          BY <4>3, <5>1, <5>2, NextWritten
        <5> QED BY <5>1, <5>3
      <4> QED BY <3>2, <4>4
    <3>3. CASE r # l.id
      <4>1. r \notin Ids(landings)
        BY <1>8, <2>3, <3>3
      <4>2. xfer[r[1]].status \in {"active", "ok"} /\ xfer[r[1]].ok
        BY <1>2, <1>11, <2>3, <3>1
      <4> QED BY <1>1, <1>5, <2>3, <3>3, <4>1, <4>2 DEF Contents
    <3> QED BY <3>2, <3>3
  <2>4. Ids(dma') = Ids(dma) /\ Ids(landings') = Ids(S)
    BY <1>1, <1>3
  <2> QED BY <1>3, <2>1, <2>2, <2>3, <2>4 DEF Contents, Ids
<1> QED BY <1>12, <1>13, <1>14, <1>15, <1>16, <1>17 DEF DInv

LEMMA LocalDoneInv ==
    ASSUME DInv, NEW crowded \in BOOLEAN, LocalDone(crowded)
    PROVE  DInv'
<1>1. CASE Head(local).owner \notin Ids(landings)
  BY <1>1, LocalDoneOrphan
<1>2. CASE Head(local).owner \in Ids(landings)
  <2>1. PICK l \in landings : l.id = Head(local).owner
    BY <1>2 DEF Ids
  <2>2. CASE MayWrite(Head(local)) /\ l.offset + 1 < Lands(l.id)
    BY <2>1, <2>2, LocalDoneContinues
  <2>3. CASE ~(MayWrite(Head(local)) /\ l.offset + 1 < Lands(l.id))
    BY <2>1, <2>3, LocalDoneFinishes
  <2> QED BY <2>2, <2>3
<1> QED BY <1>1, <1>2

-----------------------------------------------------------------------------
(* retryDmaLandingChunks. *)

\* The stalled landings that find room are in flight now, with an access each.
LEMMA RetryLandingsInv == ASSUME DInv, RetryLandings PROVE DInv'
<1> DEFINE stalled == {l \in landings : ~l.inFlight}
           free == QueueDepth - Len(local)
<1>1. /\ Typed /\ Distinct /\ Owned /\ Counted /\ Queued /\ Contents
      /\ fence' = fence /\ dma' = dma /\ xfer' = xfer /\ mem' = mem /\ free > 0
  BY DEF RetryLandings, DInv
<1>2. PICK s \in Orders(stalled) :
        LET k  == IF free < Len(s) THEN free ELSE Len(s)
            go == SubSeq(s, 1, k)
        IN  /\ landings' = {IF l \in Range(go) THEN [l EXCEPT !.inFlight = TRUE] ELSE l : l \in landings}
            /\ local' = local \o [i \in 1 .. k |-> NextAccess(s[i])]
  BY Zenon DEF RetryLandings
<1> DEFINE N == Cardinality(stalled)
           k == IF free < Len(s) THEN free ELSE Len(s)
           go == Range(SubSeq(s, 1, k))
           f(l) == IF l \in go THEN [l EXCEPT !.inFlight = TRUE] ELSE l
           new == [i \in 1 .. k |-> NextAccess(s[i])]
<1>3. landings' = {f(l) : l \in landings} /\ local' = local \o new
  BY <1>2, Zenon
<1>4. landings \subseteq Landing /\ local \in Seq(Access) /\ Len(local) \in Nat /\ Len(local) <= QueueDepth
      /\ DOMAIN local = 1 .. Len(local) /\ QueueDepth \in Nat /\ fence.active \in Gen
  BY <1>1, ConstantTypes DEF Typed
<1>5. N \in Nat
  <2>1. stalled \in SUBSET Landing /\ Unique(stalled)
    BY <1>1, <1>4 DEF Distinct, Unique
  <2> HIDE DEF stalled
  <2> QED BY <2>1, LandingsFinite
<1>6. s \in [1 .. N -> stalled] /\ \A i, j \in 1 .. N : s[i] = s[j] => i = j
  <2> HIDE DEF stalled, N
  <2>1. s \in Bijection(1 .. N, stalled)
    BY <1>2 DEF Orders, N
  <2> QED BY <2>1 DEF Bijection, Injection, IsInjective
<1>7. s \in Seq(stalled) /\ Len(s) = N
  <2> HIDE DEF stalled, N
  <2> QED BY <1>5, <1>6
<1>8. k \in 0 .. N /\ k <= QueueDepth - Len(local)
  <2> HIDE DEF N
  <2> QED BY <1>1, <1>4, <1>5, <1>7
<1> HIDE DEF N
<1>9. \A l : l \in go <=> \E i \in 1 .. k : l = s[i]
  <2> HIDE DEF k, stalled
  <2>1. SubSeq(s, 1, k) \in Seq(stalled) /\ Len(SubSeq(s, 1, k)) = k
        /\ \A i \in 1 .. k : SubSeq(s, 1, k)[i] = s[i]
    BY <1>5, <1>7, <1>8
  <2>2. DOMAIN SubSeq(s, 1, k) = 1 .. k
    BY <2>1
  <2> QED BY <2>1, <2>2 DEF Range
<1> HIDE DEF k
<1>10. \A i \in 1 .. k : i \in 1 .. N /\ s[i] \in landings /\ ~s[i].inFlight /\ s[i] \in go
  <2>1. \A i \in 1 .. k : i \in 1 .. N
    BY <1>5, <1>8
  <2> QED BY <1>6, <1>9, <2>1
<1> HIDE DEF go, stalled
<1>11. \A l \in landings : /\ f(l) \in Landing /\ f(l).id = l.id /\ f(l).gen = l.gen
                           /\ f(l).offset = l.offset /\ (f(l).inFlight <=> l.inFlight \/ l \in go)
  <2>1. \A l \in Landing : LET m == [l EXCEPT !.inFlight = TRUE]
                           IN  m \in Landing /\ m.id = l.id /\ m.gen = l.gen /\ m.offset = l.offset /\ m.inFlight
    BY Zenon DEF Landing
  <2> QED BY <1>4, <2>1
<1> HIDE DEF f
<1>12. /\ \A y \in landings' : \E l \in landings : y = f(l)
       /\ \A l \in landings : f(l) \in landings'
  BY <1>3
<1>13. Ids(landings') = Ids(landings)
  BY <1>11, <1>12 DEF Ids
<1>14. \A i \in 1 .. k : NextAccess(s[i]) \in Access
  <2> SUFFICES ASSUME NEW i \in 1 .. k PROVE NextAccess(s[i]) \in Access
    OBVIOUS
  <2>1. s[i] \in Landing /\ s[i].offset < Lands(s[i].id)
    BY <1>1, <1>4, <1>10 DEF Contents
  <2> QED BY <1>4, <2>1, SubmitFacts
<1>15. /\ local' \in Seq(Access) /\ Len(local') = Len(local) + k
       /\ \A i \in 1 .. Len(local) : local'[i] = local[i]
       /\ \A i \in 1 .. k : local'[Len(local) + i] = NextAccess(s[i])
  <2>1. k \in Nat
    BY <1>5, <1>8
  <2>2. new \in Seq(Access) /\ Len(new) = k /\ \A i \in 1 .. k : new[i] = NextAccess(s[i])
    BY <1>14, <2>1
  <2> HIDE DEF new
  <2>3. local \o new \in Seq(Access) /\ Len(local \o new) = Len(local) + k
    BY <1>4, <2>1, <2>2
  <2>4. \A i \in 1 .. Len(local) : (local \o new)[i] = local[i]
    BY <1>4, <2>1, <2>2
  <2>5. \A i \in 1 .. k : (local \o new)[Len(local) + i] = new[i]
    BY <1>4, <2>1, <2>2
  <2> QED BY <1>3, <2>2, <2>3, <2>4, <2>5
<1> HIDE DEF new
<1>16. \A i \in DOMAIN local' :
          \/ i \in DOMAIN local /\ local'[i] = local[i]
          \/ \E j \in 1 .. k : i = Len(local) + j /\ local'[i] = NextAccess(s[j])
  <2> SUFFICES ASSUME NEW i \in DOMAIN local'
               PROVE  \/ i \in DOMAIN local /\ local'[i] = local[i]
                      \/ \E j \in 1 .. k : i = Len(local) + j /\ local'[i] = NextAccess(s[j])
    OBVIOUS
  <2>1. i \in 1 .. Len(local) + k /\ k \in Nat
    BY <1>4, <1>5, <1>8, <1>15
  <2>2. CASE i <= Len(local)
    BY <1>4, <1>15, <2>1, <2>2
  <2>3. CASE ~(i <= Len(local))
    <3>1. i - Len(local) \in 1 .. k /\ i = Len(local) + (i - Len(local))
      BY <1>4, <2>1, <2>3
    <3> QED BY <1>15, <3>1
  <2> QED BY <2>2, <2>3
<1>17. Typed'
  <2>1. landings' \subseteq Landing
    BY <1>11, <1>12
  <2>2. Len(local') <= QueueDepth
    BY <1>4, <1>5, <1>8, <1>15
  <2> QED BY <1>1, <1>15, <2>1, <2>2 DEF Typed
<1>18. Distinct' /\ Owned'
  BY <1>1, <1>11, <1>12 DEF Distinct, Unique, Owned
<1>19. Counted'
  <2>1. \A t \in Xid : Outstanding(t)' = Outstanding(t)
    BY <1>1, <1>13 DEF Outstanding, Ids
  <2> QED BY <1>1, <2>1 DEF Counted
<1>20. Contents'
  <2>1. \A l \in landings' : l.offset < Lands(l.id)
                             /\ \A c \in Chunk : mem[l.id][c] = IF c <= l.offset THEN 1 ELSE 0
    BY <1>1, <1>11, <1>12 DEF Contents
  <2>2. Ids(landings)' = Ids(landings)
    BY <1>13 DEF Ids
  <2> QED BY <1>1, <2>1, <2>2 DEF Contents, Ids
<1>21. \A i \in DOMAIN local, j \in 1 .. k : local[i].owner # s[j].id
  <2> SUFFICES ASSUME NEW i \in DOMAIN local, NEW j \in 1 .. k PROVE local[i].owner # s[j].id
    OBVIOUS
  <2>1. AccessOk(local[i], dma, landings, xfer, fence.active)
    BY <1>1 DEF Queued, QueueOk
  <2> QED BY <1>10, <2>1 DEF AccessOk
<1>22. \A i, j \in 1 .. k : s[i].id = s[j].id => i = j
  BY <1>1, <1>6, <1>10 DEF Distinct, Unique
<1>23. \A l : NextAccess(l).owner = l.id /\ NextAccess(l).chunk = l.offset + 1
              /\ NextAccess(l).gen = fence.active /\ ~NextAccess(l).cancelled
  BY DEF NextAccess
<1>24. \A i, j \in DOMAIN local' : local'[i].owner = local'[j].owner => i = j
  <2> SUFFICES ASSUME NEW i \in DOMAIN local', NEW j \in DOMAIN local',
                      local'[i].owner = local'[j].owner
               PROVE  i = j
    OBVIOUS
  <2>1. \A u, v \in DOMAIN local : local[u].owner = local[v].owner => u = v
    BY <1>1 DEF Queued, QueueOk
  <2>2. CASE i \in DOMAIN local /\ local'[i] = local[i] /\ j \in DOMAIN local /\ local'[j] = local[j]
    BY <2>1, <2>2
  <2>3. \A u \in DOMAIN local, v \in 1 .. k : local[u].owner # NextAccess(s[v]).owner
    BY <1>21, <1>23
  <2>4. \A u, v \in 1 .. k : NextAccess(s[u]).owner = NextAccess(s[v]).owner => u = v
    BY <1>22, <1>23
  <2>5. ASSUME NEW u \in 1 .. k, i = Len(local) + u, local'[i] = NextAccess(s[u]) PROVE i = j
    <3>1. ~(j \in DOMAIN local /\ local'[j] = local[j])
      BY <2>3, <2>5
    <3>2. PICK v \in 1 .. k : j = Len(local) + v /\ local'[j] = NextAccess(s[v])
      BY <1>16, <3>1
    <3> QED BY <2>4, <2>5, <3>2
  <2>6. ASSUME NEW u \in 1 .. k, j = Len(local) + u, local'[j] = NextAccess(s[u]) PROVE i = j
    <3>1. ~(i \in DOMAIN local /\ local'[i] = local[i])
      BY <2>3, <2>6
    <3>2. PICK v \in 1 .. k : i = Len(local) + v /\ local'[i] = NextAccess(s[v])
      BY <1>16, <3>1
    <3> QED BY <2>4, <2>6, <3>2
  <2> QED BY <1>16, <2>2, <2>5, <2>6
<1>25. ASSUME NEW i \in DOMAIN local'
       PROVE  AccessOk(local'[i], dma', landings', xfer', fence'.active)
  <2>1. CASE i \in DOMAIN local /\ local'[i] = local[i]
    <3>1. AccessOk(local[i], dma, landings, xfer, fence.active)
      BY <1>1, <2>1 DEF Queued, QueueOk
    <3>2. \A y \in landings' : y.id = local[i].owner =>
             y.inFlight /\ local[i].chunk = y.offset + 1 /\ y.gen \in {0, local[i].gen}
      BY <1>11, <1>12, <3>1 DEF AccessOk
    <3>3. AccessOk(local[i], dma', landings', xfer', fence'.active)
      BY <1>1, <1>13, <3>1, <3>2 DEF AccessOk
    <3> QED BY <2>1, <3>3
  <2>2. ASSUME NEW j \in 1 .. k, local'[i] = NextAccess(s[j])
        PROVE  AccessOk(local'[i], dma', landings', xfer', fence'.active)
    <3> DEFINE a == NextAccess(s[j])
               l == s[j]
    <3>1. l \in landings /\ l \in go /\ l \in Landing /\ l.id \in Rid /\ l.id[1] \in Xid
      BY <1>4, <1>10, RidFields DEF Landing
    <3>2. a.owner = l.id /\ a.chunk = l.offset + 1 /\ a.gen = fence.active /\ ~a.cancelled
      BY <1>23
    <3> HIDE DEF a, l
    <3>3. xfer[l.id[1]].status = "active" /\ l.gen \in {0, fence.active}
      BY <1>1, <3>1 DEF Owned
    <3>4. \A op \in dma : op.id # l.id
      BY <1>1, <3>1 DEF Distinct
    <3>5. \A y \in landings' : y.id = l.id => y.inFlight /\ y.offset = l.offset /\ y.gen = l.gen
      BY <1>1, <1>11, <1>12, <3>1 DEF Distinct, Unique
    <3>6. l.id \in Ids(landings')
      BY <1>13, <3>1 DEF Ids
    <3>7. AccessOk(a, dma', landings', xfer', fence'.active)
      BY <1>1, <3>2, <3>3, <3>4, <3>5, <3>6 DEF AccessOk
    <3> QED BY <2>2, <3>7 DEF a
  <2> QED BY <1>16, <2>1, <2>2
<1>26. Queued'
  BY <1>24, <1>25 DEF Queued, QueueOk
<1> QED BY <1>17, <1>18, <1>19, <1>20, <1>26 DEF DInv

-----------------------------------------------------------------------------
(* The results. *)

\* In every reachable state of the DMA engine, contexts, pending READs, landings,
\* queued accesses and memory agree, whatever was retried, given up, answered twice,
\* stalled at the port or cancelled with its generation.
THEOREM DmaInvariant == Spec => []DInv
<1>1. Init => DInv
  BY DInvInit
<1>2. DInv /\ [Next]_vars => DInv'
  <2> SUFFICES ASSUME DInv, [Next]_vars PROVE DInv'
    OBVIOUS
  <2>1. CASE SelfEvent
    BY <2>1, SelfEventInv
  <2>2. CASE SendAvailable
    BY <2>2, SendAvailableInv
  <2>3. CASE RetryLandings
    BY <2>3, RetryLandingsInv
  <2>4. ASSUME NEW id \in Rid, MemoryServes(id) PROVE DInv'
    BY <2>4, MemoryServesInv
  <2>5. ASSUME NEW crowded \in BOOLEAN, LocalDone(crowded) PROVE DInv'
    BY <2>5, LocalDoneInv
  <2>6. ASSUME NEW crowded \in BOOLEAN, NEW id \in Rid, ReceiveReply(id, crowded) PROVE DInv'
    BY <2>6, ReceiveReplyInv
  <2>7. ASSUME NEW t \in Xid, StartRead(t) PROVE DInv'
    BY <2>7, StartReadInv
  <2>8. CASE BeginGeneration
    BY <2>8, BeginGenerationInv
  <2>9. CASE RetireGeneration
    BY <2>9, RetireGenerationInv
  <2>10. CASE CancelGeneration
    BY <2>10, CancelGenerationInv
  <2>11. CASE UNCHANGED vars
    BY <2>11, StutterInv
  <2> QED BY <2>1, <2>2, <2>3, <2>4, <2>5, <2>6, <2>7, <2>8, <2>9, <2>10, <2>11 DEF Next, Progress
<1> QED BY <1>1, <1>2, PTL DEF Spec

\* A context counts exactly the bursts that are unanswered or landing, for any
\* number of transfers, retries and duplicate replies.
THEOREM DmaRemainingExact == Spec => []RemainingExact
<1>1. DInv => RemainingExact
  <2> SUFFICES ASSUME DInv, NEW t \in Xid, xfer[t].status = "active"
               PROVE  xfer[t].remaining = Cardinality({op \in dma : op.id[1] = t})
                                          + Cardinality({l \in landings : l.id[1] = t})
    BY DEF RemainingExact
  <2> DEFINE A == {b \in 1 .. Bursts[t] : <<t, b>> \in Ids(dma)}
             B == {b \in 1 .. Bursts[t] : <<t, b>> \in Ids(landings)}
  <2>1. Ids(dma) \subseteq Rid /\ Ids(landings) \subseteq Rid /\ Unique(dma) /\ Unique(landings)
    BY DEF DInv, Typed, Distinct, Ids, Op, Landing
  <2>2. /\ Cardinality({op \in dma : op.id[1] = t}) = Cardinality(A)
        /\ Cardinality({l \in landings : l.id[1] = t}) = Cardinality(B)
    BY <2>1, CountById
  <2>3. A \cup B = Outstanding(t) /\ A \cap B = {}
    BY DEF Outstanding, DInv, Distinct, Ids
  <2>4. A \in SUBSET (1 .. Bursts[t]) /\ B \in SUBSET (1 .. Bursts[t])
    OBVIOUS
  <2> HIDE DEF A, B
  <2>5. IsFiniteSet(A) /\ IsFiniteSet(B) /\ Cardinality(A) \in Nat /\ Cardinality(B) \in Nat
    BY <2>4, OutstandingFinite
  <2>6. Cardinality(A \cup B) = Cardinality(A) + Cardinality(B) - Cardinality(A \cap B)
    BY <2>5, FS_Union
  <2>7. Cardinality(A \cap B) = 0
    BY <2>3, FS_EmptySet
  <2>8. xfer[t].remaining = Cardinality(Outstanding(t))
    BY DEF DInv, Counted
  <2>9. Cardinality(Outstanding(t)) = Cardinality(A) + Cardinality(B)
    <3>1. Cardinality(A \cup B) = Cardinality(A) + Cardinality(B)
      BY <2>5, <2>6, <2>7
    <3> QED BY <2>3, <3>1
  <2> QED BY <2>2, <2>8, <2>9
<1> QED BY <1>1, DmaInvariant, PTL

\* A transfer reported as successful is in local memory, every chunk of it written
\* exactly once.
THEOREM DmaOkMeansLanded == Spec => []OkMeansLanded
<1>1. DInv => OkMeansLanded
  <2> SUFFICES ASSUME DInv, NEW t \in Xid, xfer[t].status = "ok",
                      NEW b \in 1 .. Bursts[t], NEW c \in 1 .. Lands(<<t, b>>)
               PROVE  mem[<<t, b>>][c] = 1
    BY DEF OkMeansLanded
  <2> DEFINE r == <<t, b>>
  <2>1. r \in Rid /\ r[1] = t
    BY RidFields
  <2>2. xfer[t].ok
    BY DEF DInv, Counted
  <2>3. r \notin Ids(dma) /\ r \notin Ids(landings)
    BY <2>1 DEF DInv, Owned, Ids
  <2> HIDE DEF r
  <2>4. \A k \in 1 .. Lands(r) : mem[r][k] = 1
    BY <2>1, <2>2, <2>3 DEF DInv, Contents
  <2> QED BY <2>4 DEF r
<1> QED BY <1>1, DmaInvariant, PTL

\* Once the callback was called or the generation cancelled, no late reply and no
\* queued local write touches the destination.
THEOREM DmaNoLateWrite == Spec => NoLateWrite
<1> DEFINE A == \A r \in Rid : mem'[r] # mem[r] => xfer[r[1]].status = "active"
<1>1. DInv /\ [Next]_vars => [A]_vars
  <2> SUFFICES ASSUME DInv, Next, NEW r \in Rid, mem'[r] # mem[r]
               PROVE  xfer[r[1]].status = "active"
    OBVIOUS
  <2>1. PICK crowded \in BOOLEAN : LocalDone(crowded)
    BY DEF Next, Progress, SelfEvent, SendAvailable, RetryLandings, MemoryServes, ReceiveReply,
           StartRead, BeginGeneration, RetireGeneration, CancelGeneration
  <2> DEFINE a == Head(local)
  <2>2. MayWrite(a) /\ local # <<>> /\ mem' = [mem EXCEPT ![a.owner][a.chunk] = @ + 1]
    BY <2>1 DEF LocalDone
  <2>3. a.owner = r
    <3>1. mem \in [Rid -> [Chunk -> Nat]]
      BY DEF DInv, Typed
    <3>2. mem' = [mem EXCEPT ![a.owner] = [mem[a.owner] EXCEPT ![a.chunk] = mem[a.owner][a.chunk] + 1]]
      BY <2>2
    <3> HIDE DEF a
    <3> QED BY <3>1, <3>2
  <2>4. local \in Seq(Access) /\ Queued /\ Owned
    BY DEF DInv, Typed
  <2>5. 1 \in DOMAIN local /\ a = local[1]
    <3>1. \A i, j \in DOMAIN local : local[i].owner = local[j].owner => i = j
      BY <2>4 DEF Queued, QueueOk
    <3> QED BY <2>2, <2>4, <3>1, QueueTail
  <2>6. AccessOk(a, dma, landings, xfer, fence.active)
    BY <2>4, <2>5 DEF Queued, QueueOk
  <2>7. r \in Ids(landings)
    BY <2>2, <2>3, <2>6 DEF AccessOk, MayWrite
  <2> QED BY <2>4, <2>7 DEF Ids, Owned
<1>2. Spec => [][A]_vars
  BY <1>1, DmaInvariant, PTL DEF Spec
<1> QED BY <1>2 DEF NoLateWrite
=============================================================================
