------------------------- MODULE GlobalMemoryDmaInv -------------------------
(* The inductive invariant behind the safety of GlobalMemoryDma: where each   *)
(* burst of a transfer is, whose generation it belongs to, and what has been  *)
(* written of it.                                                             *)
EXTENDS GlobalMemoryDma

Ids(S)    == {x.id : x \in S}
Unique(S) == \A x, y \in S : x.id = y.id => x = y

\* The bursts of transfer t that are unanswered or landing.
Outstanding(t) == {b \in 1 .. Bursts[t] : <<t, b>> \in Ids(dma) \cup Ids(landings)}

\* The types that the argument needs: READs on the network and in the send queue
\* may be anything.
Typed ==
    /\ fence \in [active : Gen, begun : Gen]
    /\ dma \subseteq Op /\ landings \subseteq Landing
    /\ local \in Seq(Access) /\ Len(local) <= QueueDepth
    /\ xfer \in [Xid -> Context]
    /\ mem \in [Rid -> [Chunk -> Nat]]

\* A request id is pending once, landing once, and not both.
Distinct ==
    /\ Unique(dma) /\ Unique(landings)
    /\ \A op \in dma, l \in landings : op.id # l.id

\* READs and landings belong to a transfer under way and have its generation,
\* which is still open.
Owned ==
    /\ \A x \in dma \cup landings :
          xfer[x.id[1]].status = "active" /\ xfer[x.id[1]].gen = x.gen
    /\ \A t \in Xid : xfer[t].status = "active" => xfer[t].gen \in {0, fence.active}

\* A context counts its outstanding bursts, of which there is one until it ends.
Counted ==
    \A t \in Xid :
        /\ xfer[t].status = "idle" => xfer[t].remaining = Bursts[t] /\ xfer[t].ok
        /\ xfer[t].status = "active" =>
              xfer[t].remaining = Cardinality(Outstanding(t)) /\ xfer[t].remaining > 0
        /\ xfer[t].status = "ok" => xfer[t].ok

\* An access belongs to a READ that has been answered.  It writes the next chunk of
\* its landing, is cancelled or of an open generation, and is cancelled if it has
\* lost its landing.  d, ls, x and g are READs, landings, contexts and generation.
AccessOk(a, d, ls, x, g) ==
    /\ \A op \in d : op.id # a.owner
    /\ x[a.owner[1]].status # "idle"
    /\ \A l \in ls : l.id = a.owner =>
          l.inFlight /\ a.chunk = l.offset + 1 /\ l.gen \in {0, a.gen}
    /\ a.cancelled \/ (a.gen \in {0, g} /\ a.owner \in Ids(ls))

\* A landing has one access in the queue at most.
QueueOk(q, d, ls, x, g) ==
    /\ \A i, j \in DOMAIN q : q[i].owner = q[j].owner => i = j
    /\ \A i \in DOMAIN q : AccessOk(q[i], d, ls, x, g)

Queued == QueueOk(local, dma, landings, xfer, fence.active)

\* What the destination of each burst holds.
Contents ==
    /\ \A r \in Rid : (xfer[r[1]].status = "idle" \/ r \in Ids(dma)) => \A c \in Chunk : mem[r][c] = 0
    /\ \A l \in landings :
          /\ l.offset < Lands(l.id)
          /\ \A c \in Chunk : mem[l.id][c] = IF c <= l.offset THEN 1 ELSE 0
    /\ \A r \in Rid :
          xfer[r[1]].status \in {"active", "ok"} /\ xfer[r[1]].ok
              /\ r \notin Ids(dma) /\ r \notin Ids(landings)
          => \A c \in 1 .. Lands(r) : mem[r][c] = 1

\* The inductive invariant: contexts, pending READs, landings, queued accesses and
\* memory agree on the state of every burst.
DInv == Typed /\ Distinct /\ Owned /\ Counted /\ Queued /\ Contents
=============================================================================
