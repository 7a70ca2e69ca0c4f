-------------------------- MODULE PvWoHandoffSteps --------------------------
(***************************************************************************)
(* Every action of PvWoHandoff preserves its invariant Inv.  First what    *)
(* one move of a message does to it: taken from outgoing_, queued there,   *)
(* received as data or as an ACK, landed chunk by chunk.  "Under way" and  *)
(* "in net" are the same, so every action that moves a message is a        *)
(* sequence of such moves; those of the guest and of Wo use that no        *)
(* message is under way while all PV executors are free.                   *)
(***************************************************************************)
EXTENDS PvWoHandoffInv, TLAPS

\* A leaf is tried with Zenon, then with SMT.
USE ZenonT(5), SMTT(20)

-----------------------------------------------------------------------------
(* Geometry. *)

\* Division with remainder.
LEMMA DivMod ==
    ASSUME NEW a \in Nat, NEW d \in Nat \ {0}
    PROVE  /\ a \div d \in Nat /\ a % d \in 0 .. d - 1
           /\ a = d * (a \div d) + (a % d)
OBVIOUS

LEMMA NotLess == \A a, b \in Nat : a < b => ~(a >= b)
OBVIOUS

\* A sequence something was appended to is not empty.
LEMMA AppendNotEmpty ==
    ASSUME NEW S, NEW q \in Seq(S), NEW e \in S
    PROVE  Append(q, e) # <<>>
<1>1. Len(Append(q, e)) = Len(q) + 1 /\ Len(q) \in Nat
  OBVIOUS
<1>2. Len(<<>>) = 0
  OBVIOUS
<1> QED BY <1>1, <1>2

LEMMA NextDiffers == \A n \in Nat : n + 1 # n
OBVIOUS

LEMMA UpToNext == \A n \in Nat : \A i \in 1 .. n + 1 : i \in 1 .. n \/ i = n + 1
OBVIOUS

\* Quotient and remainder are determined by the sum.
LEMMA SameQuotient ==
    ASSUME NEW d \in Nat \ {0}, NEW p \in Nat, NEW q \in Nat,
           NEW x \in 0 .. d - 1, NEW y \in 0 .. d - 1, p * d + x = q * d + y
    PROVE  p = q /\ x = y
<1>1. CASE p = q
  BY <1>1
<1>2. CASE p < q
  <2> PICK e \in Nat \ {0} : q = p + e
    BY <1>2
  <2>1. q * d = p * d + e * d
    OBVIOUS
  <2>2. e * d >= d
    OBVIOUS
  <2> QED BY <2>1, <2>2
<1>3. CASE q < p
  <2> PICK e \in Nat \ {0} : p = q + e
    BY <1>3
  <2>1. p * d = q * d + e * d
    OBVIOUS
  <2>2. e * d >= d
    OBVIOUS
  <2> QED BY <2>1, <2>2
<1> QED BY <1>1, <1>2, <1>3

\* A quotient stays below the bound of the product.
LEMMA DivBound ==
    ASSUME NEW d \in Nat \ {0}, NEW m \in Nat \ {0}, NEW a \in 0 .. m * d - 1
    PROVE  a \div d \in 0 .. m - 1
<1>1. m * d \in Nat
  OBVIOUS
<1>2. a \in Nat /\ a < m * d
  BY <1>1
<1>3. a \div d \in Nat /\ d * (a \div d) <= a
  BY <1>2, DivMod
<1>4. CASE a \div d >= m
  <2> PICK e \in Nat : a \div d = m + e
    BY <1>3, <1>4
  <2>1. d * (a \div d) = m * d + e * d
    OBVIOUS
  <2>2. e * d >= 0
    OBVIOUS
  <2> QED BY <1>1, <1>2, <1>3, <2>1, <2>2
<1> QED BY <1>3, <1>4

\* The fields of a block.
LEMMA BlockFields ==
    ASSUME NEW b \in Blocks
    PROVE  /\ b = <<b[1], b[2], b[3]>>
           /\ b[1] \in 0 .. Managers - 1
           /\ b[2] \in 0 .. KvHeads - 1
           /\ b[3] \in 0 .. GroupSize * Lanes - 1
           /\ b[3] \div Lanes \in 0 .. GroupSize - 1
           /\ b[3] % Lanes \in 0 .. Lanes - 1
<1>1. /\ b = <<b[1], b[2], b[3]>>
      /\ b[1] \in 0 .. Managers - 1
      /\ b[2] \in 0 .. KvHeads - 1
      /\ b[3] \in 0 .. GroupSize * Lanes - 1
  BY DEF Blocks
<1>2. b[3] \div Lanes \in 0 .. GroupSize - 1
  BY <1>1, DivBound, HandoffAssumption
<1>3. b[3] % Lanes \in 0 .. Lanes - 1
  <2>1. b[3] \in Nat
    BY <1>1, HandoffAssumption
  <2>2. Lanes \in Nat \ {0}
    BY HandoffAssumption
  <2> QED BY <2>1, <2>2, DivMod, Zenon
<1> QED BY <1>1, <1>2, <1>3

\* dispatch sends a block to a worker, for one of its heads.
LEMMA GeometryType ==
    ASSUME NEW b \in Blocks
    PROVE  TargetOf(b) \in Workers /\ HeadOf(b) \in Heads
<1>1. TargetOf(b) \in Workers
  BY BlockFields DEF TargetOf, Workers
<1>2. HeadOf(b) \in Nat
  BY BlockFields, HandoffAssumption DEF HeadOf
<1>3. b[2] * GroupSize <= (KvHeads - 1) * GroupSize
  BY BlockFields, HandoffAssumption
<1>4. (KvHeads - 1) * GroupSize = KvHeads * GroupSize - GroupSize
  BY HandoffAssumption
<1>5. KvHeads * GroupSize \in Nat /\ b[2] * GroupSize \in Nat
  BY BlockFields, HandoffAssumption
<1>6. HeadOf(b) <= KvHeads * GroupSize - 1
  BY <1>3, <1>4, <1>5, BlockFields, HandoffAssumption DEF HeadOf
<1> QED BY <1>1, <1>2, <1>5, <1>6 DEF Heads

\* Two blocks never meet in the same head of the same worker.
LEMMA GeometryInjective ==
    ASSUME NEW b \in Blocks, NEW d \in Blocks,
           TargetOf(b) = TargetOf(d), HeadOf(b) = HeadOf(d)
    PROVE  b = d
<1>1. b[1] = d[1] /\ b[3] % Lanes = d[3] % Lanes
  BY DEF TargetOf
<1>2. b[2] = d[2] /\ b[3] \div Lanes = d[3] \div Lanes
  <2> DEFINE p == b[2]
             q == d[2]
             x == b[3] \div Lanes
             y == d[3] \div Lanes
  <2>1. x \in 0 .. GroupSize - 1 /\ y \in 0 .. GroupSize - 1
    BY BlockFields
  <2>2. p \in Nat /\ q \in Nat
    BY BlockFields, HandoffAssumption
  <2>3. p * GroupSize + x = q * GroupSize + y
    BY DEF HeadOf
  <2>4. GroupSize \in Nat \ {0}
    BY HandoffAssumption
  <2> HIDE DEF p, q, x, y
  <2>5. p = q /\ x = y
    BY <2>1, <2>2, <2>3, <2>4, SameQuotient
  <2> QED BY <2>5 DEF p, q, x, y
<1>3. b[3] \in Nat /\ d[3] \in Nat
  BY BlockFields, HandoffAssumption
<1>4. b[3] = d[3]
  <2>1. Lanes \in Nat \ {0}
    BY HandoffAssumption
  <2>2. /\ b[3] = Lanes * (b[3] \div Lanes) + (b[3] % Lanes)
        /\ d[3] = Lanes * (d[3] \div Lanes) + (d[3] % Lanes)
    BY <1>3, <2>1, DivMod, Zenon
  <2> QED BY <1>1, <1>2, <2>2, Zenon
<1> QED BY <1>1, <1>2, <1>4, BlockFields

\* Every head of every worker comes from a block.
LEMMA GeometrySurjective ==
    ASSUME NEW w \in Workers, NEW h \in Heads
    PROVE  \E b \in Blocks : TargetOf(b) = w /\ HeadOf(b) = h
<1> DEFINE kv == h \div GroupSize
           q  == h % GroupSize
           x  == q * Lanes + w[2]
           b  == <<w[1], kv, x>>
<1>1. w = <<w[1], w[2]>> /\ w[1] \in 0 .. Managers - 1 /\ w[2] \in 0 .. Lanes - 1
  BY DEF Workers
<1>2. h \in Nat /\ h \in 0 .. KvHeads * GroupSize - 1
  BY HandoffAssumption DEF Heads
<1>3. kv \in 0 .. KvHeads - 1
  BY <1>2, DivBound, HandoffAssumption
<1>4. q \in 0 .. GroupSize - 1 /\ h = GroupSize * kv + q
  BY <1>2, DivMod, HandoffAssumption
<1> HIDE DEF kv, q
<1>5. q * Lanes <= (GroupSize - 1) * Lanes
  BY <1>4, HandoffAssumption
<1>6. (GroupSize - 1) * Lanes = GroupSize * Lanes - Lanes
  BY HandoffAssumption
<1>7. q * Lanes \in Nat /\ GroupSize * Lanes \in Nat
  BY <1>4, HandoffAssumption
<1>8. x \in 0 .. GroupSize * Lanes - 1
  BY <1>1, <1>5, <1>6, <1>7, HandoffAssumption
<1>9. x \div Lanes = q /\ x % Lanes = w[2]
  <2>1. x \in Nat
    BY <1>8, <1>7
  <2>2. x \div Lanes \in Nat /\ x % Lanes \in 0 .. Lanes - 1 /\ x = Lanes * (x \div Lanes) + (x % Lanes)
    BY <2>1, DivMod, HandoffAssumption
  <2> HIDE DEF x
  <2>3. x = q * Lanes + w[2]
    BY DEF x
  <2>4. Lanes * (x \div Lanes) = (x \div Lanes) * Lanes
    BY <2>2, HandoffAssumption
  <2> QED BY <1>1, <1>4, <2>2, <2>3, <2>4, SameQuotient, HandoffAssumption
<1> HIDE DEF x
<1>10. b \in Blocks
  BY <1>1, <1>3, <1>8 DEF Blocks
<1>11. TargetOf(b) = w
  BY <1>1, <1>9 DEF TargetOf
<1>12. HeadOf(b) = h
  <2>1. GroupSize * kv = kv * GroupSize
    BY <1>3, HandoffAssumption
  <2> QED BY <1>4, <1>9, <2>1 DEF HeadOf
<1> QED BY <1>10, <1>11, <1>12

\* NoBlock is not the empty triple of some geometry.
LEMMA NoBlockIsNone == NoBlock \notin Blocks
<1> SUFFICES ASSUME NoBlock \in Blocks PROVE FALSE
  OBVIOUS
<1>1. NoBlock \in Seq({})
  BY DEF NoBlock
<1>2. Len(NoBlock) = 0
  BY DEF NoBlock
<1> QED BY <1>2, BlockFields DEF NoBlock

-----------------------------------------------------------------------------
(* Queues. *)

\* A queue whose entries have different producers is no longer than there are
\* producers, and shorter when one of them has no entry.  (A fact about finite
\* sets, proved in PvWoHandoffSafety and assumed by name until then.)
OwnersBound ==
    /\ Cardinality(Producers) \in Nat
    /\ \A len \in Nat : \A own \in [1 .. len -> Producers] :
          (\A i, j \in 1 .. len : own[i] = own[j] => i = j) =>
              /\ len <= Cardinality(Producers)
              /\ \A p \in Producers : (\A i \in 1 .. len : own[i] # p) => len < Cardinality(Producers)

\* Head and tail of a queue that is not empty.
LEMMA TailFacts ==
    ASSUME NEW S, NEW s \in Seq(S), s # <<>>
    PROVE  /\ Head(s) \in S /\ Head(s) = s[1] /\ Len(s) \in Nat \ {0}
           /\ Tail(s) \in Seq(S) /\ Len(Tail(s)) = Len(s) - 1
           /\ \A i \in 1 .. Len(Tail(s)) : i + 1 \in 1 .. Len(s) /\ Tail(s)[i] = s[i + 1]
OBVIOUS

\* A queue with one more entry.
Appended(S, s, x) ==
    /\ Append(s, x) \in Seq(S) /\ Len(s) \in Nat /\ Len(Append(s, x)) = Len(s) + 1
    /\ \A i \in 1 .. Len(s) : Append(s, x)[i] = s[i]
    /\ Append(s, x)[Len(s) + 1] = x

LEMMA AppendFacts == ASSUME NEW S, NEW s \in Seq(S), NEW x \in S PROVE Appended(S, s, x)
BY DEF Appended

-----------------------------------------------------------------------------
(* A step on one core. *)

With(c, w, x) == [c EXCEPT ![w] = x]

\* One core is replaced, the others stay.
LEMMA WithFacts ==
    ASSUME NEW c \in [Workers -> Core], NEW w \in Workers, NEW x \in Core
    PROVE  /\ With(c, w, x) \in [Workers -> Core]
           /\ With(c, w, x)[w] = x
           /\ \A v \in Workers : v # w => With(c, w, x)[v] = c[v]
BY DEF With

\* c and d differ in queues and landingPending only.
Same(c, d) ==
    \A v \in Workers :
        /\ d[v].pv = c[v].pv /\ d[v].pending = c[v].pending /\ d[v].finished = c[v].finished
        /\ d[v].received = c[v].received /\ d[v].landed = c[v].landed
        /\ d[v].consumedEpoch = c[v].consumedEpoch /\ d[v].leased = c[v].leased
        /\ d[v].fault = c[v].fault

\* The facts about a message depend on fields that Same preserves.
LEMMA SameMessages ==
    ASSUME NEW c, NEW d, NEW r, Same(c, d)
    PROVE  \A msg \in Message :
               /\ Wellformed(c, r, msg) => Wellformed(d, r, msg)
               /\ Tracked(c, msg) => Tracked(d, msg)
<1> SUFFICES ASSUME NEW msg \in Message
             PROVE  /\ Wellformed(c, r, msg) => Wellformed(d, r, msg)
                    /\ Tracked(c, msg) => Tracked(d, msg)
  OBVIOUS
<1>1. msg.owner \in Workers /\ msg.worker \in Workers
  BY DEF Message
<1> QED BY <1>1 DEF Same, Wellformed, Tracked

\* The fields each invariant depends on.
LEMMA SamePv ==
    ASSUME NEW c, NEW d, NEW r, PvInv(c, r),
           \A v \in Workers : /\ d[v].pv = c[v].pv /\ d[v].pending = c[v].pending
                              /\ d[v].finished = c[v].finished
    PROVE  PvInv(d, r)
BY DEF PvInv

LEMMA SamePhase ==
    ASSUME NEW c, NEW d, NEW r, NEW o, NEW v, PhaseInv(c, o, r, v),
           d[v].consumedEpoch = c[v].consumedEpoch, d[v].leased = c[v].leased
    PROVE  PhaseInv(d, o, r, v)
BY DEF PhaseInv, Open

LEMMA SameMemory ==
    ASSUME NEW c, NEW d, NEW g, NEW o, NEW r, NEW v, MemoryInv(c, g, o, r, v),
           d[v].received = c[v].received, d[v].landed = c[v].landed,
           d[v].consumedEpoch = c[v].consumedEpoch, d[v].fault = c[v].fault,
           d[v].landingPending => d[v].incoming # <<>>
    PROVE  MemoryInv(d, g, o, r, v)
BY DEF MemoryInv, Open

\* Heads that land leave the blocks where they are.
LEMMA SameBlock ==
    ASSUME NEW c, NEW d, NEW r, BlockInv(c, r),
           \A v \in Workers : /\ d[v].received = c[v].received /\ c[v].landed \subseteq d[v].landed
                              /\ d[v].consumedEpoch = c[v].consumedEpoch
                              /\ d[v].finished = c[v].finished
    PROVE  BlockInv(d, r)
<1> SUFFICES ASSUME NEW b \in Blocks
             PROVE  /\ r.stage = "attention" /\ b \in r.unstarted =>
                          HeadOf(b) \notin d[TargetOf(b)].received
                    /\ Open(d, r, TargetOf(b)) /\ (\E q \in Workers : b \in d[q].finished) =>
                          HeadOf(b) \in d[TargetOf(b)].received /\ HeadOf(b) \in d[TargetOf(b)].landed
                    /\ r.stage = "decoder" => \E q \in Workers : b \in d[q].finished
  BY DEF BlockInv
<1>1. TargetOf(b) \in Workers
  BY GeometryType
<1>2. /\ r.stage = "attention" /\ b \in r.unstarted => HeadOf(b) \notin c[TargetOf(b)].received
      /\ Open(c, r, TargetOf(b)) /\ (\E q \in Workers : b \in c[q].finished) =>
            HeadOf(b) \in c[TargetOf(b)].received /\ HeadOf(b) \in c[TargetOf(b)].landed
      /\ r.stage = "decoder" => \E q \in Workers : b \in c[q].finished
  BY DEF BlockInv
<1>3. Open(d, r, TargetOf(b)) <=> Open(c, r, TargetOf(b))
  BY <1>1 DEF Open
<1>4. (\E q \in Workers : b \in d[q].finished) <=> (\E q \in Workers : b \in c[q].finished)
  OBVIOUS
<1> QED BY <1>1, <1>2, <1>3, <1>4

\* So do the invariants that mention no queue.
LEMMA SameState ==
    ASSUME NEW c, NEW d, NEW r, NEW o, Same(c, d)
    PROVE  /\ PvInv(c, r) => PvInv(d, r)
           /\ \A w \in Workers : PhaseInv(c, o, r, w) => PhaseInv(d, o, r, w)
           /\ BlockInv(c, r) => BlockInv(d, r)
<1>1. PvInv(c, r) => PvInv(d, r)
  BY SamePv DEF Same
<1>2. \A w \in Workers : PhaseInv(c, o, r, w) => PhaseInv(d, o, r, w)
  BY SamePhase DEF Same
<1>3. BlockInv(c, r) => BlockInv(d, r)
  BY SameBlock DEF Same
<1> QED BY <1>1, <1>2, <1>3

\* A worker of which nothing changed.
LEMMA SameWorker ==
    ASSUME NEW c, NEW d, NEW g, NEW z, NEW o, NEW k, NEW r, NEW v,
           d[v] = c[v], z[v] = g[v], k[v] = o[v], PhaseInv(c, o, r, v), MemoryInv(c, g, o, r, v)
    PROVE  PhaseInv(d, k, r, v) /\ MemoryInv(d, z, k, r, v)
<1>1. PhaseInv(d, k, r, v)
  BY DEF PhaseInv, Open
<1>2. MemoryInv(d, z, k, r, v)
  BY DEF MemoryInv, Open
<1> QED BY <1>1, <1>2

\* A block is taken from those not started.
LEMMA BlockStarted ==
    ASSUME NEW r, NEW u, NEW b, u.layer = r.layer, u.stage = r.stage, u.direct = r.direct,
           u.unstarted = r.unstarted \ {b}
    PROVE  /\ \A c : BlockInv(c, r) => BlockInv(c, u)
           /\ \A c, o, v : PhaseInv(c, o, r, v) => PhaseInv(c, o, u, v)
           /\ \A c, g, o, v : MemoryInv(c, g, o, r, v) => MemoryInv(c, g, o, u, v)
<1>1. ASSUME NEW c, BlockInv(c, r) PROVE BlockInv(c, u)
  BY <1>1 DEF BlockInv, Open
<1>2. ASSUME NEW c, NEW o, NEW v, PhaseInv(c, o, r, v) PROVE PhaseInv(c, o, u, v)
  BY <1>2 DEF PhaseInv, Open
<1>3. ASSUME NEW c, NEW g, NEW o, NEW v, MemoryInv(c, g, o, r, v) PROVE MemoryInv(c, g, o, u, v)
  BY <1>3 DEF MemoryInv, Open
<1> QED BY <1>1, <1>2, <1>3

LEMMA SameEntries ==
    ASSUME NEW c, NEW d, NEW r, NEW g, Same(c, d), NEW w \in Workers
    PROVE  /\ \A msg \in Message : OutOk(c, r, w, msg) => OutOk(d, r, w, msg)
           /\ \A land \in Landing : InOk(c, g, r, w, land) => InOk(d, g, r, w, land)
<1>1. \A msg \in Message : OutOk(c, r, w, msg) => OutOk(d, r, w, msg)
  BY SameMessages DEF OutOk
<1>2. ASSUME NEW land \in Landing, InOk(c, g, r, w, land)
      PROVE  InOk(d, g, r, w, land)
  <2>1. land.msg \in Message
    BY DEF Landing
  <2>2. d[w].received = c[w].received /\ d[w].landed = c[w].landed
    BY DEF Same
  <2>3. Wellformed(d, r, land.msg)
    BY <1>2, <2>1, SameMessages DEF InOk
  <2> QED BY <1>2, <2>2, <2>3 DEF InOk
<1> QED BY <1>1, <1>2

\* The entries of typed queues.
LEMMA EntryTypes ==
    ASSUME NEW c \in [Workers -> Core], NEW w \in Workers
    PROVE  /\ c[w] \in Core
           /\ c[w].outgoing \in Seq(Message) /\ c[w].incoming \in Seq(Landing)
           /\ \A i \in OutIx(c, w) : OutAt(c, w, i) \in Message
           /\ \A i \in InIx(c, w) : InAt(c, w, i) \in Landing /\ InAt(c, w, i).msg \in Message
<1>1. c[w] \in Core
  OBVIOUS
<1>2. c[w].outgoing \in Seq(Message) /\ c[w].incoming \in Seq(Landing)
  BY <1>1 DEF Core
<1>3. \A i \in OutIx(c, w) : OutAt(c, w, i) \in Message
  BY <1>2 DEF OutIx, OutAt
<1>4. \A i \in InIx(c, w) : InAt(c, w, i) \in Landing
  BY <1>2 DEF InIx, InAt
<1>5. \A l \in Landing : l.msg \in Message
  BY DEF Landing
<1> QED BY <1>1, <1>2, <1>3, <1>4, <1>5

-----------------------------------------------------------------------------
(* Moves of a message.  "In nobody's queue" is the same as "in net": a message
   that a step takes from a queue and handles goes through net. *)

\* What stays when only queues and the network change.
LEMMA SameRest ==
    ASSUME NEW c, NEW g, NEW n, NEW o, NEW r, Inv(c, g, n, o, r), NEW d, Same(c, d),
           \A v \in Workers : d[v].landingPending => d[v].incoming # <<>>
    PROVE  /\ PvInv(d, r) /\ BlockInv(d, r)
           /\ \A v \in Workers : PhaseInv(d, o, r, v) /\ MemoryInv(d, g, o, r, v)
<1>1. PvInv(d, r) /\ BlockInv(d, r) /\ \A v \in Workers : PhaseInv(d, o, r, v)
  BY SameState DEF Inv
<1>2. ASSUME NEW v \in Workers PROVE MemoryInv(d, g, o, r, v)
  <2>1. MemoryInv(c, g, o, r, v)
    BY DEF Inv
  <2> QED BY <2>1 DEF MemoryInv, Same, Open
<1> QED BY <1>1, <1>2

\* pumpOutgoing takes the front of outgoing_.
Outgoing(x) == Head(x.outgoing)
Popped(x)   == [x EXCEPT !.outgoing = Tail(x.outgoing)]

LEMMA OutToNet ==
    ASSUME NEW c, NEW g, NEW n, NEW o, NEW r, Inv(c, g, n, o, r),
           NEW w \in Workers, c[w].outgoing # <<>>
    PROVE  /\ Outgoing(c[w]) \in Message /\ Outgoing(c[w]) \notin n
           /\ Popped(c[w]) \in Core
           /\ Inv(With(c, w, Popped(c[w])), g, n \cup {Outgoing(c[w])}, o, r)
<1> DEFINE x == Popped(c[w])
           f == Outgoing(c[w])
           q == c[w].outgoing
           d == With(c, w, x)
           m == n \cup {f}
           sh(v, i) == IF v = w THEN i + 1 ELSE i
<1>0. x = [c[w] EXCEPT !.outgoing = Tail(q)] /\ f = Head(q)
  BY DEF Popped, Outgoing
<1> HIDE DEF x, f
<1>1. Typed(c, g, n, o, r) /\ c \in [Workers -> Core]
  BY DEF Inv, Typed
<1>2. c[w] \in Core /\ q \in Seq(Message) /\ q # <<>>
  BY <1>1, EntryTypes
<1>3. /\ f \in Message /\ f = q[1] /\ Len(q) \in Nat \ {0}
      /\ Tail(q) \in Seq(Message) /\ Len(Tail(q)) = Len(q) - 1
      /\ \A i \in 1 .. Len(Tail(q)) : i + 1 \in 1 .. Len(q) /\ Tail(q)[i] = q[i + 1]
  BY <1>0, <1>2, TailFacts
<1>4. x \in Core
  BY <1>0, <1>2, <1>3 DEF Core
<1>5. d \in [Workers -> Core] /\ d[w] = x /\ \A v \in Workers : v # w => d[v] = c[v]
  BY <1>1, <1>4 DEF With
<1> HIDE DEF d
<1>6. /\ x.outgoing = Tail(q) /\ x.incoming = c[w].incoming
      /\ x.landingPending = c[w].landingPending
  BY <1>0, <1>2 DEF Core
<1>7. Same(c, d)
  <2>1. /\ x.pv = c[w].pv /\ x.pending = c[w].pending /\ x.finished = c[w].finished
        /\ x.received = c[w].received /\ x.landed = c[w].landed
        /\ x.consumedEpoch = c[w].consumedEpoch /\ x.leased = c[w].leased
        /\ x.fault = c[w].fault
    BY <1>0, <1>2 DEF Core
  <2> QED BY <1>5, <2>1 DEF Same
<1>8. Typed(d, g, m, o, r)
  BY <1>1, <1>3, <1>5 DEF Typed
<1>9. /\ \A v \in Workers : InIx(d, v) = InIx(c, v)
      /\ \A v \in Workers : \A i : InAt(d, v, i) = InAt(c, v, i)
      /\ \A v \in Workers : d[v].landingPending => d[v].incoming # <<>>
  <2>1. \A v \in Workers : d[v].incoming = c[v].incoming /\ d[v].landingPending = c[v].landingPending
    BY <1>5, <1>6
  <2> QED BY <2>1 DEF InIx, InAt, Inv, MemoryInv
<1>10. /\ \A v \in Workers : \A i \in OutIx(d, v) :
             sh(v, i) \in OutIx(c, v) /\ OutAt(d, v, i) = OutAt(c, v, sh(v, i))
       /\ 1 \in OutIx(c, w) /\ OutAt(c, w, 1) = f
  <2>1. 1 \in OutIx(c, w) /\ OutAt(c, w, 1) = f
    BY <1>3 DEF OutIx, OutAt
  <2>2. ASSUME NEW i \in OutIx(d, w)
        PROVE  i + 1 \in OutIx(c, w) /\ OutAt(d, w, i) = OutAt(c, w, i + 1)
    BY <2>2, <1>3, <1>5, <1>6 DEF OutIx, OutAt
  <2>3. ASSUME NEW v \in Workers, v # w, NEW i \in OutIx(d, v)
        PROVE  i \in OutIx(c, v) /\ OutAt(d, v, i) = OutAt(c, v, i)
    BY <2>3, <1>5 DEF OutIx, OutAt
  <2> QED BY <2>1, <2>2, <2>3
<1>11. /\ \A v \in Workers : \A i, j \in OutIx(d, v) : sh(v, i) = sh(v, j) => i = j
       /\ \A i \in OutIx(d, w) : sh(w, i) # 1
  BY DEF OutIx
<1> HIDE DEF sh
<1>12. OutInv(d, r)
  <2> SUFFICES ASSUME NEW v \in Workers, NEW i \in OutIx(d, v)
               PROVE  OutOk(d, r, v, OutAt(d, v, i))
    BY DEF OutInv
  <2>1. OutOk(c, r, v, OutAt(d, v, i)) /\ OutAt(d, v, i) \in Message
    BY <1>1, <1>10, EntryTypes DEF Inv, OutInv
  <2> QED BY <2>1, <1>7, SameEntries
<1>13. OutOk(c, r, w, f)
  BY <1>10 DEF Inv, OutInv
<1>14. NetInv(d, m, r)
  <2> SUFFICES ASSUME NEW y \in m
               PROVE  Wellformed(d, r, y) /\ Tracked(d, y)
    BY DEF NetInv
  <2>1. y \in Message /\ Wellformed(c, r, y) /\ Tracked(c, y)
    <3>1. CASE y \in n
      BY <3>1, <1>1 DEF Inv, NetInv, Typed
    <3>2. CASE y = f
      BY <3>2, <1>3, <1>13 DEF OutOk
    <3> QED BY <3>1, <3>2
  <2> QED BY <2>1, <1>7, SameMessages
<1>15. InInv(d, g, r)
  BY <1>1, <1>7, <1>9, SameEntries, EntryTypes DEF Inv, InInv
<1>16. Unique(c, n)
  BY DEF Inv
<1>17. \A y \in n : y.owner # f.owner
  BY <1>10, <1>16 DEF Unique
<1>18. Unique(d, m)
  <2>1. \A a, b \in Workers : \A i \in OutIx(d, a), j \in OutIx(d, b) :
          OutAt(d, a, i).owner = OutAt(d, b, j).owner => a = b /\ i = j
    BY <1>10, <1>11, <1>16 DEF Unique
  <2>2. \A a, b \in Workers : \A i \in OutIx(d, a), j \in InIx(d, b) :
          OutAt(d, a, i).owner # InAt(d, b, j).msg.owner
    BY <1>9, <1>10, <1>16 DEF Unique
  <2>3. \A a \in Workers : \A i \in OutIx(d, a) : OutAt(d, a, i).owner # f.owner
    BY <1>10, <1>11, <1>16 DEF Unique
  <2>4. \A a \in Workers : \A i \in OutIx(d, a), y \in m : OutAt(d, a, i).owner # y.owner
    BY <2>3, <1>10, <1>16 DEF Unique
  <2>5. \A y, z \in m : y.owner = z.owner => y = z
    BY <1>16, <1>17 DEF Unique
  <2>6. \A a \in Workers : \A i \in InIx(d, a), y \in m : InAt(d, a, i).msg.owner # y.owner
    BY <1>9, <1>10, <1>16 DEF Unique
  <2>7. \A a, b \in Workers : \A i \in InIx(d, a), j \in InIx(d, b) :
          InAt(d, a, i).msg.owner = InAt(d, b, j).msg.owner => a = b /\ i = j
    BY <1>9, <1>16 DEF Unique
  <2> QED BY <2>1, <2>2, <2>4, <2>5, <2>6, <2>7 DEF Unique
<1>19. PvInv(d, r) /\ BlockInv(d, r) /\ \A v \in Workers : PhaseInv(d, o, r, v) /\ MemoryInv(d, g, o, r, v)
  BY <1>7, <1>9, SameRest
<1>20. Inv(d, g, m, o, r)
  BY <1>8, <1>12, <1>14, <1>15, <1>18, <1>19 DEF Inv
<1> QED BY <1>3, <1>4, <1>17, <1>20 DEF d, x, f

\* The owners in a queue are different producers.
LEMMA QueueLengths ==
    ASSUME OwnersBound, NEW c, NEW g, NEW n, NEW o, NEW r, Inv(c, g, n, o, r), NEW w \in Workers
    PROVE  /\ Len(c[w].outgoing) \in Nat /\ Len(c[w].outgoing) < OutgoingBound
           /\ Len(c[w].incoming) \in Nat
           /\ \A y \in n : Len(c[w].incoming) < QueueBound
<1>0. Cardinality(Producers) \in Nat
  BY DEF OwnersBound
<1>1. c \in [Workers -> Core] /\ n \subseteq Message
  BY DEF Inv, Typed
<1>2. Len(c[w].outgoing) \in Nat /\ Len(c[w].incoming) \in Nat
  BY <1>1, EntryTypes
<1>3. Unique(c, n) /\ OutInv(c, r) /\ InInv(c, g, r) /\ NetInv(c, n, r)
  BY DEF Inv
<1>4. Len(c[w].outgoing) < OutgoingBound
  <2> DEFINE own == [i \in 1 .. Len(c[w].outgoing) |-> OutAt(c, w, i).owner]
  <2>1. own \in [1 .. Len(c[w].outgoing) -> Producers]
    BY <1>3 DEF OutInv, OutIx, OutOk, Wellformed
  <2>2. \A i, j \in 1 .. Len(c[w].outgoing) : own[i] = own[j] => i = j
    BY <1>3 DEF Unique, OutIx
  <2> HIDE DEF own
  <2>3. Len(c[w].outgoing) <= Cardinality(Producers)
    BY <1>2, <2>1, <2>2 DEF OwnersBound
  <2> QED BY <1>2, <1>0, <2>3, HandoffAssumption
<1>5. ASSUME NEW y \in n PROVE Len(c[w].incoming) < QueueBound
  <2> DEFINE own == [i \in 1 .. Len(c[w].incoming) |-> InAt(c, w, i).msg.owner]
  <2>1. own \in [1 .. Len(c[w].incoming) -> Producers]
    BY <1>3 DEF InInv, InIx, InOk, Wellformed
  <2>2. \A i, j \in 1 .. Len(c[w].incoming) : own[i] = own[j] => i = j
    BY <1>3 DEF Unique, InIx
  <2>3. y.owner \in Producers /\ \A i \in 1 .. Len(c[w].incoming) : own[i] # y.owner
    BY <1>3 DEF Unique, InIx, NetInv, Wellformed
  <2> HIDE DEF own
  <2>4. Len(c[w].incoming) < Cardinality(Producers)
    BY <1>2, <2>1, <2>2, <2>3 DEF OwnersBound
  <2> QED BY <1>2, <1>0, <2>4, HandoffAssumption
<1> QED BY <1>2, <1>4, <1>5

\* enqueue puts a message at the end of outgoing_, which has room.
LEMMA NetToOut ==
    ASSUME OwnersBound, NEW c, NEW g, NEW n, NEW o, NEW r, Inv(c, g, n, o, r),
           NEW f \in n, NEW w \in Workers, w = IF f.kind = "Data" THEN f.owner ELSE f.worker,
           NEW x, x = Enqueue(c[w], f)
    PROVE  x \in Core /\ Inv(With(c, w, x), g, n \ {f}, o, r)
<1> DEFINE q == c[w].outgoing
           d == With(c, w, x)
           m == n \ {f}
           last == Len(q) + 1
<1>1. Typed(c, g, n, o, r) /\ c \in [Workers -> Core] /\ f \in Message
  BY DEF Inv, Typed
<1>2. c[w] \in Core /\ q \in Seq(Message)
  BY <1>1, EntryTypes
<1>3. /\ Append(q, f) \in Seq(Message) /\ Len(q) \in Nat /\ Len(Append(q, f)) = Len(q) + 1
      /\ \A i \in 1 .. Len(q) : Append(q, f)[i] = q[i]
      /\ Append(q, f)[Len(q) + 1] = f
  <2>1. Appended(Message, q, f)
    BY <1>1, <1>2, AppendFacts
  <2> QED BY <2>1 DEF Appended
<1>4. x = [c[w] EXCEPT !.outgoing = Append(q, f)]
  <2>1. Len(q) < OutgoingBound
    BY QueueLengths
  <2>2. ~(Len(q) >= OutgoingBound)
    BY <2>1, <1>3, NotLess, HandoffAssumption
  <2> QED BY <2>2 DEF Enqueue
<1>5. x \in Core
  BY <1>2, <1>3, <1>4 DEF Core
<1>6. d \in [Workers -> Core] /\ d[w] = x /\ \A v \in Workers : v # w => d[v] = c[v]
  BY <1>1, <1>5 DEF With
<1> HIDE DEF d
<1>7. /\ x.outgoing = Append(q, f) /\ x.incoming = c[w].incoming
      /\ x.landingPending = c[w].landingPending
  BY <1>2, <1>4 DEF Core
<1>8. Same(c, d)
  <2>1. /\ x.pv = c[w].pv /\ x.pending = c[w].pending /\ x.finished = c[w].finished
        /\ x.received = c[w].received /\ x.landed = c[w].landed
        /\ x.consumedEpoch = c[w].consumedEpoch /\ x.leased = c[w].leased
        /\ x.fault = c[w].fault
    BY <1>2, <1>4 DEF Core
  <2> QED BY <1>6, <2>1 DEF Same
<1>9. Typed(d, g, m, o, r)
  BY <1>1, <1>6 DEF Typed
<1>10. /\ \A v \in Workers : InIx(d, v) = InIx(c, v)
       /\ \A v \in Workers : \A i : InAt(d, v, i) = InAt(c, v, i)
       /\ \A v \in Workers : d[v].landingPending => d[v].incoming # <<>>
  <2>1. \A v \in Workers : d[v].incoming = c[v].incoming /\ d[v].landingPending = c[v].landingPending
    BY <1>6, <1>7
  <2> QED BY <2>1 DEF InIx, InAt, Inv, MemoryInv
<1>11. \A v \in Workers : \A i \in OutIx(d, v) :
          \/ i \in OutIx(c, v) /\ OutAt(d, v, i) = OutAt(c, v, i)
          \/ v = w /\ i = last /\ OutAt(d, v, i) = f
  <2>1. ASSUME NEW i \in OutIx(d, w)
        PROVE  \/ i \in OutIx(c, w) /\ OutAt(d, w, i) = OutAt(c, w, i)
               \/ i = last /\ OutAt(d, w, i) = f
    <3>1. OutAt(d, w, i) = Append(q, f)[i] /\ i \in 1 .. Len(q) + 1
      BY <2>1, <1>3, <1>6, <1>7 DEF OutIx, OutAt
    <3>2. CASE i \in 1 .. Len(q)
      BY <3>1, <3>2, <1>3 DEF OutIx, OutAt
    <3>3. CASE i = Len(q) + 1
      BY <3>1, <3>3, <1>3
    <3> QED BY <3>1, <3>2, <3>3, <1>3, UpToNext
  <2>2. ASSUME NEW v \in Workers, v # w, NEW i \in OutIx(d, v)
        PROVE  i \in OutIx(c, v) /\ OutAt(d, v, i) = OutAt(c, v, i)
    BY <2>2, <1>6 DEF OutIx, OutAt
  <2> QED BY <2>1, <2>2
<1> HIDE DEF last
<1>12. Wellformed(c, r, f) /\ Tracked(c, f)
  BY DEF Inv, NetInv
<1>13. OutInv(d, r)
  <2> SUFFICES ASSUME NEW v \in Workers, NEW i \in OutIx(d, v)
               PROVE  OutOk(d, r, v, OutAt(d, v, i))
    BY DEF OutInv
  <2>1. CASE i \in OutIx(c, v) /\ OutAt(d, v, i) = OutAt(c, v, i)
    <3>1. OutOk(c, r, v, OutAt(d, v, i)) /\ OutAt(d, v, i) \in Message
      BY <2>1, <1>1, EntryTypes DEF Inv, OutInv
    <3> QED BY <3>1, <1>8, SameEntries
  <2>2. CASE v = w /\ OutAt(d, v, i) = f
    <3>1. OutOk(c, r, w, f)
      BY <1>12 DEF OutOk
    <3> QED BY <2>2, <3>1, <1>1, <1>8, SameEntries
  <2> QED BY <2>1, <2>2, <1>11
<1>14. NetInv(d, m, r)
  BY <1>1, <1>8, SameMessages DEF Inv, NetInv, Typed
<1>15. InInv(d, g, r)
  BY <1>1, <1>8, <1>10, SameEntries, EntryTypes DEF Inv, InInv
<1>16. Unique(c, n)
  BY DEF Inv
<1>17. Unique(d, m)
  <2>1. \A a, b \in Workers : \A i \in OutIx(d, a), j \in OutIx(d, b) :
          OutAt(d, a, i).owner = OutAt(d, b, j).owner => a = b /\ i = j
    BY <1>11, <1>16 DEF Unique
  <2>2. \A a, b \in Workers : \A i \in OutIx(d, a), j \in InIx(d, b) :
          OutAt(d, a, i).owner # InAt(d, b, j).msg.owner
    BY <1>10, <1>11, <1>16 DEF Unique
  <2>3. \A a \in Workers : \A i \in OutIx(d, a), y \in m : OutAt(d, a, i).owner # y.owner
    BY <1>11, <1>16 DEF Unique
  <2>4. \A y, z \in m : y.owner = z.owner => y = z
    BY <1>16 DEF Unique
  <2>5. \A a \in Workers : \A i \in InIx(d, a), y \in m : InAt(d, a, i).msg.owner # y.owner
    BY <1>10, <1>16 DEF Unique
  <2>6. \A a, b \in Workers : \A i \in InIx(d, a), j \in InIx(d, b) :
          InAt(d, a, i).msg.owner = InAt(d, b, j).msg.owner => a = b /\ i = j
    BY <1>10, <1>16 DEF Unique
  <2> QED BY <2>1, <2>2, <2>3, <2>4, <2>5, <2>6 DEF Unique
<1>18. PvInv(d, r) /\ BlockInv(d, r) /\ \A v \in Workers : PhaseInv(d, o, r, v) /\ MemoryInv(d, g, o, r, v)
  BY <1>8, <1>10, SameRest
<1>19. Inv(d, g, m, o, r)
  BY <1>9, <1>13, <1>14, <1>15, <1>17, <1>18 DEF Inv
<1> QED BY <1>5, <1>19 DEF d

-----------------------------------------------------------------------------
(* receive. *)

\* The block of a message is held by the owner of the message, and by no one else.
HoldsBlock(c, r, msg) ==
    /\ msg.owner \in Workers /\ msg.worker \in Workers
    /\ msg.key \in Key /\ msg.key.block \in Blocks /\ msg.key.block # NoBlock
    /\ c[msg.owner].pv = msg.key.block /\ c[msg.owner].pending = {msg.key}
    /\ r.stage = "attention" /\ msg.key.block \notin r.unstarted
    /\ \A q \in Workers : msg.key.block \notin c[q].finished
    /\ \A q \in Workers : q # msg.owner => c[q].pv # msg.key.block

LEMMA HeldBlock ==
    ASSUME NEW c, NEW g, NEW n, NEW o, NEW r, Inv(c, g, n, o, r),
           NEW msg \in Message, Wellformed(c, r, msg)
    PROVE  HoldsBlock(c, r, msg)
<1>1. msg.owner \in Workers /\ msg.worker \in Workers /\ msg.key \in Key
  BY DEF Message
<1>2. msg.key.block \in Blocks /\ msg.key.block # NoBlock
  BY <1>1, NoBlockIsNone DEF Key
<1>3. c[msg.owner].pv = msg.key.block /\ msg.key.epoch = r.layer
  BY DEF Wellformed
<1>4. /\ r.stage = "attention"
      /\ c[msg.owner].pending = {[block |-> msg.key.block, epoch |-> r.layer]}
      /\ msg.key.block \notin r.unstarted
      /\ \A q \in Workers : msg.key.block \notin c[q].finished /\ (q # msg.owner => c[q].pv # msg.key.block)
  BY <1>1, <1>2, <1>3 DEF Inv, PvInv
<1>5. msg.key = [block |-> msg.key.block, epoch |-> r.layer]
  BY <1>1, <1>3 DEF Key
<1>6. c[msg.owner].pending = {msg.key}
  BY <1>4, <1>5
<1> QED BY <1>1, <1>2, <1>3, <1>4, <1>6 DEF HoldsBlock

\* Messages of different owners are for different heads.
LEMMA DistinctHeads ==
    ASSUME NEW c, NEW g, NEW n, NEW o, NEW r, Inv(c, g, n, o, r),
           NEW y \in Message, Wellformed(c, r, y), NEW z \in Message, Wellformed(c, r, z),
           y.owner # z.owner, y.worker = z.worker
    PROVE  y.head # z.head
<1>1. y.key.block \in Blocks /\ z.key.block \in Blocks /\ y.key.block # z.key.block
  BY HeldBlock DEF HoldsBlock
<1>2. /\ y.worker = TargetOf(y.key.block) /\ z.worker = TargetOf(z.key.block)
      /\ y.head = HeadOf(y.key.block) /\ z.head = HeadOf(z.key.block)
  BY DEF Wellformed
<1> QED BY <1>1, <1>2, GeometryInjective

\* Taking a message away disturbs nothing else.
LEMMA UniqueWithout ==
    ASSUME NEW c, NEW n, Unique(c, n), NEW f \in n
    PROVE  /\ Unique(c, n \ {f})
           /\ \A y \in n \ {f} : y.owner # f.owner
           /\ \A w \in Workers : \A i \in OutIx(c, w) : OutAt(c, w, i).owner # f.owner
           /\ \A w \in Workers : \A i \in InIx(c, w) : InAt(c, w, i).msg.owner # f.owner
BY DEF Unique

\* Unique depends on the queues only.
SameQueues(c, d) ==
    \A v \in Workers : d[v].outgoing = c[v].outgoing /\ d[v].incoming = c[v].incoming

LEMMA UniqueSame ==
    ASSUME NEW c, NEW d, NEW n, Unique(c, n), SameQueues(c, d)
    PROVE  Unique(d, n)
<1>1. \A v \in Workers : OutIx(d, v) = OutIx(c, v) /\ InIx(d, v) = InIx(c, v)
  BY DEF SameQueues, OutIx, InIx
<1>2. \A v \in Workers : \A i : OutAt(d, v, i) = OutAt(c, v, i) /\ InAt(d, v, i) = InAt(c, v, i)
  BY DEF SameQueues, OutAt, InAt
<1> QED BY <1>1, <1>2 DEF Unique

\* A message on the network whose owner has no other.
NoneOwned(c, n, p) ==
    /\ \A v \in Workers : \A i \in OutIx(c, v) : OutAt(c, v, i).owner # p
    /\ \A v \in Workers : \A i \in InIx(c, v) : InAt(c, v, i).msg.owner # p
    /\ \A y \in n : y.owner # p

LEMMA UniqueAdd ==
    ASSUME NEW c, NEW n, NEW f, NEW p, Unique(c, n), NoneOwned(c, n, p), f.owner = p
    PROVE  Unique(c, n \cup {f})
<1>1. \A x, y \in n \cup {f} : x.owner = y.owner => x = y
  BY DEF Unique, NoneOwned
<1>2. \A w \in Workers : \A i \in OutIx(c, w), y \in n \cup {f} : OutAt(c, w, i).owner # y.owner
  BY DEF Unique, NoneOwned
<1>3. \A w \in Workers : \A i \in InIx(c, w), y \in n \cup {f} : InAt(c, w, i).msg.owner # y.owner
  BY DEF Unique, NoneOwned
<1> QED BY <1>1, <1>2, <1>3 DEF Unique

\* And only on the owners of their entries.
LEMMA UniqueSameOwners ==
    ASSUME NEW c, NEW d, NEW n, Unique(c, n),
           \A v \in Workers : OutIx(d, v) = OutIx(c, v),
           \A v \in Workers : \A i : OutAt(d, v, i) = OutAt(c, v, i),
           \A v \in Workers : InIx(d, v) = InIx(c, v),
           \A v \in Workers : \A i \in InIx(c, v) : InAt(d, v, i).msg = InAt(c, v, i).msg
    PROVE  Unique(d, n)
<1>1. \A v \in Workers : \A i \in OutIx(d, v) : i \in OutIx(c, v) /\ OutAt(d, v, i).owner = OutAt(c, v, i).owner
  OBVIOUS
<1>2. \A v \in Workers : \A i \in InIx(d, v) : i \in InIx(c, v) /\ InAt(d, v, i).msg.owner = InAt(c, v, i).msg.owner
  OBVIOUS
<1>3. \A w, v \in Workers : \A i \in OutIx(d, w), j \in OutIx(d, v) :
          OutAt(d, w, i).owner = OutAt(d, v, j).owner => w = v /\ i = j
  BY <1>1 DEF Unique
<1>4. \A w, v \in Workers : \A i \in InIx(d, w), j \in InIx(d, v) :
          InAt(d, w, i).msg.owner = InAt(d, v, j).msg.owner => w = v /\ i = j
  BY <1>2 DEF Unique
<1>5. \A w, v \in Workers : \A i \in OutIx(d, w), j \in InIx(d, v) :
          OutAt(d, w, i).owner # InAt(d, v, j).msg.owner
  BY <1>1, <1>2 DEF Unique
<1>6. /\ \A w \in Workers : \A i \in OutIx(d, w), y \in n : OutAt(d, w, i).owner # y.owner
      /\ \A w \in Workers : \A i \in InIx(d, w), y \in n : InAt(d, w, i).msg.owner # y.owner
      /\ \A x, y \in n : x.owner = y.owner => x = y
  BY <1>1, <1>2 DEF Unique
<1> QED BY <1>3, <1>4, <1>5, <1>6 DEF Unique

\* receive for an ACK: the done callback releases the owner of the block.
LEMMA AckReceived ==
    ASSUME NEW c, NEW g, NEW n, NEW o, NEW r, Inv(c, g, n, o, r),
           NEW f \in n, f.kind = "Ack", NEW w, w = f.owner,
           NEW x, x = ReceiveAck(c[w], w, f)
    PROVE  w \in Workers /\ x \in Core /\ Inv(With(c, w, x), g, n \ {f}, o, r)
<1> DEFINE b == f.key.block
           d == With(c, w, x)
           m == n \ {f}
<1>1. Typed(c, g, n, o, r) /\ c \in [Workers -> Core] /\ f \in Message
  BY DEF Inv, Typed
<1>2. Wellformed(c, r, f) /\ Tracked(c, f)
  BY DEF Inv, NetInv
<1>3. /\ w \in Workers /\ f.worker \in Workers /\ b \in Blocks /\ b # NoBlock /\ f.key \in Key
      /\ c[w].pv = b /\ c[w].pending = {f.key} /\ b \notin r.unstarted
      /\ \A q \in Workers : b \notin c[q].finished /\ (q # w => c[q].pv # b)
  <2>1. HoldsBlock(c, r, f)
    BY <1>1, <1>2, HeldBlock
  <2> QED BY <2>1 DEF HoldsBlock
<1>4. f.worker = TargetOf(b) /\ f.head = HeadOf(b)
  BY <1>2 DEF Wellformed
<1>5. c[w] \in Core
  BY <1>1, <1>3
<1>6. x = [c[w] EXCEPT !.pending = {}, !.finished = c[w].finished \cup {b}, !.pv = NoBlock]
  <2>1. c[w].pending \ {f.key} = {}
    BY <1>3
  <2> QED BY <2>1, <1>3, <1>4, <1>5 DEF ReceiveAck, Core
<1>7. x \in Core
  <2> DEFINE fin == c[w].finished \cup {b}
             y == [c[w] EXCEPT !.pending = {}]
             z == [y EXCEPT !.finished = fin]
  <2>1. fin \in SUBSET Blocks
    BY <1>3, <1>5 DEF Core
  <2> HIDE DEF fin
  <2>2. y \in Core
    BY <1>5 DEF Core
  <2> HIDE DEF y
  <2>3. z \in Core
    BY <2>1, <2>2 DEF Core
  <2> HIDE DEF z
  <2>4. [z EXCEPT !.pv = NoBlock] \in Core
    BY <2>3 DEF Core
  <2> QED BY <2>4, <1>6 DEF z, y, fin
<1>8. d \in [Workers -> Core] /\ d[w] = x /\ \A v \in Workers : v # w => d[v] = c[v]
  BY <1>1, <1>3, <1>7 DEF With
<1> HIDE DEF d, b
<1>9. /\ x.pv = NoBlock /\ x.pending = {} /\ x.finished = c[w].finished \cup {b}
      /\ x.outgoing = c[w].outgoing /\ x.incoming = c[w].incoming
      /\ x.received = c[w].received /\ x.landed = c[w].landed
      /\ x.landingPending = c[w].landingPending
      /\ x.consumedEpoch = c[w].consumedEpoch /\ x.leased = c[w].leased /\ x.fault = c[w].fault
  BY <1>5, <1>6 DEF Core
<1>10. \A v \in Workers :
          /\ d[v].outgoing = c[v].outgoing /\ d[v].incoming = c[v].incoming
          /\ d[v].received = c[v].received /\ d[v].landed = c[v].landed
          /\ d[v].landingPending = c[v].landingPending
          /\ d[v].consumedEpoch = c[v].consumedEpoch /\ d[v].leased = c[v].leased
          /\ d[v].fault = c[v].fault
          /\ v # w => d[v].pv = c[v].pv /\ d[v].pending = c[v].pending /\ d[v].finished = c[v].finished
  <2> TAKE v \in Workers
  <2>1. CASE v = w
    BY <2>1, <1>8, <1>9
  <2>2. CASE v # w
    <3>1. d[v] = c[v]
      BY <2>2, <1>8
    <3> QED BY <2>2, <3>1
  <2> QED BY <2>1, <2>2
<1>11. Typed(d, g, m, o, r)
  BY <1>1, <1>8 DEF Typed
<1>12. /\ \A v \in Workers : OutIx(d, v) = OutIx(c, v) /\ InIx(d, v) = InIx(c, v)
       /\ \A v \in Workers : \A i : OutAt(d, v, i) = OutAt(c, v, i) /\ InAt(d, v, i) = InAt(c, v, i)
  BY <1>10 DEF OutIx, InIx, OutAt, InAt
<1>13. /\ Unique(c, m)
       /\ \A y \in m : y.owner # w
       /\ \A v \in Workers : \A i \in OutIx(c, v) : OutAt(c, v, i).owner # w
       /\ \A v \in Workers : \A i \in InIx(c, v) : InAt(c, v, i).msg.owner # w
  BY UniqueWithout DEF Inv
<1>14. ASSUME NEW y \in Message, y.owner # w
       PROVE  /\ Wellformed(c, r, y) => Wellformed(d, r, y)
              /\ Tracked(c, y) => Tracked(d, y)
  <2>1. y.owner \in Workers /\ y.worker \in Workers
    BY DEF Message
  <2> QED BY <2>1, <1>10, <1>14 DEF Wellformed, Tracked
<1>15. OutInv(d, r)
  <2> SUFFICES ASSUME NEW v \in Workers, NEW i \in OutIx(c, v)
               PROVE  OutOk(d, r, v, OutAt(c, v, i))
    BY <1>12 DEF OutInv
  <2>1. OutOk(c, r, v, OutAt(c, v, i)) /\ OutAt(c, v, i) \in Message
    BY <1>1, EntryTypes DEF Inv, OutInv
  <2> QED BY <2>1, <1>13, <1>14 DEF OutOk
<1>16. NetInv(d, m, r)
  BY <1>1, <1>13, <1>14 DEF Inv, NetInv, Typed
<1>17. InInv(d, g, r)
  <2> SUFFICES ASSUME NEW v \in Workers, NEW i \in InIx(c, v)
               PROVE  InOk(d, g, r, v, InAt(c, v, i))
    BY <1>12 DEF InInv
  <2>1. InOk(c, g, r, v, InAt(c, v, i)) /\ InAt(c, v, i).msg \in Message
    BY <1>1, EntryTypes DEF Inv, InInv
  <2> QED BY <2>1, <1>10, <1>13, <1>14 DEF InOk
<1>18. Unique(d, m)
  <2>1. Unique(c, m)
    BY <1>13
  <2>2. SameQueues(c, d)
    BY <1>10 DEF SameQueues
  <2> QED BY <2>1, <2>2, UniqueSame
<1>19. PvInv(d, r)
  <2>1. PvInv(c, r)
    BY DEF Inv
  <2> SUFFICES ASSUME NEW p \in Workers
               PROVE  /\ d[p].pv = NoBlock => d[p].pending = {}
                      /\ d[p].pv # NoBlock =>
                            /\ p \in Producers /\ r.stage = "attention"
                            /\ d[p].pending = {[block |-> d[p].pv, epoch |-> r.layer]}
                            /\ d[p].pv \notin r.unstarted
                            /\ \A q \in Workers : d[p].pv \notin d[q].finished /\ (q # p => d[q].pv # d[p].pv)
                      /\ \A e \in d[p].finished : e \notin r.unstarted
    BY DEF PvInv
  <2>2. CASE p = w
    <3>1. d[p].pv = NoBlock /\ d[p].pending = {} /\ d[p].finished = c[w].finished \cup {b}
      BY <2>2, <1>8, <1>9
    <3>2. \A e \in c[w].finished : e \notin r.unstarted
      BY <2>1, <1>3 DEF PvInv
    <3>3. b \notin r.unstarted
      BY <1>3
    <3> QED BY <3>1, <3>2, <3>3
  <2>3. CASE p # w
    <3>1. d[p].pv # b
      <4>1. d[p].pv = c[p].pv
        BY <2>3, <1>10
      <4>2. c[p].pv # b
        BY <2>3, <1>3
      <4> QED BY <4>1, <4>2
    <3>2. \A q \in Workers : d[q].finished \subseteq c[q].finished \cup {b}
      BY <1>8, <1>9
    <3>3. \A q \in Workers : d[q].pv = NoBlock \/ d[q].pv = c[q].pv
      BY <1>8, <1>9
    <3>4. d[p].pv = c[p].pv /\ d[p].pending = c[p].pending /\ d[p].finished = c[p].finished
      BY <2>3, <1>10
    <3>5. /\ c[p].pv = NoBlock => c[p].pending = {}
          /\ c[p].pv # NoBlock =>
                /\ p \in Producers /\ r.stage = "attention"
                /\ c[p].pending = {[block |-> c[p].pv, epoch |-> r.layer]}
                /\ c[p].pv \notin r.unstarted
                /\ \A q \in Workers : c[p].pv \notin c[q].finished /\ (q # p => c[q].pv # c[p].pv)
          /\ \A e \in c[p].finished : e \notin r.unstarted
      BY <2>1 DEF PvInv
    <3>6. ASSUME d[p].pv # NoBlock, NEW q \in Workers
          PROVE  d[p].pv \notin d[q].finished /\ (q # p => d[q].pv # d[p].pv)
      <4>1. c[p].pv \notin c[q].finished /\ (q # p => c[q].pv # c[p].pv)
        BY <3>4, <3>5, <3>6
      <4>2. d[q].finished \subseteq c[q].finished \cup {b} /\ (d[q].pv = NoBlock \/ d[q].pv = c[q].pv)
        BY <3>2, <3>3
      <4> QED BY <3>1, <3>4, <3>6, <4>1, <4>2
    <3> QED BY <3>4, <3>5, <3>6
  <2> QED BY <2>2, <2>3
<1>20. \A v \in Workers : PhaseInv(d, o, r, v) /\ MemoryInv(d, g, o, r, v)
  <2> SUFFICES ASSUME NEW v \in Workers PROVE PhaseInv(d, o, r, v) /\ MemoryInv(d, g, o, r, v)
    OBVIOUS
  <2>1. PhaseInv(c, o, r, v) /\ MemoryInv(c, g, o, r, v)
    BY DEF Inv
  <2>2. d[v].landingPending => d[v].incoming # <<>>
    BY <1>10, <2>1 DEF MemoryInv
  <2> QED BY <1>10, <2>1, <2>2, SamePhase, SameMemory
<1>21. BlockInv(d, r)
  <2>1. BlockInv(c, r)
    BY DEF Inv
  <2> SUFFICES ASSUME NEW e \in Blocks
               PROVE  /\ r.stage = "attention" /\ e \in r.unstarted =>
                            HeadOf(e) \notin d[TargetOf(e)].received
                      /\ Open(d, r, TargetOf(e)) /\ (\E q \in Workers : e \in d[q].finished) =>
                            HeadOf(e) \in d[TargetOf(e)].received /\ HeadOf(e) \in d[TargetOf(e)].landed
                      /\ r.stage = "decoder" => \E q \in Workers : e \in d[q].finished
    BY DEF BlockInv
  <2>2. TargetOf(e) \in Workers
    BY GeometryType
  <2>3. \A q \in Workers : c[q].finished \subseteq d[q].finished /\ d[q].finished \subseteq c[q].finished \cup {b}
    <3> TAKE q \in Workers
    <3>1. CASE q = w
      BY <3>1, <1>8, <1>9
    <3>2. CASE q # w
      <4>1. d[q] = c[q]
        BY <3>2, <1>8
      <4> QED BY <4>1
    <3> QED BY <3>1, <3>2
  <2>4. CASE e = b
    <3>1. HeadOf(b) \in c[TargetOf(b)].landed /\ HeadOf(b) \in c[TargetOf(b)].received
      BY <1>2, <1>4 DEF Tracked
    <3>2. /\ d[TargetOf(b)].received = c[TargetOf(b)].received
          /\ d[TargetOf(b)].landed = c[TargetOf(b)].landed
      BY <2>2, <2>4, <1>10
    <3>3. r.stage = "decoder" => \E q \in Workers : e \in c[q].finished
      BY <2>1 DEF BlockInv
    <3>4. r.stage = "decoder" => \E q \in Workers : e \in d[q].finished
      BY <2>3, <3>3
    <3>5. e \notin r.unstarted
      BY <2>4, <1>3
    <3> QED BY <2>4, <3>1, <3>2, <3>4, <3>5
  <2>5. CASE e # b
    <3>1. /\ r.stage = "attention" /\ e \in r.unstarted => HeadOf(e) \notin c[TargetOf(e)].received
          /\ Open(c, r, TargetOf(e)) /\ (\E q \in Workers : e \in c[q].finished) =>
                HeadOf(e) \in c[TargetOf(e)].received /\ HeadOf(e) \in c[TargetOf(e)].landed
          /\ r.stage = "decoder" => \E q \in Workers : e \in c[q].finished
      BY <2>1 DEF BlockInv
    <3>2. /\ d[TargetOf(e)].received = c[TargetOf(e)].received
          /\ d[TargetOf(e)].landed = c[TargetOf(e)].landed
          /\ d[TargetOf(e)].consumedEpoch = c[TargetOf(e)].consumedEpoch
      BY <2>2, <1>10
    <3>3. Open(d, r, TargetOf(e)) <=> Open(c, r, TargetOf(e))
      BY <3>2 DEF Open
    <3>4. (\E q \in Workers : e \in d[q].finished) <=> (\E q \in Workers : e \in c[q].finished)
      BY <2>3, <2>5
    <3> QED BY <3>1, <3>2, <3>3, <3>4
  <2> QED BY <2>4, <2>5
<1>22. Inv(d, g, m, o, r)
  BY <1>11, <1>15, <1>16, <1>17, <1>18, <1>19, <1>20, <1>21 DEF Inv
<1> QED BY <1>3, <1>7, <1>22 DEF d

\* receive for a payload: it is queued for landing.
LEMMA DataReceived ==
    ASSUME OwnersBound, NEW c, NEW g, NEW n, NEW o, NEW r, Inv(c, g, n, o, r),
           NEW f \in n, f.kind = "Data", NEW w, w = f.worker,
           NEW x, x = ReceiveData(c[w], w, f)
    PROVE  w \in Workers /\ x \in Core /\ Inv(With(c, w, x), g, n \ {f}, o, r)
<1> DEFINE q == c[w].incoming
           land == [msg |-> f, offset |-> 0]
           d == With(c, w, x)
           m == n \ {f}
           last == Len(q) + 1
           rec == c[w].received \cup {f.head}
<1>1. Typed(c, g, n, o, r) /\ c \in [Workers -> Core] /\ f \in Message
  BY DEF Inv, Typed
<1>2. Wellformed(c, r, f) /\ Tracked(c, f)
  BY DEF Inv, NetInv
<1>3. /\ w \in Workers /\ f.owner \in Workers /\ f.key.block \in Blocks
      /\ r.stage = "attention" /\ f.key.block \notin r.unstarted
      /\ f.key.block = c[f.owner].pv
  <2>1. HoldsBlock(c, r, f)
    BY <1>1, <1>2, HeldBlock
  <2> QED BY <2>1 DEF HoldsBlock
<1>4. /\ f.owner \in Producers /\ f.key.epoch = r.layer /\ f.worker = TargetOf(f.key.block)
      /\ f.head = HeadOf(f.key.block) /\ f.head \notin c[w].received /\ f.head \in Heads
  BY <1>1, <1>2 DEF Wellformed, Tracked, Message
<1>5. c[w] \in Core /\ q \in Seq(Landing)
  BY <1>1, <1>3, EntryTypes
<1>6. ~c[w].leased /\ Open(c, r, w) /\ MemoryInv(c, g, o, r, w)
  BY <1>3 DEF Inv, PhaseInv
<1>7. Len(q) \in Nat /\ Len(q) < QueueBound
  BY <1>3, QueueLengths
<1>8. x = [c[w] EXCEPT !.received = rec, !.incoming = Append(q, land)]
  <2>1. ~(Len(q) >= QueueBound)
    BY <1>7, HandoffAssumption
  <2>2. f.key.epoch = c[w].consumedEpoch + 1
    BY <1>4, <1>6 DEF Open
  <2>3. [c[w] EXCEPT !.received = @ \cup {f.head}, !.incoming = Append(@, [msg |-> f, offset |-> 0])]
          = [c[w] EXCEPT !.received = rec, !.incoming = Append(q, land)]
    BY <1>5 DEF Core
  <2> QED BY <2>1, <2>2, <2>3, <1>4, <1>6 DEF ReceiveData
<1>9. land \in Landing /\ land.msg = f /\ land.offset = 0
  BY <1>1, HandoffAssumption DEF Landing
<1> HIDE DEF land
<1>10. /\ Append(q, land) \in Seq(Landing) /\ Len(Append(q, land)) = Len(q) + 1
       /\ \A i \in 1 .. Len(q) : Append(q, land)[i] = q[i]
       /\ Append(q, land)[Len(q) + 1] = land
  <2>1. Appended(Landing, q, land)
    BY <1>5, <1>9, AppendFacts
  <2> QED BY <2>1 DEF Appended
<1>11. x \in Core
  <2> DEFINE s == Append(q, land)
             y == [c[w] EXCEPT !.received = rec]
  <2>1. rec \in SUBSET Heads
    BY <1>4, <1>5 DEF Core
  <2> HIDE DEF rec
  <2>2. y \in Core
    BY <2>1, <1>5 DEF Core
  <2>3. s \in Seq(Landing)
    BY <1>10
  <2> HIDE DEF s, y
  <2>4. [y EXCEPT !.incoming = s] \in Core
    BY <2>2, <2>3 DEF Core
  <2> QED BY <2>4, <1>8 DEF y, s
<1>12. d \in [Workers -> Core] /\ d[w] = x /\ \A v \in Workers : v # w => d[v] = c[v]
  BY <1>1, <1>3, <1>11 DEF With
<1> HIDE DEF d
<1>13. /\ x.pv = c[w].pv /\ x.pending = c[w].pending /\ x.finished = c[w].finished
       /\ x.outgoing = c[w].outgoing /\ x.incoming = Append(q, land)
       /\ x.received = rec /\ x.landed = c[w].landed
       /\ x.landingPending = c[w].landingPending
       /\ x.consumedEpoch = c[w].consumedEpoch /\ x.leased = c[w].leased /\ x.fault = c[w].fault
  BY <1>5, <1>8 DEF Core
<1>14. \A v \in Workers :
          /\ d[v].outgoing = c[v].outgoing /\ d[v].pv = c[v].pv /\ d[v].pending = c[v].pending
          /\ d[v].finished = c[v].finished /\ d[v].landed = c[v].landed
          /\ d[v].landingPending = c[v].landingPending
          /\ d[v].consumedEpoch = c[v].consumedEpoch /\ d[v].leased = c[v].leased
          /\ d[v].fault = c[v].fault
          /\ d[v].received = IF v = w THEN rec ELSE c[v].received
          /\ v # w => d[v].incoming = c[v].incoming
  <2> TAKE v \in Workers
  <2>1. CASE v = w
    BY <2>1, <1>12, <1>13
  <2>2. CASE v # w
    <3>1. d[v] = c[v]
      BY <2>2, <1>12
    <3> QED BY <2>2, <3>1
  <2> QED BY <2>1, <2>2
<1>15. Typed(d, g, m, o, r)
  BY <1>1, <1>12 DEF Typed
<1>16. /\ \A v \in Workers : OutIx(d, v) = OutIx(c, v)
       /\ \A v \in Workers : \A i : OutAt(d, v, i) = OutAt(c, v, i)
  BY <1>14 DEF OutIx, OutAt
<1>17. \A v \in Workers : \A i \in InIx(d, v) :
          \/ i \in InIx(c, v) /\ InAt(d, v, i) = InAt(c, v, i)
          \/ v = w /\ i = last /\ InAt(d, v, i) = land
  <2>1. ASSUME NEW i \in InIx(d, w)
        PROVE  \/ i \in InIx(c, w) /\ InAt(d, w, i) = InAt(c, w, i)
               \/ i = last /\ InAt(d, w, i) = land
    <3>1. InAt(d, w, i) = Append(q, land)[i] /\ i \in 1 .. Len(q) + 1
      BY <2>1, <1>10, <1>12, <1>13 DEF InIx, InAt
    <3>2. CASE i \in 1 .. Len(q)
      BY <3>1, <3>2, <1>10 DEF InIx, InAt
    <3>3. CASE i = Len(q) + 1
      BY <3>1, <3>3, <1>10
    <3>4. i \in 1 .. Len(q) \/ i = Len(q) + 1
      BY <3>1, <1>7, UpToNext
    <3> QED BY <3>2, <3>3, <3>4
  <2>2. ASSUME NEW v \in Workers, v # w, NEW i \in InIx(d, v)
        PROVE  i \in InIx(c, v) /\ InAt(d, v, i) = InAt(c, v, i)
    BY <2>2, <1>14 DEF InIx, InAt
  <2> QED BY <2>1, <2>2
<1> HIDE DEF last
<1>18. Unique(c, n)
  BY DEF Inv
<1>19. ASSUME NEW y \in Message, y.owner # f.owner, Wellformed(c, r, y)
       PROVE  /\ Wellformed(d, r, y)
              /\ Tracked(c, y) => Tracked(d, y)
  <2>1. y.owner \in Workers /\ y.worker \in Workers
    BY DEF Message
  <2>2. Wellformed(d, r, y)
    BY <2>1, <1>14, <1>19 DEF Wellformed
  <2>3. y.worker = w => y.head # f.head
    BY <1>1, <1>2, <1>19, DistinctHeads
  <2>4. Tracked(c, y) => Tracked(d, y)
    <3>1. d[y.worker].landed = c[y.worker].landed
      BY <2>1, <1>14
    <3>2. CASE y.worker = w
      <4>1. d[w].received = c[w].received \cup {f.head}
        BY <1>3, <1>14
      <4> QED BY <2>3, <3>1, <3>2, <4>1 DEF Tracked
    <3>3. CASE y.worker # w
      <4>1. d[y.worker].received = c[y.worker].received
        BY <2>1, <3>3, <1>14
      <4> QED BY <3>1, <4>1 DEF Tracked
    <3> QED BY <3>2, <3>3
  <2> QED BY <2>2, <2>4
<1>20. OutInv(d, r)
  <2> SUFFICES ASSUME NEW v \in Workers, NEW i \in OutIx(c, v)
               PROVE  OutOk(d, r, v, OutAt(c, v, i))
    BY <1>16 DEF OutInv
  <2>1. OutOk(c, r, v, OutAt(c, v, i)) /\ OutAt(c, v, i) \in Message
    BY <1>1, EntryTypes DEF Inv, OutInv
  <2>2. OutAt(c, v, i).owner # f.owner
    BY <1>18, UniqueWithout
  <2> QED BY <2>1, <2>2, <1>19 DEF OutOk
<1>21. NetInv(d, m, r)
  <2> SUFFICES ASSUME NEW y \in m
               PROVE  Wellformed(d, r, y) /\ Tracked(d, y)
    BY DEF NetInv
  <2>1. y \in Message /\ Wellformed(c, r, y) /\ Tracked(c, y)
    BY <1>1 DEF Inv, NetInv, Typed
  <2>2. y.owner # f.owner
    BY <1>18 DEF Unique
  <2> QED BY <2>1, <2>2, <1>19
<1>22. InInv(d, g, r)
  <2> SUFFICES ASSUME NEW v \in Workers, NEW i \in InIx(d, v)
               PROVE  InOk(d, g, r, v, InAt(d, v, i))
    BY DEF InInv
  <2>1. CASE i \in InIx(c, v) /\ InAt(d, v, i) = InAt(c, v, i)
    <3>1. InOk(c, g, r, v, InAt(c, v, i)) /\ InAt(c, v, i).msg \in Message
      BY <2>1, <1>1, EntryTypes DEF Inv, InInv
    <3>2. InAt(c, v, i).msg.owner # f.owner
      BY <2>1, <1>18, UniqueWithout
    <3>3. Wellformed(d, r, InAt(c, v, i).msg)
      BY <3>1, <3>2, <1>19 DEF InOk
    <3>4. c[v].received \subseteq d[v].received /\ d[v].landed = c[v].landed
      BY <1>14
    <3> QED BY <2>1, <3>1, <3>3, <3>4 DEF InOk
  <2>2. CASE v = w /\ InAt(d, v, i) = land
    <3>1. Wellformed(d, r, f)
      BY <1>2, <1>3, <1>14 DEF Wellformed
    <3>2. f.head \in d[w].received /\ f.head \notin d[w].landed
      BY <1>3, <1>4, <1>6, <1>14, ZenonT(20) DEF MemoryInv
    <3>3. 0 < Chunks /\ 1 .. 0 = {}
      BY HandoffAssumption
    <3> QED BY <2>2, <3>1, <3>2, <3>3, <1>9 DEF InOk
  <2> QED BY <2>1, <2>2, <1>17
<1>23. Unique(d, m)
  <2>0. /\ \A a \in Workers : \A i \in OutIx(c, a) : OutAt(c, a, i).owner # f.owner
        /\ \A a \in Workers : \A i \in InIx(c, a) : InAt(c, a, i).msg.owner # f.owner
        /\ \A y \in m : y.owner # f.owner
    <3>1. /\ \A a \in Workers : \A i \in OutIx(c, a), y \in n : OutAt(c, a, i).owner # y.owner
          /\ \A a \in Workers : \A i \in InIx(c, a), y \in n : InAt(c, a, i).msg.owner # y.owner
          /\ \A y, z \in n : y.owner = z.owner => y = z
      BY <1>18 DEF Unique
    <3> QED BY <3>1
  <2>1. \A a, b \in Workers : \A i \in OutIx(d, a), j \in OutIx(d, b) :
          OutAt(d, a, i).owner = OutAt(d, b, j).owner => a = b /\ i = j
    <3>1. \A a, b \in Workers : \A i \in OutIx(c, a), j \in OutIx(c, b) :
             OutAt(c, a, i).owner = OutAt(c, b, j).owner => a = b /\ i = j
      BY <1>18 DEF Unique
    <3> SUFFICES ASSUME NEW a \in Workers, NEW b \in Workers, NEW i \in OutIx(d, a), NEW j \in OutIx(d, b),
                        OutAt(d, a, i).owner = OutAt(d, b, j).owner
                 PROVE  a = b /\ i = j
      OBVIOUS
    <3>2. i \in OutIx(c, a) /\ j \in OutIx(c, b) /\ OutAt(c, a, i).owner = OutAt(c, b, j).owner
      BY <1>16
    <3> QED BY <3>1, <3>2
  <2>2. \A a, b \in Workers : \A i \in OutIx(d, a), j \in InIx(d, b) :
          OutAt(d, a, i).owner # InAt(d, b, j).msg.owner
    <3>1. \A a, b \in Workers : \A i \in OutIx(c, a), j \in InIx(c, b) :
             OutAt(c, a, i).owner # InAt(c, b, j).msg.owner
      BY <1>18 DEF Unique
    <3> SUFFICES ASSUME NEW a \in Workers, NEW b \in Workers, NEW i \in OutIx(d, a), NEW j \in InIx(d, b)
                 PROVE  OutAt(d, a, i).owner # InAt(d, b, j).msg.owner
      OBVIOUS
    <3>2. i \in OutIx(c, a) /\ OutAt(d, a, i).owner = OutAt(c, a, i).owner
      BY <1>16
    <3>3. CASE j \in InIx(c, b) /\ InAt(d, b, j) = InAt(c, b, j)
      BY <3>1, <3>2, <3>3
    <3>4. CASE InAt(d, b, j).msg = f
      BY <2>0, <3>2, <3>4
    <3> QED BY <3>3, <3>4, <1>9, <1>17
  <2>3. \A a \in Workers : \A i \in OutIx(d, a), y \in m : OutAt(d, a, i).owner # y.owner
    <3>1. \A a \in Workers : \A i \in OutIx(c, a), y \in n : OutAt(c, a, i).owner # y.owner
      BY <1>18 DEF Unique
    <3> SUFFICES ASSUME NEW a \in Workers, NEW i \in OutIx(d, a), NEW y \in m
                 PROVE  OutAt(d, a, i).owner # y.owner
      OBVIOUS
    <3> QED BY <3>1, <1>16
  <2>4. \A y, z \in m : y.owner = z.owner => y = z
    BY <1>18 DEF Unique
  <2>5. \A a \in Workers : \A i \in InIx(d, a), y \in m : InAt(d, a, i).msg.owner # y.owner
    <3>1. \A a \in Workers : \A i \in InIx(c, a), y \in n : InAt(c, a, i).msg.owner # y.owner
      BY <1>18 DEF Unique
    <3> SUFFICES ASSUME NEW a \in Workers, NEW i \in InIx(d, a), NEW y \in m
                 PROVE  InAt(d, a, i).msg.owner # y.owner
      OBVIOUS
    <3>2. CASE i \in InIx(c, a) /\ InAt(d, a, i) = InAt(c, a, i)
      BY <3>1, <3>2
    <3>3. CASE InAt(d, a, i).msg = f
      BY <2>0, <3>3
    <3> QED BY <3>2, <3>3, <1>9, <1>17
  <2>6. \A a, b \in Workers : \A i \in InIx(d, a), j \in InIx(d, b) :
          InAt(d, a, i).msg.owner = InAt(d, b, j).msg.owner => a = b /\ i = j
    <3>1. \A a, b \in Workers : \A i \in InIx(c, a), j \in InIx(c, b) :
             InAt(c, a, i).msg.owner = InAt(c, b, j).msg.owner => a = b /\ i = j
      BY <1>18 DEF Unique
    <3> SUFFICES ASSUME NEW a \in Workers, NEW b \in Workers, NEW i \in InIx(d, a), NEW j \in InIx(d, b),
                        InAt(d, a, i).msg.owner = InAt(d, b, j).msg.owner
                 PROVE  a = b /\ i = j
      OBVIOUS
    <3>2. CASE i \in InIx(c, a) /\ InAt(d, a, i) = InAt(c, a, i) /\ j \in InIx(c, b) /\ InAt(d, b, j) = InAt(c, b, j)
      BY <3>1, <3>2
    <3>3. CASE i \in InIx(c, a) /\ InAt(d, a, i) = InAt(c, a, i) /\ InAt(d, b, j).msg = f
      BY <2>0, <3>3
    <3>4. CASE j \in InIx(c, b) /\ InAt(d, b, j) = InAt(c, b, j) /\ InAt(d, a, i).msg = f
      BY <2>0, <3>4
    <3>5. CASE a = w /\ i = last /\ b = w /\ j = last
      BY <3>5
    <3> QED BY <3>2, <3>3, <3>4, <3>5, <1>9, <1>17
  <2> QED BY <2>1, <2>2, <2>3, <2>4, <2>5, <2>6 DEF Unique
<1>24. PvInv(d, r)
  <2>1. PvInv(c, r)
    BY DEF Inv
  <2>2. \A v \in Workers : d[v].pv = c[v].pv /\ d[v].pending = c[v].pending /\ d[v].finished = c[v].finished
    BY <1>14
  <2> QED BY <2>1, <2>2, SamePv
<1>25. \A v \in Workers : PhaseInv(d, o, r, v)
  <2>1. \A v \in Workers : PhaseInv(c, o, r, v)
    BY DEF Inv
  <2> QED BY <1>14, <2>1, SamePhase
<1>26. ASSUME NEW v \in Workers PROVE MemoryInv(d, g, o, r, v)
  <2>1. MemoryInv(c, g, o, r, v)
    BY DEF Inv
  <2>2. CASE v # w
    <3>1. /\ d[v].received = c[v].received /\ d[v].landed = c[v].landed /\ d[v].fault = c[v].fault
          /\ d[v].consumedEpoch = c[v].consumedEpoch
          /\ d[v].landingPending = c[v].landingPending /\ d[v].incoming = c[v].incoming
      BY <2>2, <1>14
    <3>2. d[v].landingPending => d[v].incoming # <<>>
      BY <2>1, <3>1 DEF MemoryInv
    <3> QED BY <2>1, <3>1, <3>2, SameMemory
  <2>3. CASE v = w
    <3>1. d[w].incoming # <<>>
      <4>1. d[w].incoming = Append(q, land)
        BY <1>12, <1>13
      <4> QED BY <4>1, <1>7, <1>10, AppendNotEmpty
    <3>2. /\ d[w].landed = c[w].landed /\ c[w].received \subseteq d[w].received /\ d[w].fault = c[w].fault
          /\ d[w].consumedEpoch = c[w].consumedEpoch /\ c[w].consumedEpoch + 1 = r.layer
      <4>1. /\ d[w].landed = c[w].landed /\ d[w].received = rec /\ d[w].fault = c[w].fault
            /\ d[w].consumedEpoch = c[w].consumedEpoch
        BY <1>3, <1>14
      <4>2. c[w].consumedEpoch + 1 = r.layer
        BY <1>6 DEF Open
      <4> QED BY <4>1, <4>2
    <3>3. Open(c, r, w) /\ Open(d, r, w)
      BY <3>2 DEF Open
    <3>4. MemoryInv(c, g, o, r, w)
      BY <2>1, <2>3
    <3>5. MemoryInv(d, g, o, r, w)
      BY <3>1, <3>2, <3>3, <3>4 DEF MemoryInv
    <3> QED BY <2>3, <3>5
  <2> QED BY <2>2, <2>3
<1>27. BlockInv(d, r)
  <2>1. BlockInv(c, r)
    BY DEF Inv
  <2>2. ASSUME NEW e \in Blocks, e \in r.unstarted
        PROVE  HeadOf(e) # f.head \/ TargetOf(e) # w
    BY <2>2, <1>3, <1>4, GeometryInjective
  <2>3. \A e \in Blocks : TargetOf(e) \in Workers
    BY GeometryType
  <2> SUFFICES ASSUME NEW e \in Blocks
               PROVE  /\ r.stage = "attention" /\ e \in r.unstarted =>
                            HeadOf(e) \notin d[TargetOf(e)].received
                      /\ Open(d, r, TargetOf(e)) /\ (\E p \in Workers : e \in d[p].finished) =>
                            HeadOf(e) \in d[TargetOf(e)].received /\ HeadOf(e) \in d[TargetOf(e)].landed
                      /\ r.stage = "decoder" => \E p \in Workers : e \in d[p].finished
    BY DEF BlockInv
  <2>4. /\ r.stage = "attention" /\ e \in r.unstarted => HeadOf(e) \notin c[TargetOf(e)].received
        /\ Open(c, r, TargetOf(e)) /\ (\E p \in Workers : e \in c[p].finished) =>
              HeadOf(e) \in c[TargetOf(e)].received /\ HeadOf(e) \in c[TargetOf(e)].landed
        /\ r.stage = "decoder" => \E p \in Workers : e \in c[p].finished
    BY <2>1 DEF BlockInv
  <2>5. /\ d[TargetOf(e)].landed = c[TargetOf(e)].landed
        /\ d[TargetOf(e)].consumedEpoch = c[TargetOf(e)].consumedEpoch
        /\ d[TargetOf(e)].received = IF TargetOf(e) = w THEN rec ELSE c[TargetOf(e)].received
    BY <2>3, <1>14
  <2>6. Open(d, r, TargetOf(e)) <=> Open(c, r, TargetOf(e))
    BY <2>5 DEF Open
  <2>7. (\E p \in Workers : e \in d[p].finished) <=> (\E p \in Workers : e \in c[p].finished)
    <3>1. \A p \in Workers : e \in d[p].finished <=> e \in c[p].finished
      BY <1>14
    <3> QED BY <3>1
  <2>8. /\ c[TargetOf(e)].received \subseteq d[TargetOf(e)].received
        /\ e \in r.unstarted /\ HeadOf(e) \in d[TargetOf(e)].received => HeadOf(e) \in c[TargetOf(e)].received
    BY <2>2, <2>5
  <2> QED BY <2>4, <2>5, <2>6, <2>7, <2>8
<1>28. Inv(d, g, m, o, r)
  BY <1>15, <1>20, <1>21, <1>22, <1>23, <1>24, <1>25, <1>26, <1>27 DEF Inv
<1> QED BY <1>3, <1>11, <1>28 DEF d

-----------------------------------------------------------------------------
(* Landing. *)

\* The write of the next chunk of a landing, and the landing after it.
Put(g, w, h, k, e) == [g EXCEPT ![w][h][k] = e]
Write(g, w, land) == Put(g, w, land.msg.head, land.offset + 1, land.msg.key.epoch)
Step(land)        == [land EXCEPT !.offset = @ + 1]

\* The core after a chunk that is not the last.
ChunkCore(x, cur) == [x EXCEPT !.landingPending = FALSE, !.incoming = <<cur>> \o Tail(@)]

Memory == [Workers -> [Heads -> [1 .. Chunks -> Epochs]]]

\* A write of epoch e keeps the chunks of g that hold e.
Kept(g, z, e) == \A v \in Workers, i \in Heads, j \in 1 .. Chunks : g[v][i][j] = e => z[v][i][j] = e

\* The write of one chunk changes that chunk only.
LEMMA WriteChunk ==
    ASSUME NEW g \in Memory,
           NEW w \in Workers, NEW h \in Heads, NEW k \in 1 .. Chunks, NEW e \in Epochs
    PROVE  /\ Put(g, w, h, k, e) \in Memory
           /\ Put(g, w, h, k, e)[w][h][k] = e
           /\ Kept(g, Put(g, w, h, k, e), e)
<1> DEFINE a == [g[w][h] EXCEPT ![k] = e]
           b == [g[w] EXCEPT ![h] = a]
           z == [g EXCEPT ![w] = b]
<1>1. g[w] \in [Heads -> [1 .. Chunks -> Epochs]] /\ g[w][h] \in [1 .. Chunks -> Epochs]
  BY DEF Memory
<1>2. /\ a \in [1 .. Chunks -> Epochs] /\ a[k] = e
      /\ \A j \in 1 .. Chunks : a[j] = g[w][h][j] \/ a[j] = e
  BY <1>1
<1> HIDE DEF a
<1>3. /\ b \in [Heads -> [1 .. Chunks -> Epochs]] /\ b[h] = a
      /\ \A i \in Heads : i # h => b[i] = g[w][i]
  BY <1>1, <1>2
<1> HIDE DEF b
<1>4. /\ z \in Memory /\ z[w] = b
      /\ \A v \in Workers : v # w => z[v] = g[v]
  BY <1>3 DEF Memory
<1> HIDE DEF z
<1>5. z[w][h][k] = e
  BY <1>2, <1>3, <1>4
<1>6. ASSUME NEW v \in Workers, NEW i \in Heads, NEW j \in 1 .. Chunks, g[v][i][j] = e
      PROVE  z[v][i][j] = e
  <2>1. CASE v # w
    BY <2>1, <1>4, <1>6
  <2>2. CASE v = w /\ i # h
    BY <2>2, <1>3, <1>4, <1>6
  <2>3. CASE v = w /\ i = h
    BY <2>3, <1>2, <1>3, <1>4, <1>6
  <2> QED BY <2>1, <2>2, <2>3
<1>7. z = Put(g, w, h, k, e)
  BY DEF Put, z, b, a
<1>8. Kept(g, z, e)
  BY <1>6 DEF Kept
<1> QED BY <1>4, <1>5, <1>7, <1>8

\* A queue whose front entry is replaced.
LEMMA ReplaceFront ==
    ASSUME NEW S, NEW s \in Seq(S), s # <<>>, NEW x \in S
    PROVE  /\ <<x>> \o Tail(s) \in Seq(S) /\ Len(<<x>> \o Tail(s)) = Len(s)
           /\ (<<x>> \o Tail(s))[1] = x
           /\ \A i \in 2 .. Len(s) : (<<x>> \o Tail(s))[i] = s[i]
<1>1. /\ Len(s) \in Nat \ {0} /\ Tail(s) \in Seq(S) /\ Len(Tail(s)) = Len(s) - 1
      /\ \A i \in 1 .. Len(Tail(s)) : Tail(s)[i] = s[i + 1]
  BY TailFacts
<1>2. <<x>> \in Seq(S) /\ Len(<<x>>) = 1 /\ <<x>>[1] = x
  OBVIOUS
<1>3. /\ <<x>> \o Tail(s) \in Seq(S)
      /\ Len(<<x>> \o Tail(s)) = Len(<<x>>) + Len(Tail(s))
      /\ \A i \in 1 .. Len(<<x>>) + Len(Tail(s)) :
            (<<x>> \o Tail(s))[i] = IF i <= Len(<<x>>) THEN <<x>>[i] ELSE Tail(s)[i - Len(<<x>>)]
  BY <1>1, <1>2
<1>4. ASSUME NEW i \in 2 .. Len(s) PROVE (<<x>> \o Tail(s))[i] = s[i]
  <2>1. i - 1 \in 1 .. Len(Tail(s)) /\ i \in 1 .. 1 + Len(Tail(s)) /\ ~(i <= 1)
    BY <1>1
  <2>2. (<<x>> \o Tail(s))[i] = Tail(s)[i - 1]
    BY <2>1, <1>2, <1>3
  <2>3. Tail(s)[i - 1] = s[(i - 1) + 1]
    BY <2>1, <1>1
  <2> QED BY <2>2, <2>3
<1> QED BY <1>1, <1>2, <1>3, <1>4

\* The chunk that landing land writes next holds e.
NextChunk(z, w, land, e) == z[w][land.msg.head][land.offset + 1] = e

\* The write of the next chunk of a landing.
LEMMA WriteFacts ==
    ASSUME NEW g \in Memory, NEW w \in Workers, NEW land,
           land.msg.head \in Heads, land.offset + 1 \in 1 .. Chunks, land.msg.key.epoch \in Epochs
    PROVE  /\ Write(g, w, land) \in Memory
           /\ Kept(g, Write(g, w, land), land.msg.key.epoch)
           /\ NextChunk(Write(g, w, land), w, land, land.msg.key.epoch)
<1> DEFINE h == land.msg.head
           k == land.offset + 1
           e == land.msg.key.epoch
<1>1. h \in Heads /\ k \in 1 .. Chunks /\ e \in Epochs
  OBVIOUS
<1>2. Write(g, w, land) = Put(g, w, h, k, e)
  BY DEF Write
<1>3. NextChunk(Write(g, w, land), w, land, e) = (Write(g, w, land)[w][h][k] = e)
  BY DEF NextChunk
<1> HIDE DEF h, k, e
<1>4. Put(g, w, h, k, e) \in Memory /\ Put(g, w, h, k, e)[w][h][k] = e /\ Kept(g, Put(g, w, h, k, e), e)
  BY <1>1, WriteChunk
<1> QED BY <1>2, <1>3, <1>4 DEF e

\* The front landing of worker w.
Front(c, w) == Head(c[w].incoming)

\* The landing at the front of the queue of w is about to write its next chunk.
IsFront(c, g, r, w) ==
    /\ 1 \in InIx(c, w) /\ InAt(c, w, 1) = Front(c, w)
    /\ Front(c, w) \in Landing /\ Front(c, w).msg \in Message /\ InOk(c, g, r, w, Front(c, w))
    /\ Front(c, w).offset \in 0 .. Chunks - 1 /\ Front(c, w).offset + 1 \in 1 .. Chunks
    /\ Front(c, w).msg.head \in Heads
    /\ Front(c, w).msg.key.epoch = r.layer /\ Front(c, w).msg.key.epoch \in Epochs

LEMMA FrontLanding ==
    ASSUME NEW c, NEW g, NEW n, NEW o, NEW r, Inv(c, g, n, o, r),
           NEW w \in Workers, c[w].incoming # <<>>
    PROVE  IsFront(c, g, r, w)
<1>1. Typed(c, g, n, o, r) /\ c \in [Workers -> Core]
  BY DEF Inv, Typed
<1>2. c[w].incoming \in Seq(Landing)
  BY <1>1, EntryTypes
<1>3. 1 \in InIx(c, w) /\ InAt(c, w, 1) = Front(c, w)
  BY <1>2, TailFacts DEF InIx, InAt, Front
<1>4. Front(c, w) \in Landing /\ Front(c, w).msg \in Message
  BY <1>1, <1>3, EntryTypes
<1>5. InOk(c, g, r, w, Front(c, w))
  BY <1>3 DEF Inv, InInv
<1>6. Front(c, w).offset \in 0 .. Chunks - 1 /\ Front(c, w).offset + 1 \in 1 .. Chunks
  <2>1. Front(c, w).offset \in 0 .. Chunks
    BY <1>4 DEF Landing
  <2>2. Front(c, w).offset < Chunks /\ Chunks \in Nat
    BY <1>5, HandoffAssumption DEF InOk
  <2> QED BY <2>1, <2>2
<1>7. Front(c, w).msg.head \in Heads /\ Front(c, w).msg.key \in Key /\ Front(c, w).msg.key.epoch = r.layer
  BY <1>4, <1>5 DEF InOk, Wellformed, Message
<1>8. Front(c, w).msg.key.epoch \in Epochs
  BY <1>7 DEF Key
<1> QED BY <1>3, <1>4, <1>5, <1>6, <1>7, <1>8 DEF IsFront

\* A write of this layer's bytes keeps what the memory is known to hold.
LEMMA WriteKeeps ==
    ASSUME NEW c, NEW g, NEW o, NEW r, NEW z, NEW w \in Workers,
           c[w] \in Core, Kept(g, z, r.layer)
    PROVE  /\ MemoryInv(c, g, o, r, w) => MemoryInv(c, z, o, r, w)
           /\ \A land \in Landing : InOk(c, g, r, w, land) => InOk(c, z, r, w, land)
<1>1. c[w].landed \subseteq Heads
  BY DEF Core
<1>2. MemoryInv(c, g, o, r, w) => MemoryInv(c, z, o, r, w)
  BY <1>1 DEF MemoryInv, Kept
<1>3. ASSUME NEW land \in Landing, InOk(c, g, r, w, land)
      PROVE  InOk(c, z, r, w, land)
  <2>1. land.msg.head \in Heads /\ land.offset \in 0 .. Chunks
    BY DEF Landing, Message
  <2>2. \A k \in 1 .. land.offset : k \in 1 .. Chunks
    BY <2>1, HandoffAssumption
  <2>3. \A k \in 1 .. land.offset : z[w][land.msg.head][k] = r.layer
    BY <1>3, <2>1, <2>2 DEF InOk, Kept
  <2> QED BY <1>3, <2>3 DEF InOk
<1> QED BY <1>2, <1>3

\* The local memory writes the next chunk of the front landing.
LEMMA ChunkWritten ==
    ASSUME NEW c, NEW g, NEW n, NEW o, NEW r, Inv(c, g, n, o, r),
           NEW w \in Workers, c[w].incoming # <<>>
    PROVE  /\ Inv(c, Write(g, w, Front(c, w)), n, o, r)
           /\ NextChunk(Write(g, w, Front(c, w)), w, Front(c, w), r.layer)
<1> DEFINE z == Write(g, w, Front(c, w))
<1>1. Typed(c, g, n, o, r) /\ c \in [Workers -> Core] /\ g \in Memory
  BY DEF Inv, Typed, Memory
<1>2. /\ Front(c, w).offset + 1 \in 1 .. Chunks /\ Front(c, w).msg.head \in Heads
      /\ Front(c, w).msg.key.epoch = r.layer /\ Front(c, w).msg.key.epoch \in Epochs
  <2>1. IsFront(c, g, r, w)
    BY FrontLanding
  <2> QED BY <2>1 DEF IsFront
<1>3. z \in Memory /\ Kept(g, z, r.layer) /\ NextChunk(z, w, Front(c, w), r.layer)
  BY <1>1, <1>2, WriteFacts
<1> HIDE DEF z
<1>4. Typed(c, z, n, o, r)
  BY <1>1, <1>3 DEF Typed, Memory
<1>5. InInv(c, z, r)
  <2> SUFFICES ASSUME NEW v \in Workers, NEW i \in InIx(c, v)
               PROVE  InOk(c, z, r, v, InAt(c, v, i))
    BY DEF InInv
  <2>1. InOk(c, g, r, v, InAt(c, v, i)) /\ InAt(c, v, i) \in Landing /\ c[v] \in Core
    BY <1>1, EntryTypes DEF Inv, InInv
  <2> QED BY <2>1, <1>3, WriteKeeps
<1>6. ASSUME NEW v \in Workers PROVE MemoryInv(c, z, o, r, v)
  <2>1. MemoryInv(c, g, o, r, v) /\ c[v] \in Core
    BY <1>1 DEF Inv
  <2> QED BY <2>1, <1>3, WriteKeeps
<1>7. /\ OutInv(c, r) /\ NetInv(c, n, r) /\ Unique(c, n) /\ PvInv(c, r) /\ BlockInv(c, r)
      /\ \A v \in Workers : PhaseInv(c, o, r, v)
  BY DEF Inv
<1>8. Inv(c, z, n, o, r)
  BY <1>4, <1>5, <1>6, <1>7 DEF Inv
<1> QED BY <1>3, <1>8 DEF z

\* The offset of a landing advances by one chunk.
LEMMA StepFacts ==
    ASSUME NEW land \in Landing, land.offset \in 0 .. Chunks - 1
    PROVE  /\ Step(land) \in Landing /\ Step(land).msg = land.msg /\ Step(land).offset = land.offset + 1
<1>1. land.offset + 1 \in 0 .. Chunks
  BY HandoffAssumption
<1>2. Step(land) = [land EXCEPT !.offset = land.offset + 1]
  BY DEF Step
<1> QED BY <1>1, <1>2 DEF Landing

\* The callback of a write that is not the last of its landing.
LEMMA ChunkLanded ==
    ASSUME NEW c, NEW z, NEW n, NEW o, NEW r, Inv(c, z, n, o, r),
           NEW w \in Workers, c[w].incoming # <<>>,
           NextChunk(z, w, Front(c, w), r.layer), Front(c, w).offset + 1 # Chunks
    PROVE  /\ ChunkCore(c[w], Step(Front(c, w))) \in Core
           /\ Inv(With(c, w, ChunkCore(c[w], Step(Front(c, w)))), z, n, o, r)
<1> DEFINE front == Front(c, w)
           cur == Step(front)
           q == c[w].incoming
           s == <<cur>> \o Tail(q)
           x == ChunkCore(c[w], cur)
           d == With(c, w, x)
<1>1. Typed(c, z, n, o, r) /\ c \in [Workers -> Core]
  BY DEF Inv, Typed
<1>2. c[w] \in Core /\ q \in Seq(Landing)
  BY <1>1, EntryTypes
<1>3. /\ 1 \in InIx(c, w) /\ InAt(c, w, 1) = front
      /\ front \in Landing /\ front.msg \in Message /\ InOk(c, z, r, w, front)
      /\ front.offset \in 0 .. Chunks - 1 /\ front.offset + 1 # Chunks
      /\ NextChunk(z, w, front, r.layer)
  <2>1. IsFront(c, z, r, w)
    BY FrontLanding
  <2> QED BY <2>1 DEF IsFront
<1> HIDE DEF front
<1>4. cur \in Landing /\ cur.msg = front.msg /\ cur.offset = front.offset + 1
  BY <1>3, StepFacts
<1> HIDE DEF cur
<1>5. s \in Seq(Landing) /\ Len(s) = Len(q) /\ s[1] = cur /\ \A i \in 2 .. Len(q) : s[i] = q[i]
  BY <1>2, <1>4, ReplaceFront
<1>6. Len(q) \in Nat \ {0}
  BY <1>2, TailFacts
<1>7. x = [c[w] EXCEPT !.landingPending = FALSE, !.incoming = s]
  BY <1>2 DEF ChunkCore, Core
<1> HIDE DEF s, x
<1>8. x \in Core
  BY <1>2, <1>5, <1>7 DEF Core
<1>9. d \in [Workers -> Core] /\ d[w] = x /\ \A v \in Workers : v # w => d[v] = c[v]
  BY <1>1, <1>8 DEF With
<1> HIDE DEF d
<1>10. /\ x.outgoing = c[w].outgoing /\ x.incoming = s /\ x.landingPending = FALSE
       /\ x.pv = c[w].pv /\ x.pending = c[w].pending /\ x.finished = c[w].finished
       /\ x.received = c[w].received /\ x.landed = c[w].landed
       /\ x.consumedEpoch = c[w].consumedEpoch /\ x.leased = c[w].leased /\ x.fault = c[w].fault
  BY <1>2, <1>7 DEF Core
<1>11. Same(c, d)
  BY <1>9, <1>10 DEF Same
<1>12. Typed(d, z, n, o, r)
  BY <1>1, <1>9 DEF Typed
<1>13. /\ \A v \in Workers : OutIx(d, v) = OutIx(c, v)
       /\ \A v \in Workers : \A i : OutAt(d, v, i) = OutAt(c, v, i)
  BY <1>9, <1>10 DEF OutIx, OutAt
<1>14. \A v \in Workers : InIx(d, v) = InIx(c, v)
  BY <1>5, <1>9, <1>10 DEF InIx
<1>15. \A v \in Workers : \A i \in InIx(c, v) :
          \/ InAt(d, v, i) = InAt(c, v, i)
          \/ v = w /\ i = 1 /\ InAt(d, v, i) = cur
  <2>1. ASSUME NEW i \in InIx(c, w)
        PROVE  InAt(d, w, i) = InAt(c, w, i) \/ (i = 1 /\ InAt(d, w, i) = cur)
    <3>1. i = 1 \/ i \in 2 .. Len(q)
      BY <2>1, <1>6 DEF InIx
    <3>2. InAt(d, w, i) = s[i] /\ InAt(c, w, i) = q[i]
      BY <1>9, <1>10 DEF InAt
    <3> HIDE DEF q
    <3> QED BY <3>1, <3>2, <1>5
  <2>2. ASSUME NEW v \in Workers, v # w, NEW i \in InIx(c, v)
        PROVE  InAt(d, v, i) = InAt(c, v, i)
    BY <2>2, <1>9 DEF InAt
  <2> QED BY <2>1, <2>2
<1>16. \A v \in Workers : \A i \in InIx(c, v) : InAt(d, v, i).msg = InAt(c, v, i).msg
  BY <1>3, <1>4, <1>15
<1>17. OutInv(d, r)
  <2> SUFFICES ASSUME NEW v \in Workers, NEW i \in OutIx(c, v)
               PROVE  OutOk(d, r, v, OutAt(c, v, i))
    BY <1>13 DEF OutInv
  <2>1. OutOk(c, r, v, OutAt(c, v, i)) /\ OutAt(c, v, i) \in Message
    BY <1>1, EntryTypes DEF Inv, OutInv
  <2> QED BY <2>1, <1>11, SameEntries
<1>18. NetInv(d, n, r)
  BY <1>1, <1>11, SameMessages DEF Inv, NetInv, Typed
<1>19. InInv(d, z, r)
  <2> SUFFICES ASSUME NEW v \in Workers, NEW i \in InIx(c, v)
               PROVE  InOk(d, z, r, v, InAt(d, v, i))
    BY <1>14 DEF InInv
  <2>1. CASE InAt(d, v, i) = InAt(c, v, i)
    <3>1. InOk(c, z, r, v, InAt(c, v, i)) /\ InAt(c, v, i) \in Landing
      BY <1>1, EntryTypes DEF Inv, InInv
    <3> QED BY <2>1, <3>1, <1>11, SameEntries
  <2>2. CASE v = w /\ InAt(d, v, i) = cur
    <3>1. InOk(d, z, r, w, front)
      BY <1>3, <1>11, SameEntries
    <3>2. cur.offset < Chunks
      BY <1>3, <1>4, HandoffAssumption
    <3>3. \A k \in 1 .. cur.offset : k \in 1 .. front.offset \/ k = front.offset + 1
      BY <1>3, <1>4, HandoffAssumption
    <3>4. \A k \in 1 .. cur.offset : z[w][front.msg.head][k] = r.layer
      BY <3>1, <3>3, <1>3 DEF InOk, NextChunk
    <3>5. InOk(d, z, r, w, cur)
      BY <3>1, <3>2, <3>4, <1>4 DEF InOk
    <3> QED BY <2>2, <3>5
  <2> QED BY <2>1, <2>2, <1>15
<1>20. Unique(d, n)
  <2>1. Unique(c, n)
    BY DEF Inv
  <2> QED BY <2>1, <1>13, <1>14, <1>16, UniqueSameOwners
<1>21. \A v \in Workers : d[v].landingPending => d[v].incoming # <<>>
  <2>1. \A v \in Workers : c[v].landingPending => c[v].incoming # <<>>
    BY DEF Inv, MemoryInv
  <2> QED BY <2>1, <1>9, <1>10
<1>22. PvInv(d, r) /\ BlockInv(d, r) /\ \A v \in Workers : PhaseInv(d, o, r, v) /\ MemoryInv(d, z, o, r, v)
  BY <1>11, <1>21, SameRest
<1>23. Inv(d, z, n, o, r)
  BY <1>12, <1>17, <1>18, <1>19, <1>20, <1>22 DEF Inv
<1> QED BY <1>8, <1>23 DEF d, x, cur, front

\* The core after the last chunk, and the acknowledgement of its landing.
LastCore(x, h) == [x EXCEPT !.landingPending = FALSE, !.landed = @ \cup {h}, !.incoming = Tail(@)]
AckOf(msg, w)  == [msg EXCEPT !.kind = "Ack", !.worker = w]

\* The fields of an acknowledgement.
LEMMA AckFacts ==
    ASSUME NEW msg \in Message, NEW w \in Workers
    PROVE  /\ AckOf(msg, w) \in Message /\ AckOf(msg, w).kind = "Ack" /\ AckOf(msg, w).worker = w
           /\ AckOf(msg, w).owner = msg.owner /\ AckOf(msg, w).head = msg.head /\ AckOf(msg, w).key = msg.key
BY DEF AckOf, Message

\* The last chunk publishes the head: the landing is replaced by its ACK.
LEMMA LastLanded ==
    ASSUME NEW c, NEW z, NEW n, NEW o, NEW r, Inv(c, z, n, o, r),
           NEW w \in Workers, c[w].incoming # <<>>,
           NextChunk(z, w, Front(c, w), r.layer), Front(c, w).offset + 1 = Chunks
    PROVE  /\ LastCore(c[w], Front(c, w).msg.head) \in Core
           /\ AckOf(Front(c, w).msg, w) \in Message /\ AckOf(Front(c, w).msg, w) \notin n
           /\ AckOf(Front(c, w).msg, w).kind = "Ack" /\ AckOf(Front(c, w).msg, w).worker = w
           /\ Inv(With(c, w, LastCore(c[w], Front(c, w).msg.head)), z,
                  n \cup {AckOf(Front(c, w).msg, w)}, o, r)
<1> DEFINE front == Front(c, w)
           h == front.msg.head
           ack == AckOf(front.msg, w)
           q == c[w].incoming
           x == LastCore(c[w], h)
           d == With(c, w, x)
           m == n \cup {ack}
           land == c[w].landed \cup {h}
           sh(v, i) == IF v = w THEN i + 1 ELSE i
<1>1. Typed(c, z, n, o, r) /\ c \in [Workers -> Core]
  BY DEF Inv, Typed
<1>2. c[w] \in Core /\ q \in Seq(Landing) /\ q # <<>>
  BY <1>1, EntryTypes
<1>3. /\ 1 \in InIx(c, w) /\ InAt(c, w, 1) = front
      /\ front \in Landing /\ front.msg \in Message /\ InOk(c, z, r, w, front)
      /\ front.offset \in 0 .. Chunks - 1 /\ front.offset + 1 = Chunks /\ h \in Heads
      /\ NextChunk(z, w, front, r.layer)
  <2>1. IsFront(c, z, r, w)
    BY FrontLanding
  <2> QED BY <2>1 DEF IsFront
<1> HIDE DEF front
<1>4. /\ ack \in Message /\ ack.kind = "Ack" /\ ack.worker = w
      /\ ack.owner = front.msg.owner /\ ack.head = h /\ ack.key = front.msg.key
  BY <1>3, AckFacts
<1>5. Wellformed(c, r, front.msg) /\ front.msg.worker = w /\ h \in c[w].received /\ h \notin c[w].landed
  BY <1>3 DEF InOk
<1>6. \A k \in 1 .. Chunks : z[w][h][k] = r.layer
  <2>1. \A k \in 1 .. Chunks : k \in 1 .. front.offset \/ k = front.offset + 1
    <3>1. front.offset \in Nat /\ Chunks = front.offset + 1
      BY <1>3, HandoffAssumption
    <3> QED BY <3>1, UpToNext
  <2> QED BY <2>1, <1>3 DEF InOk, NextChunk
<1> HIDE DEF h, ack
<1>7. /\ Len(q) \in Nat \ {0} /\ Tail(q) \in Seq(Landing) /\ Len(Tail(q)) = Len(q) - 1
      /\ \A i \in 1 .. Len(Tail(q)) : i + 1 \in 1 .. Len(q) /\ Tail(q)[i] = q[i + 1]
  BY <1>2, TailFacts
<1>8. land \in SUBSET Heads
  BY <1>2, <1>3 DEF Core
<1>9. x = [c[w] EXCEPT !.landingPending = FALSE, !.landed = land, !.incoming = Tail(q)]
  BY <1>2 DEF LastCore, Core
<1> HIDE DEF x, land
<1>10. x \in Core
  BY <1>2, <1>7, <1>8, <1>9 DEF Core
<1>11. d \in [Workers -> Core] /\ d[w] = x /\ \A v \in Workers : v # w => d[v] = c[v]
  BY <1>1, <1>10 DEF With
<1> HIDE DEF d
<1>12. /\ x.outgoing = c[w].outgoing /\ x.incoming = Tail(q) /\ x.landingPending = FALSE
       /\ x.pv = c[w].pv /\ x.pending = c[w].pending /\ x.finished = c[w].finished
       /\ x.received = c[w].received /\ x.landed = land
       /\ x.consumedEpoch = c[w].consumedEpoch /\ x.leased = c[w].leased /\ x.fault = c[w].fault
  BY <1>2, <1>9 DEF Core
<1>13. land = c[w].landed \cup {h}
  BY DEF land
<1>14. \A v \in Workers :
          /\ d[v].outgoing = c[v].outgoing
          /\ d[v].pv = c[v].pv /\ d[v].pending = c[v].pending /\ d[v].finished = c[v].finished
          /\ d[v].received = c[v].received /\ c[v].landed \subseteq d[v].landed
          /\ d[v].consumedEpoch = c[v].consumedEpoch /\ d[v].leased = c[v].leased /\ d[v].fault = c[v].fault
  BY <1>11, <1>12, <1>13
<1>15. Typed(d, z, m, o, r)
  BY <1>1, <1>4, <1>11 DEF Typed
<1>16. ASSUME NEW y \in Message
       PROVE  /\ Wellformed(c, r, y) => Wellformed(d, r, y)
              /\ Tracked(c, y) => Tracked(d, y)
  <2>1. y.owner \in Workers /\ y.worker \in Workers
    BY DEF Message
  <2> QED BY <2>1, <1>14 DEF Wellformed, Tracked
<1>17. /\ \A v \in Workers : OutIx(d, v) = OutIx(c, v)
       /\ \A v \in Workers : \A i : OutAt(d, v, i) = OutAt(c, v, i)
  BY <1>14 DEF OutIx, OutAt
<1>18. \A v \in Workers : \A i \in InIx(d, v) :
             sh(v, i) \in InIx(c, v) /\ InAt(d, v, i) = InAt(c, v, sh(v, i))
  <2>1. ASSUME NEW i \in InIx(d, w)
        PROVE  i + 1 \in InIx(c, w) /\ InAt(d, w, i) = InAt(c, w, i + 1)
    <3>1. i \in 1 .. Len(Tail(q)) /\ InAt(d, w, i) = Tail(q)[i]
      BY <2>1, <1>11, <1>12 DEF InIx, InAt
    <3> QED BY <3>1, <1>7 DEF InIx, InAt
  <2>2. ASSUME NEW v \in Workers, v # w, NEW i \in InIx(d, v)
        PROVE  i \in InIx(c, v) /\ InAt(d, v, i) = InAt(c, v, i)
    BY <2>2, <1>11 DEF InIx, InAt
  <2> QED BY <2>1, <2>2
<1>19. /\ \A v \in Workers : \A i, j \in InIx(d, v) : sh(v, i) = sh(v, j) => i = j
       /\ \A i \in InIx(d, w) : sh(w, i) # 1
  BY DEF InIx
<1> HIDE DEF sh, q
<1>20. Unique(c, n)
  BY DEF Inv
<1>21. /\ \A v \in Workers : \A i \in InIx(d, v) : InAt(d, v, i).msg.owner # ack.owner
       /\ \A v \in Workers : \A i \in OutIx(d, v) : OutAt(d, v, i).owner # ack.owner
       /\ \A y \in n : y.owner # ack.owner
  <2>1. /\ \A a \in Workers : \A i \in InIx(c, a) : InAt(c, a, i).msg.owner = front.msg.owner => a = w /\ i = 1
        /\ \A a \in Workers : \A i \in OutIx(c, a) : OutAt(c, a, i).owner # front.msg.owner
        /\ \A y \in n : y.owner # front.msg.owner
    <3>1. /\ \A a, b \in Workers : \A i \in InIx(c, a), j \in InIx(c, b) :
                InAt(c, a, i).msg.owner = InAt(c, b, j).msg.owner => a = b /\ i = j
          /\ \A a, b \in Workers : \A i \in OutIx(c, a), j \in InIx(c, b) :
                OutAt(c, a, i).owner # InAt(c, b, j).msg.owner
          /\ \A a \in Workers : \A i \in InIx(c, a), y \in n : InAt(c, a, i).msg.owner # y.owner
      BY <1>20 DEF Unique
    <3>2. 1 \in InIx(c, w)
      BY <1>3
    <3>3. InAt(c, w, 1).msg.owner = front.msg.owner
      BY <1>3
    <3>4. ASSUME NEW a \in Workers, NEW i \in InIx(c, a), InAt(c, a, i).msg.owner = front.msg.owner
          PROVE  a = w /\ i = 1
      <4>1. InAt(c, a, i).msg.owner = InAt(c, w, 1).msg.owner
        BY <3>3, <3>4
      <4> QED BY <3>1, <3>2, <4>1
    <3>5. ASSUME NEW a \in Workers, NEW i \in OutIx(c, a) PROVE OutAt(c, a, i).owner # front.msg.owner
      <4>1. OutAt(c, a, i).owner # InAt(c, w, 1).msg.owner
        BY <3>1, <3>2
      <4> QED BY <3>3, <4>1
    <3>6. ASSUME NEW y \in n PROVE y.owner # front.msg.owner
      <4>1. InAt(c, w, 1).msg.owner # y.owner
        BY <3>1, <3>2
      <4> QED BY <3>3, <4>1
    <3> QED BY <3>4, <3>5, <3>6
  <2>2. ASSUME NEW v \in Workers, NEW i \in InIx(d, v) PROVE InAt(d, v, i).msg.owner # ack.owner
    <3>1. ~(v = w /\ sh(v, i) = 1)
      BY <1>19
    <3> QED BY <2>1, <3>1, <1>4, <1>18
  <2>3. ASSUME NEW v \in Workers, NEW i \in OutIx(d, v) PROVE OutAt(d, v, i).owner # ack.owner
    BY <2>1, <1>4, <1>17
  <2> QED BY <2>1, <2>2, <2>3, <1>4
<1>22. OutInv(d, r)
  <2> SUFFICES ASSUME NEW v \in Workers, NEW i \in OutIx(c, v)
               PROVE  OutOk(d, r, v, OutAt(c, v, i))
    BY <1>17 DEF OutInv
  <2>1. OutOk(c, r, v, OutAt(c, v, i)) /\ OutAt(c, v, i) \in Message
    BY <1>1, EntryTypes DEF Inv, OutInv
  <2> QED BY <2>1, <1>16 DEF OutOk
<1>23. NetInv(d, m, r)
  <2>1. \A y \in n : Wellformed(d, r, y) /\ Tracked(d, y)
    BY <1>1, <1>16 DEF Inv, NetInv, Typed
  <2>2. Wellformed(d, r, front.msg)
    BY <1>3, <1>5, <1>16
  <2>3. Wellformed(d, r, ack)
    BY <2>2, <1>4, <1>5 DEF Wellformed, h
  <2>4. h \in d[w].landed /\ h \in d[w].received
    BY <1>5, <1>11, <1>12, <1>13
  <2>5. Tracked(d, ack)
    BY <2>4, <1>4 DEF Tracked
  <2> QED BY <2>1, <2>3, <2>5 DEF NetInv
<1>24. InInv(d, z, r)
  <2> SUFFICES ASSUME NEW v \in Workers, NEW i \in InIx(d, v)
               PROVE  InOk(d, z, r, v, InAt(d, v, i))
    BY DEF InInv
  <2> DEFINE l == InAt(d, v, i)
  <2>1. InOk(c, z, r, v, l) /\ l \in Landing /\ l.msg \in Message
    BY <1>1, <1>18, EntryTypes DEF Inv, InInv
  <2>2. l.msg.owner # front.msg.owner
    BY <1>4, <1>21
  <2> HIDE DEF l
  <2>3. Wellformed(c, r, l.msg) /\ l.msg.worker = v /\ l.msg.head \notin c[v].landed
    BY <2>1 DEF InOk
  <2>4. v = w => l.msg.head # h
    BY <2>1, <2>2, <2>3, <1>3, <1>5, DistinctHeads DEF h
  <2>5. l.msg.head \notin d[v].landed
    BY <2>3, <2>4, <1>11, <1>12, <1>13
  <2>6. Wellformed(d, r, l.msg)
    BY <2>1, <2>3, <1>16
  <2>7. InOk(d, z, r, v, l)
    BY <2>1, <2>5, <2>6, <1>14 DEF InOk
  <2> QED BY <2>7 DEF l
<1>25. Unique(d, m)
  <2>1. \A a, b \in Workers : \A i \in InIx(d, a), j \in InIx(d, b) :
          InAt(d, a, i).msg.owner = InAt(d, b, j).msg.owner => a = b /\ i = j
    <3>1. \A a, b \in Workers : \A i \in InIx(c, a), j \in InIx(c, b) :
             InAt(c, a, i).msg.owner = InAt(c, b, j).msg.owner => a = b /\ i = j
      BY <1>20 DEF Unique
    <3> SUFFICES ASSUME NEW a \in Workers, NEW b \in Workers, NEW i \in InIx(d, a), NEW j \in InIx(d, b),
                        InAt(d, a, i).msg.owner = InAt(d, b, j).msg.owner
                 PROVE  a = b /\ i = j
      OBVIOUS
    <3>2. /\ sh(a, i) \in InIx(c, a) /\ InAt(d, a, i) = InAt(c, a, sh(a, i))
          /\ sh(b, j) \in InIx(c, b) /\ InAt(d, b, j) = InAt(c, b, sh(b, j))
      BY <1>18
    <3>3. a = b /\ sh(a, i) = sh(b, j)
      BY <3>1, <3>2
    <3> QED BY <3>3, <1>19
  <2>2. \A a, b \in Workers : \A i \in OutIx(d, a), j \in InIx(d, b) :
          OutAt(d, a, i).owner # InAt(d, b, j).msg.owner
    <3>1. \A a, b \in Workers : \A i \in OutIx(c, a), j \in InIx(c, b) :
             OutAt(c, a, i).owner # InAt(c, b, j).msg.owner
      BY <1>20 DEF Unique
    <3> SUFFICES ASSUME NEW a \in Workers, NEW b \in Workers, NEW i \in OutIx(d, a), NEW j \in InIx(d, b)
                 PROVE  OutAt(d, a, i).owner # InAt(d, b, j).msg.owner
      OBVIOUS
    <3>2. /\ i \in OutIx(c, a) /\ OutAt(d, a, i) = OutAt(c, a, i)
          /\ sh(b, j) \in InIx(c, b) /\ InAt(d, b, j) = InAt(c, b, sh(b, j))
      BY <1>17, <1>18
    <3> QED BY <3>1, <3>2
  <2>3. \A a \in Workers : \A i \in InIx(d, a), y \in m : InAt(d, a, i).msg.owner # y.owner
    <3>1. \A a \in Workers : \A i \in InIx(c, a), y \in n : InAt(c, a, i).msg.owner # y.owner
      BY <1>20 DEF Unique
    <3> SUFFICES ASSUME NEW a \in Workers, NEW i \in InIx(d, a), NEW y \in m
                 PROVE  InAt(d, a, i).msg.owner # y.owner
      OBVIOUS
    <3>2. sh(a, i) \in InIx(c, a) /\ InAt(d, a, i) = InAt(c, a, sh(a, i)) /\ InAt(d, a, i).msg.owner # ack.owner
      BY <1>18, <1>21
    <3> QED BY <3>1, <3>2
  <2>4. \A a \in Workers : \A i \in OutIx(d, a), y \in m : OutAt(d, a, i).owner # y.owner
    <3>1. \A a \in Workers : \A i \in OutIx(c, a), y \in n : OutAt(c, a, i).owner # y.owner
      BY <1>20 DEF Unique
    <3> SUFFICES ASSUME NEW a \in Workers, NEW i \in OutIx(d, a), NEW y \in m
                 PROVE  OutAt(d, a, i).owner # y.owner
      OBVIOUS
    <3>2. i \in OutIx(c, a) /\ OutAt(d, a, i) = OutAt(c, a, i) /\ OutAt(d, a, i).owner # ack.owner
      BY <1>17, <1>21
    <3> QED BY <3>1, <3>2
  <2>5. \A y, u \in m : y.owner = u.owner => y = u
    <3>1. \A y, u \in n : y.owner = u.owner => y = u
      BY <1>20 DEF Unique
    <3> QED BY <3>1, <1>21
  <2>6. \A a, b \in Workers : \A i \in OutIx(d, a), j \in OutIx(d, b) :
          OutAt(d, a, i).owner = OutAt(d, b, j).owner => a = b /\ i = j
    <3>1. \A a, b \in Workers : \A i \in OutIx(c, a), j \in OutIx(c, b) :
             OutAt(c, a, i).owner = OutAt(c, b, j).owner => a = b /\ i = j
      BY <1>20 DEF Unique
    <3> SUFFICES ASSUME NEW a \in Workers, NEW b \in Workers, NEW i \in OutIx(d, a), NEW j \in OutIx(d, b),
                        OutAt(d, a, i).owner = OutAt(d, b, j).owner
                 PROVE  a = b /\ i = j
      OBVIOUS
    <3>2. /\ i \in OutIx(c, a) /\ OutAt(d, a, i) = OutAt(c, a, i)
          /\ j \in OutIx(c, b) /\ OutAt(d, b, j) = OutAt(c, b, j)
      BY <1>17
    <3>3. OutAt(c, a, i).owner = OutAt(c, b, j).owner
      BY <3>2
    <3>4. i \in OutIx(c, a) /\ j \in OutIx(c, b)
      BY <3>2
    <3> QED BY <3>1, <3>3, <3>4
  <2> QED BY <2>1, <2>2, <2>3, <2>4, <2>5, <2>6 DEF Unique
<1>26. PvInv(d, r)
  <2>1. PvInv(c, r)
    BY DEF Inv
  <2>2. \A v \in Workers : d[v].pv = c[v].pv /\ d[v].pending = c[v].pending /\ d[v].finished = c[v].finished
    BY <1>14
  <2> QED BY <2>1, <2>2, SamePv
<1>27. BlockInv(d, r)
  <2>1. BlockInv(c, r)
    BY DEF Inv
  <2>2. \A v \in Workers : /\ d[v].received = c[v].received /\ c[v].landed \subseteq d[v].landed
                           /\ d[v].consumedEpoch = c[v].consumedEpoch
                           /\ d[v].finished = c[v].finished
    BY <1>14
  <2> QED BY <2>1, <2>2, SameBlock
<1>28. ASSUME NEW v \in Workers PROVE PhaseInv(d, o, r, v)
  <2>1. PhaseInv(c, o, r, v)
    BY DEF Inv
  <2> QED BY <2>1, <1>14, SamePhase
<1>29. ASSUME NEW v \in Workers PROVE MemoryInv(d, z, o, r, v)
  <2>1. MemoryInv(c, z, o, r, v)
    BY DEF Inv
  <2>2. CASE v # w
    BY <2>1, <2>2, <1>11 DEF MemoryInv, Open
  <2>3. CASE v = w
    <3>1. Open(c, r, w) /\ Open(d, r, w)
      BY <2>1, <2>3, <1>5, <1>14 DEF MemoryInv, Open
    <3>2. d[w].landed \subseteq d[w].received
      <4>1. d[w].landed = c[w].landed \cup {h} /\ d[w].received = c[w].received
        BY <1>11, <1>12, <1>13
      <4>2. c[w].landed \subseteq c[w].received
        BY <2>1, <2>3 DEF MemoryInv
      <4> QED BY <4>1, <4>2, <1>5
    <3>3. \A e \in d[w].landed : \A k \in 1 .. Chunks : z[w][e][k] = r.layer
      BY <2>1, <2>3, <3>1, <1>6, <1>11, <1>12, <1>13 DEF MemoryInv
    <3>4. ~d[w].landingPending /\ ~d[w].fault
      BY <2>1, <2>3, <1>11, <1>12 DEF MemoryInv
    <3> QED BY <2>1, <2>3, <3>1, <3>2, <3>3, <3>4 DEF MemoryInv
  <2> QED BY <2>2, <2>3
<1>30. Inv(d, z, m, o, r)
  BY <1>15, <1>22, <1>23, <1>24, <1>25, <1>26, <1>27, <1>28, <1>29 DEF Inv
<1>31. ack \notin n
  BY <1>21
<1> QED BY <1>4, <1>10, <1>30, <1>31 DEF d, x, h, ack, front

-----------------------------------------------------------------------------
(* Composing moves on one core. *)

\* Two steps on the same core are one.
LEMMA WithWith ==
    ASSUME NEW c \in [Workers -> Core], NEW w \in Workers, NEW x \in Core, NEW y \in Core
    PROVE  /\ With(With(c, w, x), w, y) = With(c, w, y)
           /\ With(c, w, x)[w] = x
           /\ With(c, w, c[w]) = c
BY DEF With

\* Only landingPending of worker w changes, and it has a landing.
LEMMA PendingSet ==
    ASSUME NEW c, NEW g, NEW n, NEW o, NEW r, Inv(c, g, n, o, r),
           NEW w \in Workers, c[w].incoming # <<>>, NEW b \in BOOLEAN
    PROVE  Inv(With(c, w, [c[w] EXCEPT !.landingPending = b]), g, n, o, r)
<1> DEFINE x == [c[w] EXCEPT !.landingPending = b]
           d == With(c, w, x)
<1>1. Typed(c, g, n, o, r) /\ c \in [Workers -> Core] /\ c[w] \in Core
  BY DEF Inv, Typed
<1>2. x \in Core
  BY <1>1 DEF Core
<1>3. /\ x.outgoing = c[w].outgoing /\ x.incoming = c[w].incoming
      /\ x.pv = c[w].pv /\ x.pending = c[w].pending /\ x.finished = c[w].finished
      /\ x.received = c[w].received /\ x.landed = c[w].landed
      /\ x.consumedEpoch = c[w].consumedEpoch /\ x.leased = c[w].leased /\ x.fault = c[w].fault
  BY <1>1 DEF Core
<1> HIDE DEF x
<1>4. d \in [Workers -> Core] /\ d[w] = x /\ \A v \in Workers : v # w => d[v] = c[v]
  BY <1>1, <1>2 DEF With
<1> HIDE DEF d
<1>5. Same(c, d)
  BY <1>3, <1>4 DEF Same
<1>6. \A v \in Workers : d[v].outgoing = c[v].outgoing /\ d[v].incoming = c[v].incoming
  BY <1>3, <1>4
<1>7. \A v \in Workers : d[v].landingPending => d[v].incoming # <<>>
  <2>1. \A v \in Workers : c[v].landingPending => c[v].incoming # <<>>
    BY DEF Inv, MemoryInv
  <2> QED BY <2>1, <1>3, <1>4
<1>8. /\ \A v \in Workers : OutIx(d, v) = OutIx(c, v) /\ InIx(d, v) = InIx(c, v)
      /\ \A v \in Workers : \A i : OutAt(d, v, i) = OutAt(c, v, i) /\ InAt(d, v, i) = InAt(c, v, i)
  BY <1>6 DEF OutIx, InIx, OutAt, InAt
<1>9. OutInv(d, r)
  BY <1>1, <1>5, <1>8, SameEntries, EntryTypes DEF Inv, OutInv
<1>10. InInv(d, g, r)
  BY <1>1, <1>5, <1>8, SameEntries, EntryTypes DEF Inv, InInv
<1>11. NetInv(d, n, r)
  BY <1>1, <1>5, SameMessages DEF Inv, NetInv, Typed
<1>12. Unique(d, n)
  <2>1. Unique(c, n) /\ SameQueues(c, d)
    BY <1>6 DEF Inv, SameQueues
  <2> QED BY <2>1, UniqueSame
<1>13. PvInv(d, r) /\ BlockInv(d, r) /\ \A v \in Workers : PhaseInv(d, o, r, v) /\ MemoryInv(d, g, o, r, v)
  BY <1>5, <1>7, SameRest
<1>14. Typed(d, g, n, o, r)
  BY <1>1, <1>4 DEF Typed
<1>15. Inv(d, g, n, o, r)
  BY <1>9, <1>10, <1>11, <1>12, <1>13, <1>14 DEF Inv
<1> QED BY <1>15 DEF d, x

\* receive: a message out of the network is handled at its destination.
LEMMA Received ==
    ASSUME OwnersBound, NEW c, NEW g, NEW n, NEW o, NEW r, Inv(c, g, n, o, r), NEW f \in n
    PROVE  /\ Dest(f) \in Workers
           /\ Receive(c[Dest(f)], Dest(f), f) \in Core
           /\ Inv(With(c, Dest(f), Receive(c[Dest(f)], Dest(f), f)), g, n \ {f}, o, r)
<1>1. f.kind = "Data" \/ f.kind = "Ack"
  BY DEF Inv, Typed, Message
<1>2. CASE f.kind = "Ack"
  <2>1. Dest(f) = f.owner
    BY <1>2 DEF Dest
  <2>2. Receive(c[f.owner], f.owner, f) = ReceiveAck(c[f.owner], f.owner, f)
    BY <1>2 DEF Receive
  <2>3. /\ f.owner \in Workers /\ ReceiveAck(c[f.owner], f.owner, f) \in Core
        /\ Inv(With(c, f.owner, ReceiveAck(c[f.owner], f.owner, f)), g, n \ {f}, o, r)
    BY <1>2, AckReceived
  <2> QED BY <2>1, <2>2, <2>3
<1>3. CASE f.kind = "Data"
  <2>1. Dest(f) = f.worker
    BY <1>3 DEF Dest
  <2>2. Receive(c[f.worker], f.worker, f) = ReceiveData(c[f.worker], f.worker, f)
    BY <1>3 DEF Receive
  <2>3. /\ f.worker \in Workers /\ ReceiveData(c[f.worker], f.worker, f) \in Core
        /\ Inv(With(c, f.worker, ReceiveData(c[f.worker], f.worker, f)), g, n \ {f}, o, r)
    BY <1>3, DataReceived
  <2> QED BY <2>1, <2>2, <2>3
<1> QED BY <1>1, <1>2, <1>3

\* pumpOutgoing, with or without a message in the queue.
LEMMA Pumped ==
    ASSUME OwnersBound, NEW c, NEW g, NEW n, NEW o, NEW r, Inv(c, g, n, o, r), NEW w \in Workers
    PROVE  /\ PumpOutgoing(c[w], w) \in Core
           /\ Inv(With(c, w, PumpOutgoing(c[w], w)), g, n \cup PumpedMessages(c[w], w), o, r)
<1> DEFINE f == Outgoing(c[w])
           y == Popped(c[w])
           d == With(c, w, y)
<1>1. c \in [Workers -> Core] /\ c[w] \in Core
  BY DEF Inv, Typed
<1>2. CASE c[w].outgoing = <<>>
  <2>1. PumpOutgoing(c[w], w) = c[w] /\ PumpedMessages(c[w], w) = {}
    BY <1>2 DEF PumpOutgoing, PumpedMessages
  <2>2. With(c, w, c[w]) = c
    BY <1>1, WithWith
  <2>3. n \cup {} = n
    OBVIOUS
  <2> QED BY <2>1, <2>2, <2>3, <1>1
<1>3. CASE c[w].outgoing # <<>>
  <2>1. f \in Message /\ f \notin n /\ y \in Core /\ Inv(d, g, n \cup {f}, o, r)
    BY <1>3, OutToNet
  <2>2. d[w] = y
    BY <1>1, <2>1 DEF With
  <2>3. CASE Dest(f) = w
    <3>1. PumpOutgoing(c[w], w) = Receive(y, w, f) /\ PumpedMessages(c[w], w) = {}
      BY <1>3, <2>3 DEF PumpOutgoing, PumpedMessages, Popped, Outgoing
    <3>2. /\ Receive(d[w], w, f) \in Core
          /\ Inv(With(d, w, Receive(d[w], w, f)), g, (n \cup {f}) \ {f}, o, r)
      <4> HIDE DEF d, f
      <4> QED BY <2>1, <2>3, Received
    <3>3. (n \cup {f}) \ {f} = n \cup {}
      BY <2>1
    <3>4. With(d, w, Receive(y, w, f)) = With(c, w, Receive(y, w, f))
      BY <1>1, <2>1, <2>2, <3>2, WithWith
    <3> HIDE DEF d, y, f
    <3> QED BY <2>2, <3>1, <3>2, <3>3, <3>4
  <2>4. CASE Dest(f) # w
    <3>1. PumpOutgoing(c[w], w) = y /\ PumpedMessages(c[w], w) = {f}
      BY <1>3, <2>4 DEF PumpOutgoing, PumpedMessages, Popped, Outgoing
    <3> QED BY <3>1, <2>1
  <2> QED BY <2>3, <2>4
<1> QED BY <1>2, <1>3

-----------------------------------------------------------------------------
(* Dispatch: a free executor takes a block. *)

\* The core that owns block b, and its payload; the root without the block.
Owning(x, b, e)  == [x EXCEPT !.pv = b, !.pending = {[block |-> b, epoch |-> e]}]
Payload(p, b, e) == [kind |-> "Data", owner |-> p, worker |-> TargetOf(b),
                     head |-> HeadOf(b), key |-> [block |-> b, epoch |-> e]]
Without(r, b)    == [r EXCEPT !.unstarted = @ \ {b}]

\* The block leaves the unstarted ones and its payload is under way.
LEMMA Started ==
    ASSUME NEW c, NEW g, NEW n, NEW o, NEW r, Inv(c, g, n, o, r),
           NEW p \in Producers, NEW b \in Blocks,
           r.stage = "attention", b \in r.unstarted, c[p].pv = NoBlock
    PROVE  /\ Owning(c[p], b, r.layer) \in Core
           /\ Payload(p, b, r.layer) \notin n
           /\ Inv(With(c, p, Owning(c[p], b, r.layer)), g, n \cup {Payload(p, b, r.layer)}, o, Without(r, b))
<1> DEFINE key == [block |-> b, epoch |-> r.layer]
           x == Owning(c[p], b, r.layer)
           f == Payload(p, b, r.layer)
           u == Without(r, b)
           d == With(c, p, x)
           m == n \cup {f}
<1>1. Typed(c, g, n, o, r) /\ c \in [Workers -> Core] /\ r \in Root /\ p \in Workers /\ c[p] \in Core
  BY HandoffAssumption DEF Inv, Typed
<1>2. r.layer \in Epochs
  BY <1>1, HandoffAssumption DEF Root, Epochs
<1>3. key \in Key /\ key.block = b /\ key.epoch = r.layer
  BY <1>2 DEF Key
<1>4. TargetOf(b) \in Workers /\ HeadOf(b) \in Heads
  BY GeometryType
<1>5. /\ f \in Message /\ f.kind = "Data" /\ f.owner = p /\ f.worker = TargetOf(b)
      /\ f.head = HeadOf(b) /\ f.key = key
  BY <1>1, <1>3, <1>4 DEF Message, Payload
<1>6. u \in Root /\ u.layer = r.layer /\ u.stage = r.stage /\ u.direct = r.direct
      /\ u.unstarted = r.unstarted \ {b}
  BY <1>1 DEF Root, Without
<1>7. x = [c[p] EXCEPT !.pv = b, !.pending = {key}]
  BY DEF Owning
<1> HIDE DEF key, x, f, u
<1>8. x \in Core
  BY <1>1, <1>3, <1>7 DEF Core
<1>9. /\ x.pv = b /\ x.pending = {key} /\ x.finished = c[p].finished
      /\ x.outgoing = c[p].outgoing /\ x.incoming = c[p].incoming
      /\ x.received = c[p].received /\ x.landed = c[p].landed
      /\ x.landingPending = c[p].landingPending
      /\ x.consumedEpoch = c[p].consumedEpoch /\ x.leased = c[p].leased /\ x.fault = c[p].fault
  BY <1>1, <1>7 DEF Core
<1>10. d \in [Workers -> Core] /\ d[p] = x /\ \A v \in Workers : v # p => d[v] = c[v]
  BY <1>1, <1>8 DEF With
<1> HIDE DEF d
<1>11. \A v \in Workers :
          /\ d[v].outgoing = c[v].outgoing /\ d[v].incoming = c[v].incoming
          /\ d[v].received = c[v].received /\ d[v].landed = c[v].landed
          /\ d[v].landingPending = c[v].landingPending
          /\ d[v].consumedEpoch = c[v].consumedEpoch /\ d[v].leased = c[v].leased
          /\ d[v].fault = c[v].fault /\ d[v].finished = c[v].finished
          /\ v # p => d[v].pv = c[v].pv /\ d[v].pending = c[v].pending
  BY <1>9, <1>10
<1>12. Typed(d, g, m, o, u)
  BY <1>1, <1>5, <1>6, <1>10 DEF Typed
<1>13. ASSUME NEW y \in Message, Wellformed(c, r, y)
       PROVE  y.owner # p
  <2>1. c[y.owner].pv = y.key.block /\ y.key.block \in Blocks
    BY <1>13 DEF Wellformed, Message, Key
  <2> QED BY <2>1, NoBlockIsNone
<1>14. ASSUME NEW y \in Message, Wellformed(c, r, y)
       PROVE  Wellformed(d, u, y)
  <2>1. y.owner # p /\ y.owner \in Workers
    BY <1>13, <1>14 DEF Message
  <2> QED BY <2>1, <1>6, <1>11, <1>14 DEF Wellformed
<1>15. ASSUME NEW y \in Message, Tracked(c, y)
       PROVE  Tracked(d, y)
  <2>1. y.worker \in Workers
    BY DEF Message
  <2> QED BY <2>1, <1>11, <1>15 DEF Tracked
<1>16. /\ \A v \in Workers : OutIx(d, v) = OutIx(c, v) /\ InIx(d, v) = InIx(c, v)
       /\ \A v \in Workers : \A i : OutAt(d, v, i) = OutAt(c, v, i) /\ InAt(d, v, i) = InAt(c, v, i)
  BY <1>11 DEF OutIx, InIx, OutAt, InAt
<1>17. OutInv(d, u) /\ \A v \in Workers : \A i \in OutIx(d, v) : OutAt(d, v, i).owner # p
  <2> SUFFICES ASSUME NEW v \in Workers, NEW i \in OutIx(c, v)
               PROVE  OutOk(d, u, v, OutAt(c, v, i)) /\ OutAt(c, v, i).owner # p
    BY <1>16 DEF OutInv
  <2>1. OutOk(c, r, v, OutAt(c, v, i)) /\ OutAt(c, v, i) \in Message
    BY <1>1, EntryTypes DEF Inv, OutInv
  <2>2. Wellformed(d, u, OutAt(c, v, i)) /\ Tracked(d, OutAt(c, v, i)) /\ OutAt(c, v, i).owner # p
    BY <2>1, <1>13, <1>14, <1>15 DEF OutOk
  <2> QED BY <2>1, <2>2 DEF OutOk
<1>18. InInv(d, g, u) /\ \A v \in Workers : \A i \in InIx(d, v) : InAt(d, v, i).msg.owner # p
  <2> SUFFICES ASSUME NEW v \in Workers, NEW i \in InIx(c, v)
               PROVE  InOk(d, g, u, v, InAt(c, v, i)) /\ InAt(c, v, i).msg.owner # p
    BY <1>16 DEF InInv
  <2>1. InOk(c, g, r, v, InAt(c, v, i)) /\ InAt(c, v, i).msg \in Message
    BY <1>1, EntryTypes DEF Inv, InInv
  <2>2. Wellformed(d, u, InAt(c, v, i).msg) /\ InAt(c, v, i).msg.owner # p
    BY <2>1, <1>13, <1>14 DEF InOk
  <2> QED BY <2>1, <2>2, <1>6, <1>11 DEF InOk
<1>19. \A y \in n : Wellformed(d, u, y) /\ Tracked(d, y) /\ y.owner # p
  BY <1>1, <1>13, <1>14, <1>15 DEF Inv, NetInv, Typed
<1>20. BlockInv(c, r) /\ PvInv(c, r)
  BY DEF Inv
<1>21. NetInv(d, m, u)
  <2>1. Wellformed(d, u, f)
    BY <1>3, <1>5, <1>6, <1>9, <1>10 DEF Wellformed
  <2>2. HeadOf(b) \notin d[TargetOf(b)].received
    BY <1>4, <1>11, <1>20 DEF BlockInv
  <2>3. Tracked(d, f)
    BY <2>2, <1>5 DEF Tracked
  <2> QED BY <2>1, <2>3, <1>19 DEF NetInv
<1>22. Unique(d, m)
  <2>1. Unique(c, n) /\ SameQueues(c, d)
    BY <1>11 DEF Inv, SameQueues
  <2>2. Unique(d, n)
    BY <2>1, UniqueSame
  <2>3. NoneOwned(d, n, p)
    BY <1>17, <1>18, <1>19 DEF NoneOwned
  <2> QED BY <2>2, <2>3, <1>5, UniqueAdd
<1>23. PvInv(d, u)
  <2> SUFFICES ASSUME NEW v \in Workers
               PROVE  /\ d[v].pv = NoBlock => d[v].pending = {}
                      /\ d[v].pv # NoBlock =>
                            /\ v \in Producers /\ u.stage = "attention"
                            /\ d[v].pending = {[block |-> d[v].pv, epoch |-> u.layer]}
                            /\ d[v].pv \notin u.unstarted
                            /\ \A q \in Workers : d[v].pv \notin d[q].finished /\ (q # v => d[q].pv # d[v].pv)
                      /\ \A e \in d[v].finished : e \notin u.unstarted
    BY DEF PvInv
  <2>1. \A q \in Workers : b \notin c[q].finished /\ c[q].pv # b
    BY <1>20, NoBlockIsNone DEF PvInv
  <2>2. \A e \in d[v].finished : e \notin u.unstarted
    BY <1>6, <1>11, <1>20 DEF PvInv
  <2>3. CASE v = p
    <3>1. d[v].pv = b /\ d[v].pending = {[block |-> b, epoch |-> u.layer]} /\ b # NoBlock
      BY <2>3, <1>6, <1>9, <1>10, NoBlockIsNone DEF key
    <3>2. \A q \in Workers : b \notin d[q].finished /\ (q # v => d[q].pv # b)
      BY <2>1, <2>3, <1>11
    <3>3. b \notin u.unstarted /\ u.stage = "attention"
      BY <1>6
    <3> QED BY <2>2, <2>3, <3>1, <3>2, <3>3
  <2>4. CASE v # p
    <3>1. d[v].pv = c[v].pv /\ d[v].pending = c[v].pending
      BY <2>4, <1>11
    <3>2. /\ c[v].pv = NoBlock => c[v].pending = {}
          /\ c[v].pv # NoBlock =>
                /\ v \in Producers /\ r.stage = "attention"
                /\ c[v].pending = {[block |-> c[v].pv, epoch |-> r.layer]}
                /\ c[v].pv \notin r.unstarted
                /\ \A q \in Workers : c[v].pv \notin c[q].finished /\ (q # v => c[q].pv # c[v].pv)
      BY <1>20 DEF PvInv
    <3>3. c[v].pv # NoBlock =>
             \A q \in Workers : c[v].pv \notin d[q].finished /\ (q # v => d[q].pv # c[v].pv)
      <4> SUFFICES ASSUME c[v].pv # NoBlock, NEW q \in Workers
                   PROVE  c[v].pv \notin d[q].finished /\ (q # v => d[q].pv # c[v].pv)
        OBVIOUS
      <4>1. c[v].pv \notin c[q].finished /\ (q # v => c[q].pv # c[v].pv)
        BY <3>2
      <4>2. d[q].finished = c[q].finished /\ (q # p => d[q].pv = c[q].pv)
        BY <1>11
      <4>3. q = p => d[q].pv = b /\ c[v].pv # b
        BY <2>1, <1>9, <1>10
      <4> QED BY <4>1, <4>2, <4>3
    <3> QED BY <2>2, <3>1, <3>2, <3>3, <1>6
  <2> QED BY <2>3, <2>4
<1>24. BlockInv(d, u)
  <2>1. \A v \in Workers : /\ d[v].received = c[v].received /\ c[v].landed \subseteq d[v].landed
                           /\ d[v].consumedEpoch = c[v].consumedEpoch
                           /\ d[v].finished = c[v].finished
    BY <1>11
  <2>2. BlockInv(d, r)
    BY <2>1, <1>20, SameBlock
  <2> QED BY <2>2, <1>6, BlockStarted
<1>25. ASSUME NEW v \in Workers PROVE PhaseInv(d, o, u, v)
  <2>1. PhaseInv(c, o, r, v)
    BY DEF Inv
  <2>2. PhaseInv(d, o, r, v)
    BY <2>1, <1>11, SamePhase
  <2> QED BY <2>2, <1>6, BlockStarted
<1>26. ASSUME NEW v \in Workers PROVE MemoryInv(d, g, o, u, v)
  <2>1. MemoryInv(c, g, o, r, v)
    BY DEF Inv
  <2>2. MemoryInv(d, g, o, r, v)
    <3>1. d[v].landingPending => d[v].incoming # <<>>
      BY <2>1, <1>11 DEF MemoryInv
    <3> QED BY <2>1, <3>1, <1>11, SameMemory
  <2> QED BY <2>2, <1>6, BlockStarted
<1>27. Inv(d, g, m, o, u)
  BY <1>12, <1>17, <1>18, <1>21, <1>22, <1>23, <1>24, <1>25, <1>26 DEF Inv
<1>28. f \notin n
  BY <1>5, <1>19
<1> QED BY <1>8, <1>27, <1>28 DEF d, x, f, u

-----------------------------------------------------------------------------
(* The actions that move messages. *)

\* dispatch: the payload is under way and then queued at its owner.
LEMMA DispatchStep ==
    ASSUME OwnersBound, HInv, NEW p \in Producers, NEW b \in Blocks, Dispatch(p, b)
    PROVE  HInv'
<1> DEFINE x == Owning(core[p], b, root.layer)
           f == Payload(p, b, root.layer)
           d == With(core, p, x)
           u == Without(root, b)
<1>1. Inv(core, gm, net, wo, root) /\ core \in [Workers -> Core] /\ core[p] \in Core /\ p \in Workers
  BY HandoffAssumption DEF HInv, Inv, Typed
<1>2. /\ root.stage = "attention" /\ b \in root.unstarted /\ core[p].pv = NoBlock
      /\ core' = With(core, p, DispatchTo([core[p] EXCEPT !.pv = b], p, b, root.layer))
      /\ root' = u /\ gm' = gm /\ net' = net /\ wo' = wo
  BY DEF Dispatch, With, Without
<1>3. core[p].pending = {}
  BY <1>1, <1>2 DEF Inv, PvInv
<1>4. DispatchTo([core[p] EXCEPT !.pv = b], p, b, root.layer) = Enqueue(x, f)
  <2>1. [core[p] EXCEPT !.pv = b].pending = {}
    BY <1>1, <1>3 DEF Core
  <2>2. DispatchTo([core[p] EXCEPT !.pv = b], p, b, root.layer) =
           Enqueue([[core[p] EXCEPT !.pv = b] EXCEPT !.pending = {[block |-> b, epoch |-> root.layer]}], f)
    BY <2>1 DEF DispatchTo, Payload
  <2>3. [[core[p] EXCEPT !.pv = b] EXCEPT !.pending = {[block |-> b, epoch |-> root.layer]}] = x
    BY <1>1 DEF Owning, Core
  <2> QED BY <2>2, <2>3
<1>5. x \in Core /\ f \notin net /\ Inv(d, gm, net \cup {f}, wo, u)
  BY <1>1, <1>2, Started
<1>6. f.kind = "Data" /\ f.owner = p
  BY DEF Payload
<1> HIDE DEF x, f, u
<1>7. d[p] = x
  BY <1>1, <1>5 DEF With
<1> HIDE DEF d
<1>8. Enqueue(x, f) \in Core /\ Inv(With(d, p, Enqueue(x, f)), gm, (net \cup {f}) \ {f}, wo, u)
  BY <1>1, <1>5, <1>6, <1>7, NetToOut
<1>9. (net \cup {f}) \ {f} = net
  BY <1>5
<1>10. With(d, p, Enqueue(x, f)) = With(core, p, Enqueue(x, f))
  BY <1>1, <1>5, <1>8, WithWith DEF d
<1> QED BY <1>2, <1>4, <1>8, <1>9, <1>10 DEF HInv

\* tick: the front of outgoing_ is sent or handled, then a write may start.
LEMMA TickStep ==
    ASSUME OwnersBound, HInv, NEW w \in Workers, NEW accepted \in BOOLEAN, Tick(w, accepted)
    PROVE  HInv'
<1> DEFINE x == PumpOutgoing(core[w], w)
           d == With(core, w, x)
           m == net \cup PumpedMessages(core[w], w)
           y == [x EXCEPT !.landingPending = accepted]
<1>1. Inv(core, gm, net, wo, root) /\ core \in [Workers -> Core]
  BY DEF HInv, Inv, Typed
<1>2. /\ core' = With(core, w, IF x.landingPending \/ x.incoming = <<>> THEN x ELSE y)
      /\ net' = m /\ gm' = gm /\ wo' = wo /\ root' = root
  BY DEF Tick, With
<1>3. x \in Core /\ Inv(d, gm, m, wo, root)
  BY <1>1, Pumped
<1> HIDE DEF x, m
<1>4. d[w] = x
  BY <1>1, <1>3 DEF With
<1>5. y \in Core
  BY <1>3 DEF Core
<1>6. With(d, w, y) = With(core, w, y)
  BY <1>1, <1>3, <1>5, WithWith
<1>7. CASE x.landingPending \/ x.incoming = <<>>
  BY <1>2, <1>3, <1>7 DEF HInv
<1>8. CASE ~(x.landingPending \/ x.incoming = <<>>)
  <2>1. d[w].incoming # <<>>
    BY <1>4, <1>8
  <2> HIDE DEF d
  <2>2. Inv(With(d, w, [d[w] EXCEPT !.landingPending = accepted]), gm, m, wo, root)
    BY <1>3, <2>1, PendingSet
  <2>3. Inv(With(d, w, y), gm, m, wo, root)
    BY <2>2, <1>4
  <2> HIDE DEF y
  <2> QED BY <1>2, <1>6, <1>8, <2>3 DEF HInv
<1> QED BY <1>7, <1>8

\* receive, from the control network.
LEMMA DeliverStep ==
    ASSUME OwnersBound, HInv, NEW msg \in net, Deliver(msg)
    PROVE  HInv'
<1>1. /\ core' = With(core, Dest(msg), Receive(core[Dest(msg)], Dest(msg), msg))
      /\ net' = net \ {msg} /\ gm' = gm /\ wo' = wo /\ root' = root
  BY DEF Deliver, With
<1>2. Inv(With(core, Dest(msg), Receive(core[Dest(msg)], Dest(msg), msg)), gm, net \ {msg}, wo, root)
  BY Received DEF HInv
<1> QED BY <1>1, <1>2 DEF HInv

\* landed: the write, then the next chunk or the acknowledgement.
LEMMA LandingStep ==
    ASSUME OwnersBound, HInv, NEW w \in Workers, LandingAck(w)
    PROVE  HInv'
<1> DEFINE front == Front(core, w)
           z == Write(gm, w, front)
           cur == Step(front)
           x == LastCore(core[w], front.msg.head)
           ack == AckOf(front.msg, w)
           d == With(core, w, x)
<1>1. Inv(core, gm, net, wo, root) /\ core \in [Workers -> Core] /\ core[w] \in Core
  BY DEF HInv, Inv, Typed
<1>2. core[w].incoming # <<>>
  BY <1>1 DEF LandingAck, Inv, MemoryInv
<1>3. gm' = z /\ core' = With(core, w, Landed(core[w], w)) /\ net' = net /\ wo' = wo /\ root' = root
  BY DEF LandingAck, With, Write, Put, Front
<1>4. Inv(core, z, net, wo, root) /\ NextChunk(z, w, front, root.layer)
  BY <1>1, <1>2, ChunkWritten
<1>5. front \in Landing /\ front.msg \in Message /\ front.offset \in 0 .. Chunks - 1
  <2>1. IsFront(core, gm, root, w)
    BY <1>1, <1>2, FrontLanding
  <2> QED BY <2>1 DEF IsFront
<1>6. cur.msg = front.msg /\ cur.offset = front.offset + 1
  BY <1>5, StepFacts
<1>7. Landed(core[w], w) =
         IF cur.offset # Chunks THEN ChunkCore(core[w], cur)
         ELSE Enqueue(LastCore(core[w], cur.msg.head), AckOf(cur.msg, w))
  BY <1>2 DEF Landed, Front, Step, ChunkCore, LastCore, AckOf
<1> HIDE DEF z
<1>8. CASE front.offset + 1 # Chunks
  <2>1. Landed(core[w], w) = ChunkCore(core[w], cur)
    BY <1>6, <1>7, <1>8
  <2>2. Inv(With(core, w, ChunkCore(core[w], cur)), z, net, wo, root)
    BY <1>2, <1>4, <1>8, ChunkLanded
  <2> HIDE DEF cur
  <2> QED BY <1>3, <2>1, <2>2 DEF HInv
<1>9. CASE front.offset + 1 = Chunks
  <2>1. Landed(core[w], w) = Enqueue(x, ack)
    BY <1>6, <1>7, <1>9
  <2>2. /\ x \in Core /\ ack \notin net /\ ack.kind = "Ack" /\ ack.worker = w
        /\ Inv(d, z, net \cup {ack}, wo, root)
    <3>1. x \in Core /\ ack \notin net
      BY <1>2, <1>4, <1>9, LastLanded
    <3>2. ack.kind = "Ack" /\ ack.worker = w
      BY <1>5, AckFacts
    <3>3. Inv(d, z, net \cup {ack}, wo, root)
      BY <1>2, <1>4, <1>9, LastLanded
    <3> QED BY <3>1, <3>2, <3>3
  <2> HIDE DEF x, ack
  <2>3. d[w] = x
    BY <1>1, <2>2 DEF With
  <2> HIDE DEF d
  <2>4. Enqueue(x, ack) \in Core /\ Inv(With(d, w, Enqueue(x, ack)), z, (net \cup {ack}) \ {ack}, wo, root)
    BY <2>2, <2>3, NetToOut
  <2>5. (net \cup {ack}) \ {ack} = net
    BY <2>2
  <2>6. With(d, w, Enqueue(x, ack)) = With(core, w, Enqueue(x, ack))
    BY <1>1, <2>2, <2>4, WithWith DEF d
  <2> QED BY <1>3, <2>1, <2>4, <2>5, <2>6 DEF HInv
<1> QED BY <1>8, <1>9

-----------------------------------------------------------------------------
(* The actions of the guest and of Wo. *)

\* No message is under way.
Quiet(c, n) ==
    /\ n = {}
    /\ \A v \in Workers : c[v].outgoing = <<>> /\ c[v].incoming = <<>>

\* While every executor is free nothing is under way: a message carries the
\* block that its owner still holds.
LEMMA FreeIsQuiet ==
    ASSUME NEW c, NEW g, NEW n, NEW o, NEW r, Inv(c, g, n, o, r),
           \A p \in Workers : c[p].pv = NoBlock
    PROVE  Quiet(c, n)
<1>1. c \in [Workers -> Core] /\ n \in SUBSET Message
  BY DEF Inv, Typed
<1>2. ASSUME NEW y \in Message PROVE ~Wellformed(c, r, y)
  <2>1. y.owner \in Workers /\ y.key.block \in Blocks
    BY DEF Message, Key
  <2> QED BY <2>1, NoBlockIsNone DEF Wellformed
<1>3. n = {}
  BY <1>1, <1>2 DEF Inv, NetInv
<1>4. ASSUME NEW v \in Workers PROVE c[v].outgoing = <<>>
  <2>1. c[v].outgoing \in Seq(Message)
    BY <1>1, EntryTypes
  <2>2. CASE c[v].outgoing # <<>>
    <3>1. 1 \in OutIx(c, v)
      BY <2>1, <2>2, TailFacts DEF OutIx
    <3>2. OutAt(c, v, 1) \in Message /\ Wellformed(c, r, OutAt(c, v, 1))
      BY <3>1, <1>1, EntryTypes DEF Inv, OutInv, OutOk
    <3> QED BY <3>2, <1>2
  <2> QED BY <2>2
<1>5. ASSUME NEW v \in Workers PROVE c[v].incoming = <<>>
  <2>1. CASE c[v].incoming # <<>>
    <3>1. Front(c, v).msg \in Message /\ Wellformed(c, r, Front(c, v).msg)
      <4>1. IsFront(c, g, r, v)
        BY <2>1, FrontLanding
      <4> QED BY <4>1 DEF IsFront, InOk
    <3> QED BY <3>1, <1>2
  <2> QED BY <2>1
<1> QED BY <1>3, <1>4, <1>5 DEF Quiet

\* With empty queues the invariants over messages hold.
LEMMA QuietMessages ==
    ASSUME NEW d, NEW n, NEW r, NEW g, Quiet(d, n)
    PROVE  OutInv(d, r) /\ NetInv(d, n, r) /\ InInv(d, g, r) /\ Unique(d, n)
<1>1. n = {} /\ \A v \in Workers : OutIx(d, v) = {} /\ InIx(d, v) = {}
  <2>1. Len(<<>>) = 0 /\ 1 .. 0 = {}
    OBVIOUS
  <2> QED BY <2>1 DEF Quiet, OutIx, InIx
<1> QED BY <1>1 DEF OutInv, NetInv, InInv, Unique

\* In the decoder stage the executors are free.
LEMMA DecoderQuiet ==
    ASSUME NEW c, NEW g, NEW n, NEW o, NEW r, Inv(c, g, n, o, r), r.stage = "decoder"
    PROVE  Quiet(c, n) /\ \A p \in Workers : c[p].pv = NoBlock
<1>1. \A p \in Workers : c[p].pv = NoBlock
  BY DEF Inv, PvInv
<1> QED BY <1>1, FreeIsQuiet

\* ready() holds whenever Wo may start.
LEMMA WoReady ==
    ASSUME NEW c, NEW g, NEW n, NEW o, NEW r, Inv(c, g, n, o, r), NEW w \in Workers,
           r.stage = "decoder", r.layer = o[w].layer, ~o[w].running
    PROVE  Ready(c[w], o[w].layer) /\ Open(c, r, w) /\ ~c[w].leased /\ c[w].landed = Heads
<1>1. Quiet(c, n) /\ c[w] \in Core /\ c[w].incoming = <<>>
  BY DecoderQuiet DEF Inv, Typed, Quiet
<1>2. Open(c, r, w) /\ ~c[w].leased
  BY DEF Inv, PhaseInv
<1>3. ASSUME NEW h \in Heads PROVE h \in c[w].received /\ h \in c[w].landed
  <2>1. PICK b \in Blocks : TargetOf(b) = w /\ HeadOf(b) = h
    BY GeometrySurjective
  <2> QED BY <2>1, <1>2 DEF Inv, BlockInv
<1>4. c[w].received = Heads /\ c[w].landed = Heads
  BY <1>1, <1>3 DEF Core
<1>5. ~c[w].landingPending
  BY <1>1 DEF Inv, MemoryInv
<1> QED BY <1>1, <1>2, <1>4, <1>5 DEF Ready, Open

\* decoder_release: every block is complete, so no message is under way.
LEMMA ReleaseStep ==
    ASSUME HInv, ReleaseDecoder
    PROVE  HInv'
<1>1. Inv(core, gm, net, wo, root) /\ Typed(core, gm, net, wo, root) /\ core \in [Workers -> Core]
  BY DEF HInv, Inv, Typed
<1>2. /\ root.stage = "attention" /\ core' = core /\ gm' = gm /\ net' = net /\ wo' = wo
      /\ UNION {core[w].finished : w \in Workers} = Blocks
      /\ root' = [root EXCEPT !.stage = "decoder"]
  BY DEF ReleaseDecoder
<1>3. root' \in Root /\ root'.stage = "decoder" /\ root'.layer = root.layer
      /\ root'.unstarted = root.unstarted /\ root'.direct = root.direct
  BY <1>1, <1>2 DEF Typed, Root
<1>4. \A b \in Blocks : \E q \in Workers : b \in core[q].finished
  BY <1>2
<1>5. ASSUME NEW p \in Workers PROVE core[p].pv = NoBlock
  <2>1. core[p].pv \in Blocks \cup {NoBlock}
    BY <1>1 DEF Core
  <2> QED BY <2>1, <1>1, <1>4 DEF Inv, PvInv
<1>6. Quiet(core, net)
  BY <1>1, <1>5, FreeIsQuiet
<1>7. Typed(core, gm, net, wo, root')
  BY <1>1, <1>3 DEF Typed
<1>8. OutInv(core, root') /\ NetInv(core, net, root') /\ InInv(core, gm, root') /\ Unique(core, net)
  BY <1>6, QuietMessages
<1>9. PvInv(core, root')
  BY <1>1, <1>3, <1>5 DEF Inv, PvInv
<1>10. BlockInv(core, root')
  BY <1>1, <1>3, <1>4 DEF Inv, BlockInv, Open
<1>11. ASSUME NEW w \in Workers PROVE PhaseInv(core, wo, root', w)
  <2>1. Open(core, root, w) /\ ~core[w].leased /\ ~wo[w].running /\ wo[w].layer = root.layer
    BY <1>1, <1>2 DEF Inv, PhaseInv
  <2>2. core[w].leased \in BOOLEAN
    BY <1>1 DEF Core
  <2> QED BY <2>1, <2>2, <1>3 DEF PhaseInv, Open
<1>12. ASSUME NEW w \in Workers PROVE MemoryInv(core, gm, wo, root', w)
  <2>1. MemoryInv(core, gm, wo, root, w)
    BY <1>1 DEF Inv
  <2> QED BY <2>1, <1>3 DEF MemoryInv, Open
<1>13. Inv(core, gm, net, wo, root')
  BY <1>7, <1>8, <1>9, <1>10, <1>11, <1>12 DEF Inv
<1> QED BY <1>2, <1>13 DEF HInv

\* A step of Wo keeps the block and the queues of its worker, and the masks of
\* the generation unless it retires it.
Retains(y, x, layer) ==
    /\ x.pv = y.pv /\ x.pending = y.pending /\ x.finished = y.finished
    /\ x.incoming = y.incoming /\ x.outgoing = y.outgoing
    /\ x.consumedEpoch = y.consumedEpoch => x.received = y.received /\ x.landed = y.landed
    /\ x.consumedEpoch # y.consumedEpoch => x.consumedEpoch + 1 # layer

\* What is left to show of a step of worker w in the decoder stage: the other
\* workers and the blocks' owners are as before.
LEMMA WorkerStep ==
    ASSUME NEW c, NEW g, NEW n, NEW o, NEW r, Inv(c, g, n, o, r), r.stage = "decoder",
           NEW w \in Workers, NEW x \in Core, NEW j \in Wo, NEW a \in [Heads -> [1 .. Chunks -> Epochs]],
           Retains(c[w], x, r.layer),
           PhaseInv(With(c, w, x), [o EXCEPT ![w] = j], r, w),
           MemoryInv(With(c, w, x), [g EXCEPT ![w] = a], [o EXCEPT ![w] = j], r, w)
    PROVE  Inv(With(c, w, x), [g EXCEPT ![w] = a], n, [o EXCEPT ![w] = j], r)
<1> DEFINE d == With(c, w, x)
           k == [o EXCEPT ![w] = j]
           z == [g EXCEPT ![w] = a]
<1>1. Typed(c, g, n, o, r) /\ c \in [Workers -> Core]
  BY DEF Inv, Typed
<1>2. d \in [Workers -> Core] /\ d[w] = x /\ \A v \in Workers : v # w => d[v] = c[v]
  BY <1>1 DEF With
<1>3. k \in [Workers -> Wo] /\ \A v \in Workers : v # w => k[v] = o[v]
  BY <1>1 DEF Typed
<1>4. z \in [Workers -> [Heads -> [1 .. Chunks -> Epochs]]] /\ \A v \in Workers : v # w => z[v] = g[v]
  BY <1>1 DEF Typed
<1>5. PhaseInv(d, k, r, w) /\ MemoryInv(d, z, k, r, w)
  OBVIOUS
<1> HIDE DEF d, k, z
<1>6. Typed(d, z, n, k, r)
  BY <1>1, <1>2, <1>3, <1>4 DEF Typed
<1>7. \A v \in Workers :
         /\ d[v].pv = c[v].pv /\ d[v].pending = c[v].pending /\ d[v].finished = c[v].finished
         /\ d[v].incoming = c[v].incoming /\ d[v].outgoing = c[v].outgoing
  BY <1>2 DEF Retains
<1>8. Quiet(d, n)
  <2>1. Quiet(c, n)
    BY DecoderQuiet
  <2> QED BY <2>1, <1>7 DEF Quiet
<1>9. OutInv(d, r) /\ NetInv(d, n, r) /\ InInv(d, z, r) /\ Unique(d, n)
  BY <1>8, QuietMessages
<1>10. PvInv(d, r)
  <2>1. PvInv(c, r)
    BY DEF Inv
  <2>2. \A v \in Workers : d[v].pv = c[v].pv /\ d[v].pending = c[v].pending /\ d[v].finished = c[v].finished
    BY <1>7
  <2> QED BY <2>1, <2>2, SamePv
<1>11. \A v \in Workers : Open(d, r, v) =>
          Open(c, r, v) /\ d[v].received = c[v].received /\ d[v].landed = c[v].landed
  BY <1>2 DEF Open, Retains
<1>12. BlockInv(d, r)
  <2>1. BlockInv(c, r)
    BY DEF Inv
  <2> SUFFICES ASSUME NEW b \in Blocks
               PROVE  /\ r.stage = "attention" /\ b \in r.unstarted =>
                            HeadOf(b) \notin d[TargetOf(b)].received
                      /\ Open(d, r, TargetOf(b)) /\ (\E q \in Workers : b \in d[q].finished) =>
                            HeadOf(b) \in d[TargetOf(b)].received /\ HeadOf(b) \in d[TargetOf(b)].landed
                      /\ r.stage = "decoder" => \E q \in Workers : b \in d[q].finished
    BY DEF BlockInv
  <2>2. TargetOf(b) \in Workers
    BY GeometryType
  <2>3. (\E q \in Workers : b \in d[q].finished) <=> (\E q \in Workers : b \in c[q].finished)
    <3>1. \A q \in Workers : b \in d[q].finished <=> b \in c[q].finished
      BY <1>7
    <3> QED BY <3>1
  <2>4. /\ Open(c, r, TargetOf(b)) /\ (\E q \in Workers : b \in c[q].finished) =>
              HeadOf(b) \in c[TargetOf(b)].received /\ HeadOf(b) \in c[TargetOf(b)].landed
        /\ r.stage = "decoder" => \E q \in Workers : b \in c[q].finished
    BY <2>1 DEF BlockInv
  <2>5. Open(d, r, TargetOf(b)) =>
           /\ Open(c, r, TargetOf(b)) /\ d[TargetOf(b)].received = c[TargetOf(b)].received
           /\ d[TargetOf(b)].landed = c[TargetOf(b)].landed
    BY <1>11, <2>2
  <2> QED BY <2>3, <2>4, <2>5
<1>13. ASSUME NEW v \in Workers, v # w PROVE PhaseInv(d, k, r, v) /\ MemoryInv(d, z, k, r, v)
  <2>1. d[v] = c[v] /\ k[v] = o[v] /\ z[v] = g[v]
    BY <1>2, <1>3, <1>4, <1>13
  <2>2. PhaseInv(c, o, r, v) /\ MemoryInv(c, g, o, r, v)
    BY DEF Inv
  <2> QED BY <2>1, <2>2, SameWorker
<1>14. Inv(d, z, n, k, r)
  BY <1>5, <1>6, <1>9, <1>10, <1>12, <1>13 DEF Inv
<1> QED BY <1>14 DEF d, k, z

\* acquire and consume, release and a finished job without a lease.
LEMMA RetireFacts ==
    ASSUME NEW x \in Core, x.consumedEpoch + 1 \in Epochs
    PROVE  /\ RetireGeneration(x) \in Core
           /\ RetireGeneration(x).consumedEpoch = x.consumedEpoch + 1
           /\ RetireGeneration(x).received = {} /\ RetireGeneration(x).landed = {}
           /\ RetireGeneration(x).pv = x.pv /\ RetireGeneration(x).pending = x.pending
           /\ RetireGeneration(x).finished = x.finished /\ RetireGeneration(x).fault = x.fault
           /\ RetireGeneration(x).incoming = x.incoming /\ RetireGeneration(x).outgoing = x.outgoing
           /\ RetireGeneration(x).landingPending = x.landingPending /\ RetireGeneration(x).leased = x.leased
BY DEF RetireGeneration, Core

Leased(x, b) == [x EXCEPT !.leased = b]

\* Only the lease changes.
LEMMA LeasedFacts ==
    ASSUME NEW x \in Core, NEW b \in BOOLEAN
    PROVE  /\ Leased(x, b) \in Core /\ Leased(x, b).leased = b
           /\ Leased(x, b).consumedEpoch = x.consumedEpoch
           /\ Leased(x, b).received = x.received /\ Leased(x, b).landed = x.landed
           /\ Leased(x, b).pv = x.pv /\ Leased(x, b).pending = x.pending
           /\ Leased(x, b).finished = x.finished /\ Leased(x, b).fault = x.fault
           /\ Leased(x, b).incoming = x.incoming /\ Leased(x, b).outgoing = x.outgoing
           /\ Leased(x, b).landingPending = x.landingPending
BY DEF Leased, Core

\* Wo starts: ready() holds, and the generation is leased or retired.
LEMMA StartStep ==
    ASSUME HInv, NEW w \in Workers, StartWo(w)
    PROVE  HInv'
<1> DEFINE x == IF root.direct THEN Leased(core[w], TRUE) ELSE RetireGeneration(core[w])
           j == [wo[w] EXCEPT !.running = TRUE, !.unread = Heads]
           d == With(core, w, x)
           k == [wo EXCEPT ![w] = j]
<1>1. /\ Inv(core, gm, net, wo, root) /\ core \in [Workers -> Core] /\ core[w] \in Core
      /\ wo \in [Workers -> Wo] /\ wo[w] \in Wo /\ root \in Root
      /\ gm \in [Workers -> [Heads -> [1 .. Chunks -> Epochs]]]
  BY DEF HInv, Inv, Typed
<1>2. root.stage = "decoder" /\ root.layer = wo[w].layer /\ ~wo[w].running
  BY DEF StartWo
<1>3. Ready(core[w], wo[w].layer) /\ Open(core, root, w) /\ ~core[w].leased /\ core[w].landed = Heads
  BY <1>1, <1>2, WoReady
<1>4. core' = d /\ wo' = k /\ gm' = gm /\ net' = net /\ root' = root
  <2>1. /\ core' = [core EXCEPT ![w] =
               IF ~Ready(core[w], wo[w].layer) THEN Throw(core[w])
               ELSE IF root.direct THEN Acquire(core[w]) ELSE Consume(core[w])]
        /\ wo' = k /\ gm' = gm /\ net' = net /\ root' = root
    BY DEF StartWo
  <2>2. Acquire(core[w]) = Leased(core[w], TRUE) /\ Consume(core[w]) = RetireGeneration(core[w])
    BY DEF Acquire, Consume, Leased
  <2>3. core' = [core EXCEPT ![w] = x]
    BY <2>1, <2>2, <1>3
  <2> QED BY <2>1, <2>3 DEF With
<1>5. root.layer \in Nat \ {0} /\ root.layer \in Epochs /\ core[w].consumedEpoch + 1 = root.layer
      /\ core[w].consumedEpoch \in Nat
  BY <1>1, <1>3, HandoffAssumption DEF Root, Epochs, Open, Core
<1>6. j \in Wo /\ j.layer = root.layer /\ j.running = TRUE
  BY <1>1, <1>2 DEF Wo
<1> HIDE DEF j
<1>7. k[w] = j
  BY <1>1
<1> HIDE DEF k
<1>8. /\ MemoryInv(core, gm, wo, root, w) /\ core[w].incoming = <<>> /\ ~core[w].landingPending
      /\ \A h \in Heads : \A i \in 1 .. Chunks : gm[w][h][i] = root.layer
  BY <1>1, <1>3 DEF Inv, MemoryInv, Ready
<1>9. x \in Core /\ Retains(core[w], x, root.layer)
      /\ PhaseInv(d, k, root, w) /\ MemoryInv(d, gm, k, root, w)
  <2>1. CASE root.direct
    <3>1. x = Leased(core[w], TRUE)
      BY <2>1
    <3> HIDE DEF x
    <3>2. /\ x \in Core /\ x.leased = TRUE /\ x.consumedEpoch = core[w].consumedEpoch
          /\ x.received = core[w].received /\ x.landed = core[w].landed
          /\ x.pv = core[w].pv /\ x.pending = core[w].pending
          /\ x.finished = core[w].finished /\ x.fault = core[w].fault
          /\ x.incoming = core[w].incoming /\ x.outgoing = core[w].outgoing
          /\ x.landingPending = core[w].landingPending
      BY <3>1, <1>1, LeasedFacts
    <3>3. d[w] = x
      BY <3>2, <1>1 DEF With
    <3> HIDE DEF d
    <3>4. Retains(core[w], x, root.layer)
      BY <3>2 DEF Retains
    <3>5. PhaseInv(d, k, root, w)
      BY <3>2, <3>3, <2>1, <1>2, <1>5, <1>6, <1>7 DEF PhaseInv, Open
    <3>6. MemoryInv(d, gm, k, root, w)
      BY <3>2, <3>3, <1>8 DEF MemoryInv, Open
    <3> QED BY <3>2, <3>4, <3>5, <3>6
  <2>2. CASE ~root.direct
    <3>1. x = RetireGeneration(core[w])
      BY <2>2
    <3> HIDE DEF x
    <3>2. /\ x \in Core /\ x.leased = core[w].leased /\ x.consumedEpoch = root.layer
          /\ x.received = {} /\ x.landed = {}
          /\ x.pv = core[w].pv /\ x.pending = core[w].pending
          /\ x.finished = core[w].finished /\ x.fault = core[w].fault
          /\ x.incoming = core[w].incoming /\ x.outgoing = core[w].outgoing
          /\ x.landingPending = core[w].landingPending
      BY <3>1, <1>1, <1>5, RetireFacts
    <3>3. d[w] = x
      BY <3>2, <1>1 DEF With
    <3> HIDE DEF d
    <3>4. root.layer + 1 # root.layer /\ x.consumedEpoch # core[w].consumedEpoch
      BY <3>2, <1>5, NextDiffers
    <3>5. Retains(core[w], x, root.layer)
      BY <3>2, <3>4 DEF Retains
    <3>6. ~Open(d, root, w)
      BY <3>2, <3>3, <3>4 DEF Open
    <3>7. d[w].leased = FALSE
      BY <3>2, <3>3, <1>1, <1>3 DEF Core
    <3>8. PhaseInv(d, k, root, w)
      BY <3>2, <3>3, <3>7, <2>2, <1>2, <1>6, <1>7 DEF PhaseInv
    <3>9. MemoryInv(d, gm, k, root, w)
      BY <3>2, <3>3, <3>6, <1>8 DEF MemoryInv
    <3> QED BY <3>2, <3>5, <3>8, <3>9
  <2> QED BY <2>1, <2>2
<1> HIDE DEF x
<1>10. [gm EXCEPT ![w] = gm[w]] = gm /\ gm[w] \in [Heads -> [1 .. Chunks -> Epochs]]
  BY <1>1
<1>11. Inv(d, [gm EXCEPT ![w] = gm[w]], net, k, root)
  <2>1. MemoryInv(d, [gm EXCEPT ![w] = gm[w]], k, root, w)
    BY <1>9, <1>10
  <2> QED BY <2>1, <1>1, <1>2, <1>6, <1>9, <1>10, WorkerStep DEF k
<1> QED BY <1>4, <1>10, <1>11 DEF HInv

\* Wo reads a head.
LEMMA ReadStep ==
    ASSUME HInv, NEW w \in Workers, NEW h \in Heads, ReadHead(w, h)
    PROVE  HInv'
<1> DEFINE j == [wo[w] EXCEPT !.unread = wo[w].unread \ {h}]
           k == [wo EXCEPT ![w] = j]
<1>1. /\ Inv(core, gm, net, wo, root) /\ wo \in [Workers -> Wo] /\ wo[w] \in Wo
      /\ Typed(core, gm, net, wo, root)
  BY DEF HInv, Inv, Typed
<1>2. core' = core /\ wo' = k /\ gm' = gm /\ net' = net /\ root' = root
  BY DEF ReadHead
<1>3. j \in Wo /\ j.layer = wo[w].layer /\ j.running = wo[w].running
  BY <1>1 DEF Wo
<1> HIDE DEF j
<1>4. k \in [Workers -> Wo] /\ \A v \in Workers : k[v].layer = wo[v].layer /\ k[v].running = wo[v].running
  BY <1>1, <1>3
<1> HIDE DEF k
<1>5. Typed(core, gm, net, k, root)
  BY <1>1, <1>4 DEF Typed
<1>6. ASSUME NEW v \in Workers PROVE PhaseInv(core, k, root, v) /\ MemoryInv(core, gm, k, root, v)
  <2>1. PhaseInv(core, wo, root, v) /\ MemoryInv(core, gm, wo, root, v)
    BY <1>1 DEF Inv
  <2>2. PhaseInv(core, k, root, v)
    BY <2>1, <1>4 DEF PhaseInv
  <2>3. MemoryInv(core, gm, k, root, v)
    BY <2>1, <1>4 DEF MemoryInv
  <2> QED BY <2>2, <2>3
<1>7. Inv(core, gm, net, k, root)
  BY <1>1, <1>5, <1>6 DEF Inv
<1> QED BY <1>2, <1>7 DEF HInv

\* A running Wo is in the decoder stage of its own layer.
LEMMA RunningFacts ==
    ASSUME NEW c, NEW g, NEW n, NEW o, NEW r, Inv(c, g, n, o, r), NEW w \in Workers, o[w].running
    PROVE  /\ r.stage = "decoder" /\ o[w].layer = r.layer /\ c[w].leased = r.direct
           /\ IF r.direct THEN Open(c, r, w) ELSE c[w].consumedEpoch = r.layer
<1>1. PhaseInv(c, o, r, w) /\ r \in Root /\ c[w] \in Core /\ o[w] \in Wo
  BY DEF Inv, Typed
<1>2. r.stage \in {"attention", "decoder"} /\ r.direct \in BOOLEAN
  BY <1>1 DEF Root
<1> QED BY <1>1, <1>2 DEF PhaseInv

\* Wo ends: a leased generation is retired, the memory is reused.
LEMMA FinishStep ==
    ASSUME HInv, NEW w \in Workers, FinishWo(w)
    PROVE  HInv'
<1> DEFINE x == IF root.direct THEN RetireGeneration(Leased(core[w], FALSE)) ELSE core[w]
           j == [wo[w] EXCEPT !.running = FALSE, !.layer = wo[w].layer + 1]
           a == [h \in Heads |-> [i \in 1 .. Chunks |-> 0]]
           d == With(core, w, x)
           k == [wo EXCEPT ![w] = j]
           z == [gm EXCEPT ![w] = a]
<1>1. /\ Inv(core, gm, net, wo, root) /\ core \in [Workers -> Core] /\ core[w] \in Core
      /\ wo \in [Workers -> Wo] /\ wo[w] \in Wo /\ root \in Root
  BY DEF HInv, Inv, Typed
<1>2. /\ root.stage = "decoder" /\ wo[w].layer = root.layer /\ core[w].leased = root.direct
      /\ IF root.direct THEN Open(core, root, w) ELSE core[w].consumedEpoch = root.layer
  BY <1>1, RunningFacts DEF FinishWo
<1>3. core' = d /\ wo' = k /\ gm' = z /\ net' = net /\ root' = root
  <2>1. root.direct => Release(core[w], wo[w].layer) = RetireGeneration(Leased(core[w], FALSE))
    BY <1>2 DEF Release, Leased, Open
  <2>2. core' = [core EXCEPT ![w] = IF root.direct THEN Release(core[w], wo[w].layer) ELSE core[w]]
    BY DEF FinishWo
  <2>3. core' = d
    BY <2>1, <2>2 DEF With
  <2> QED BY <2>3 DEF FinishWo
<1>4. root.layer \in 1 .. Layers /\ root.layer \in Epochs /\ root.layer \in Nat /\ root.layer + 1 # root.layer
  BY <1>1, HandoffAssumption DEF Root, Epochs
<1>5. j \in Wo /\ j.layer = root.layer + 1 /\ j.running = FALSE
  <2>1. root.layer + 1 \in 1 .. Layers + 1
    BY <1>4, HandoffAssumption
  <2> QED BY <2>1, <1>1, <1>2 DEF Wo
<1>6. a \in [Heads -> [1 .. Chunks -> Epochs]]
  BY HandoffAssumption DEF Epochs
<1> HIDE DEF j, a
<1>7. k[w] = j
  BY <1>1
<1>8. MemoryInv(core, gm, wo, root, w)
  BY <1>1 DEF Inv
<1>9. /\ x \in Core /\ x.consumedEpoch = root.layer /\ x.received = {} /\ x.landed = {} /\ x.leased = FALSE
      /\ x.fault = core[w].fault /\ x.landingPending = core[w].landingPending
      /\ x.incoming = core[w].incoming
      /\ Retains(core[w], x, root.layer)
  <2>1. CASE root.direct
    <3> DEFINE y == Leased(core[w], FALSE)
    <3>1. x = RetireGeneration(y) /\ core[w].consumedEpoch + 1 = root.layer
          /\ core[w].consumedEpoch # root.layer
      BY <2>1, <1>2, <1>4 DEF Open
    <3>2. /\ y \in Core /\ y.leased = FALSE /\ y.consumedEpoch = core[w].consumedEpoch
          /\ y.pv = core[w].pv /\ y.pending = core[w].pending
          /\ y.finished = core[w].finished /\ y.fault = core[w].fault
          /\ y.incoming = core[w].incoming /\ y.outgoing = core[w].outgoing
          /\ y.landingPending = core[w].landingPending
      BY <1>1, LeasedFacts
    <3> HIDE DEF x, y
    <3>3. /\ x \in Core /\ x.leased = y.leased /\ x.consumedEpoch = y.consumedEpoch + 1
          /\ x.received = {} /\ x.landed = {}
          /\ x.pv = y.pv /\ x.pending = y.pending
          /\ x.finished = y.finished /\ x.fault = y.fault
          /\ x.incoming = y.incoming /\ x.outgoing = y.outgoing
          /\ x.landingPending = y.landingPending
      BY <3>1, <3>2, <1>4, RetireFacts
    <3>4. Retains(core[w], x, root.layer)
      BY <3>1, <3>2, <3>3, <1>4 DEF Retains
    <3> QED BY <3>1, <3>2, <3>3, <3>4
  <2>2. CASE ~root.direct
    <3>1. x = core[w] /\ core[w].consumedEpoch = root.layer
      BY <2>2, <1>2
    <3>2. ~Open(core, root, w) /\ core[w].leased = FALSE
      BY <3>1, <2>2, <1>1, <1>2, <1>4 DEF Open, Core
    <3>3. core[w].received = {} /\ core[w].landed = {}
      BY <3>2, <1>8 DEF MemoryInv
    <3> QED BY <3>1, <3>2, <3>3, <1>1 DEF Retains
  <2> QED BY <2>1, <2>2
<1> HIDE DEF x
<1>10. d[w] = x
  BY <1>1, <1>9 DEF With
<1> HIDE DEF d, k
<1>11. PhaseInv(d, k, root, w)
  BY <1>2, <1>4, <1>5, <1>7, <1>9, <1>10 DEF PhaseInv
<1>12. ~Open(d, root, w)
  BY <1>4, <1>9, <1>10 DEF Open
<1>13. MemoryInv(d, z, k, root, w)
  BY <1>5, <1>7, <1>8, <1>9, <1>10, <1>12 DEF MemoryInv
<1>14. Inv(d, z, net, k, root)
  BY <1>1, <1>2, <1>5, <1>6, <1>9, <1>11, <1>13, WorkerStep DEF d, k
<1> QED BY <1>3, <1>14 DEF HInv

\* The next layer: every generation has been retired.
LEMMA BeginStep ==
    ASSUME HInv, BeginLayer
    PROVE  HInv'
<1>1. /\ Inv(core, gm, net, wo, root) /\ Typed(core, gm, net, wo, root) /\ core \in [Workers -> Core]
      /\ wo \in [Workers -> Wo] /\ root \in Root
  BY DEF HInv, Inv, Typed
<1>2. /\ root.stage = "decoder" /\ root.layer < Layers
      /\ \A w \in Workers : wo[w].layer > root.layer
      /\ root' = [root EXCEPT !.layer = root.layer + 1, !.stage = "attention", !.unstarted = Blocks]
      /\ core' = [w \in Workers |-> [core[w] EXCEPT !.finished = {}]]
      /\ gm' = gm /\ net' = net /\ wo' = wo
  BY DEF BeginLayer
<1>3. root.layer \in Nat \ {0} /\ root.layer + 1 \in 1 .. Layers /\ root.layer + 1 # root.layer
  BY <1>1, <1>2, HandoffAssumption DEF Root
<1>4. root' \in Root /\ root'.layer = root.layer + 1 /\ root'.stage = "attention"
      /\ root'.unstarted = Blocks
  BY <1>1, <1>2, <1>3 DEF Root
<1>5. ASSUME NEW w \in Workers
      PROVE  /\ core'[w] \in Core /\ core'[w].finished = {}
             /\ core'[w].pv = core[w].pv /\ core'[w].pending = core[w].pending
             /\ core'[w].incoming = core[w].incoming /\ core'[w].outgoing = core[w].outgoing
             /\ core'[w].received = core[w].received /\ core'[w].landed = core[w].landed
             /\ core'[w].landingPending = core[w].landingPending
             /\ core'[w].consumedEpoch = core[w].consumedEpoch /\ core'[w].leased = core[w].leased
             /\ core'[w].fault = core[w].fault
  <2>1. core[w] \in Core /\ core'[w] = [core[w] EXCEPT !.finished = {}]
    BY <1>1, <1>2
  <2> QED BY <2>1 DEF Core
<1>6. core' \in [Workers -> Core]
  BY <1>2, <1>5
<1>7. Quiet(core, net) /\ \A p \in Workers : core[p].pv = NoBlock
  BY <1>1, <1>2, DecoderQuiet
<1>8. Quiet(core', net)
  BY <1>5, <1>7 DEF Quiet
<1>9. ASSUME NEW w \in Workers
      PROVE  /\ wo[w].layer = root.layer + 1 /\ ~wo[w].running /\ ~core[w].leased
             /\ core[w].consumedEpoch = root.layer /\ core[w].received = {} /\ core[w].landed = {}
  <2>1. PhaseInv(core, wo, root, w) /\ MemoryInv(core, gm, wo, root, w)
    BY <1>1 DEF Inv
  <2>2. wo[w].layer # root.layer
    BY <1>1, <1>2, <1>3 DEF Wo
  <2>3. wo[w].layer = root.layer + 1 /\ ~wo[w].running /\ ~core[w].leased
        /\ core[w].consumedEpoch = root.layer
    BY <2>1, <2>2, <1>2 DEF PhaseInv
  <2>4. ~Open(core, root, w)
    BY <2>3, <1>3 DEF Open
  <2> QED BY <2>1, <2>3, <2>4 DEF MemoryInv
<1>10. Typed(core', gm, net, wo, root')
  BY <1>1, <1>4, <1>6 DEF Typed
<1>11. OutInv(core', root') /\ NetInv(core', net, root') /\ InInv(core', gm, root') /\ Unique(core', net)
  BY <1>8, QuietMessages
<1>12. PvInv(core', root')
  <2>1. \A p \in Workers : core'[p].pv = NoBlock /\ core'[p].pending = {} /\ core'[p].finished = {}
    BY <1>1, <1>5, <1>7 DEF Inv, PvInv
  <2> QED BY <2>1 DEF PvInv
<1>13. ASSUME NEW w \in Workers PROVE PhaseInv(core', wo, root', w)
  BY <1>4, <1>5, <1>9 DEF PhaseInv, Open
<1>14. ASSUME NEW w \in Workers PROVE MemoryInv(core', gm, wo, root', w)
  <2>1. MemoryInv(core, gm, wo, root, w)
    BY <1>1 DEF Inv
  <2> QED BY <2>1, <1>5, <1>9 DEF MemoryInv
<1>15. BlockInv(core', root')
  BY <1>4, <1>5, <1>9, GeometryType DEF BlockInv
<1>16. Inv(core', gm, net, wo, root')
  BY <1>10, <1>11, <1>12, <1>13, <1>14, <1>15 DEF Inv
<1> QED BY <1>2, <1>16 DEF HInv

\* The initial states satisfy the invariant.
LEMMA HandoffInit == Init => HInv
<1> SUFFICES ASSUME Init PROVE HInv
  OBVIOUS
<1>1. /\ core = [w \in Workers |-> NewCore] /\ net = {}
      /\ gm = [w \in Workers |-> [h \in Heads |-> [i \in 1 .. Chunks |-> 0]]]
      /\ wo = [w \in Workers |-> [layer |-> 1, running |-> FALSE, unread |-> {}]]
  BY DEF Init
<1>2. root \in Root /\ root.layer = 1 /\ root.stage = "attention" /\ root.unstarted = Blocks
  BY HandoffAssumption DEF Init, Root
<1>3. 0 \in Epochs /\ 1 \in 1 .. Layers + 1
  BY HandoffAssumption DEF Epochs
<1>4. /\ NewCore \in Core /\ NewCore.consumedEpoch = 0 /\ NewCore.received = {} /\ NewCore.landed = {}
      /\ NewCore.landingPending = FALSE /\ NewCore.leased = FALSE /\ NewCore.pending = {}
      /\ NewCore.incoming = <<>> /\ NewCore.outgoing = <<>> /\ NewCore.pv = NoBlock
      /\ NewCore.finished = {} /\ NewCore.fault = FALSE
  <2>1. NewCore \in Core
    BY <1>3 DEF NewCore, Core
  <2> QED BY <2>1 DEF NewCore
<1>5. core \in [Workers -> Core] /\ \A w \in Workers : core[w] = NewCore
  BY <1>1, <1>4
<1>6. wo \in [Workers -> Wo] /\ \A w \in Workers : wo[w].layer = 1 /\ ~wo[w].running
  BY <1>1, <1>3 DEF Wo
<1>7. gm \in [Workers -> [Heads -> [1 .. Chunks -> Epochs]]]
  BY <1>1, <1>3
<1>8. Typed(core, gm, net, wo, root)
  BY <1>1, <1>2, <1>5, <1>6, <1>7 DEF Typed
<1>9. Quiet(core, net)
  BY <1>1, <1>4, <1>5 DEF Quiet
<1>10. OutInv(core, root) /\ NetInv(core, net, root) /\ InInv(core, gm, root) /\ Unique(core, net)
  BY <1>9, QuietMessages
<1>11. PvInv(core, root)
  BY <1>4, <1>5 DEF PvInv
<1>12. BlockInv(core, root)
  BY <1>2, <1>4, <1>5, GeometryType DEF BlockInv
<1>13. ASSUME NEW w \in Workers PROVE PhaseInv(core, wo, root, w)
  BY <1>2, <1>4, <1>5, <1>6 DEF PhaseInv, Open
<1>14. ASSUME NEW w \in Workers PROVE MemoryInv(core, gm, wo, root, w)
  BY <1>4, <1>5, <1>6 DEF MemoryInv
<1> QED BY <1>8, <1>10, <1>11, <1>12, <1>13, <1>14 DEF HInv, Inv

=============================================================================
