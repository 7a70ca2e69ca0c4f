-------------------------- MODULE WeightCohortMoves --------------------------
(***************************************************************************)
(* Every action of WeightCohort is a sequence of moves: a message leaves a *)
(* queue, is received, is taken by a slot, is answered, ...  Each move     *)
(* keeps the invariant Inv; tick() is the composition of its moves, and    *)
(* the loop of admit() an induction over its steps.  The moves of tick()   *)
(* are here, those of the callbacks and of the decoder job in              *)
(* WeightCohortCallbacks.                                                  *)
(***************************************************************************)
EXTENDS WeightCohortInv, TLAPS

\* A leaf is tried with Zenon, then with SMT.
USE ZenonT(5), SMTT(20)

-----------------------------------------------------------------------------
(* Numbers. *)

\* The facts about numbers and finite sets that the moves rest on; Counting is
\* proved in WeightCohortProofs.
LeastElement == \A T \in SUBSET Nat : T # {} => \E x \in T : \A y \in T : x <= y

Intervals ==
    \A n \in Nat : /\ IsFiniteSet(1 .. n) /\ Cardinality(1 .. n) = n
                   /\ \A d \in 1 .. n : IsFiniteSet((1 .. n) \ {d}) /\ Cardinality((1 .. n) \ {d}) = n - 1

Pigeonhole ==
    \A L, K : IsFiniteSet(K) /\ (\E f \in [L -> K] : \A a, b \in L : f[a] = f[b] => a = b) =>
                 Cardinality(L) \in Nat /\ Cardinality(L) <= Cardinality(K)

MembersCounted ==
    /\ Width \in Nat
    /\ \A d \in Nat : IsFiniteSet(Members \X (1 .. d)) /\ Cardinality(Members \X (1 .. d)) = Width * d
    /\ \E s \in [1 .. Width -> Members] : IsInjective(s)

Counting == LeastElement /\ Intervals /\ Pigeonhole /\ MembersCounted

\* A nonempty set of naturals has a least element.
LEMMA LeastOf ==
    ASSUME Counting, NEW T \in SUBSET Nat, T # {}
    PROVE  \E x \in T : \A y \in T : x <= y
BY DEF Counting, LeastElement

\* Induction over the naturals up to n.
LEMMA UpTo ==
    ASSUME Counting, NEW n \in Nat, NEW T, 0 \in T, \A k \in 0 .. n - 1 : k \in T => k + 1 \in T
    PROVE  \A k \in 0 .. n : k \in T
<1> SUFFICES ASSUME NEW j \in 0 .. n, j \notin T PROVE FALSE
  OBVIOUS
<1> DEFINE U == {k \in 0 .. n : k \notin T}
<1>1. U \in SUBSET Nat /\ U # {}
  OBVIOUS
<1>2. PICK x \in U : \A y \in U : x <= y
  BY <1>1, LeastOf
<1>3. x \in 0 .. n /\ x # 0 /\ x \notin T
  BY <1>2
<1>4. x - 1 \in 0 .. n - 1 /\ x - 1 + 1 = x /\ ~(x <= x - 1)
  BY <1>3
<1>5. x - 1 \in T
  BY <1>2, <1>4
<1> QED BY <1>3, <1>4, <1>5

LEMMA EmptyRange == DOMAIN <<>> = 1 .. 0 /\ \A c \in 1 .. 0 : FALSE
OBVIOUS

LEMMA NeitherLess ==
    ASSUME NEW a \in Nat, NEW b \in Nat, ~(a < b), b >= a
    PROVE  a = b
OBVIOUS

LEMMA SameSuccessor ==
    ASSUME NEW a \in Nat, NEW b \in Nat, NEW c, c = a + 1, c = b + 1
    PROVE  a = b
OBVIOUS

-----------------------------------------------------------------------------
(* Sequences of messages and their identities. *)

LEMMA TailIs ==
    ASSUME NEW S, NEW s \in Seq(S), s # <<>>
    PROVE  /\ Head(s) \in S /\ Head(s) = s[1] /\ Len(s) \in Nat \ {0} /\ 1 \in 1 .. Len(s)
           /\ Tail(s) \in Seq(S) /\ Len(Tail(s)) = Len(s) - 1
           /\ \A i \in 1 .. Len(Tail(s)) : i + 1 \in 1 .. Len(s) /\ i + 1 # 1 /\ Tail(s)[i] = s[i + 1]
           /\ \A i \in 1 .. Len(s) : i # 1 => i - 1 \in 1 .. Len(Tail(s)) /\ i - 1 + 1 = i
OBVIOUS

LEMMA AppendIs ==
    ASSUME NEW S, NEW s \in Seq(S), NEW x \in S
    PROVE  /\ Append(s, x) \in Seq(S) /\ Len(s) \in Nat /\ Len(Append(s, x)) = Len(s) + 1
           /\ \A i \in 1 .. Len(s) : i \in 1 .. Len(s) + 1 /\ Append(s, x)[i] = s[i]
           /\ Append(s, x)[Len(s) + 1] = x /\ Len(s) + 1 \in 1 .. Len(s) + 1
           /\ \A i \in 1 .. Len(s) + 1 : i \in 1 .. Len(s) \/ i = Len(s) + 1
           /\ Len(s) + 1 \notin 1 .. Len(s)
OBVIOUS

\* A job that has asked for its next tile.
IsFetching(k, j, n, h) ==
    /\ k \in Job /\ k.epoch = j.epoch /\ k.active = j.active /\ k.next = n
    /\ k.finishSent = j.finishSent /\ k.holds = h

LEMMA FetchingIs ==
    ASSUME NEW j \in Job, NEW n \in 1 .. Sources + 1, NEW h \in [1 .. Dests -> Tiles]
    PROVE  IsFetching([j EXCEPT !.next = n, !.holds = h], j, n, h)
BY DEF IsFetching, Job

LEMMA ConcatIs ==
    ASSUME NEW S, NEW s \in Seq(S), NEW t \in Seq(S)
    PROVE  /\ s \o t \in Seq(S) /\ Len(s) \in Nat /\ Len(t) \in Nat /\ Len(s \o t) = Len(s) + Len(t)
           /\ \A i \in 1 .. Len(s) : i \in 1 .. Len(s) + Len(t) /\ (s \o t)[i] = s[i]
           /\ \A i \in 1 .. Len(t) : Len(s) + i \in 1 .. Len(s) + Len(t) /\ (s \o t)[Len(s) + i] = t[i]
           /\ \A i \in 1 .. Len(s) + Len(t) :
                 i \in 1 .. Len(s) \/ (i - Len(s) \in 1 .. Len(t) /\ Len(s) + (i - Len(s)) = i)
OBVIOUS

IsConcat(s, t, u) ==
    /\ \A i \in 1 .. Len(s) : u[i] = s[i]
    /\ \A i \in 1 .. Len(t) : u[Len(s) + i] = t[i]
    /\ Len(u) = Len(s) + Len(t)
    /\ \A i \in 1 .. Len(s) + Len(t) :
          i \in 1 .. Len(s) \/ (i - Len(s) \in 1 .. Len(t) /\ Len(s) + (i - Len(s)) = i)

LEMMA ConcatSplit ==
    ASSUME NEW S, NEW s \in Seq(S), NEW t \in Seq(S)
    PROVE  IsConcat(s, t, s \o t)
BY DEF IsConcat

LEMMA AppendNotEmpty ==
    ASSUME NEW S, NEW s \in Seq(S), NEW x \in S
    PROVE  Append(s, x) # <<>>
<1>1. Len(Append(s, x)) = Len(s) + 1 /\ Len(s) \in Nat
  OBVIOUS
<1>2. Len(<<>>) = 0 /\ \A n \in Nat : n + 1 # 0
  OBVIOUS
<1> QED BY <1>1, <1>2

\* erase(it)
LEMMA RemoveIs ==
    ASSUME NEW S, NEW s \in Seq(S), NEW k \in 1 .. Len(s)
    PROVE  /\ Erase(s, k) \in Seq(S) /\ Len(s) \in Nat \ {0} /\ Len(Erase(s, k)) = Len(s) - 1
           /\ \A i \in 1 .. Len(s) - 1 :
                 Erase(s, k)[i] = s[IF i < k THEN i ELSE i + 1]
<1> DEFINE a == SubSeq(s, 1, k - 1)
           b == SubSeq(s, k + 1, Len(s))
<1>1. /\ a \in Seq(S) /\ Len(a) = k - 1 /\ \A i \in 1 .. k - 1 : a[i] = s[i]
  OBVIOUS
<1>2. /\ b \in Seq(S) /\ Len(b) = Len(s) - k /\ \A i \in 1 .. Len(s) - k : b[i] = s[k + i]
  OBVIOUS
<1>3. Erase(s, k) = a \o b
  BY DEF Erase
<1> HIDE DEF a, b
<1>4. Erase(s, k) \in Seq(S) /\ Len(Erase(s, k)) = Len(s) - 1
  BY <1>1, <1>2, <1>3
<1>5. ASSUME NEW i \in 1 .. Len(s) - 1 PROVE Erase(s, k)[i] = s[IF i < k THEN i ELSE i + 1]
  <2>1. CASE i < k
    <3>1. i \in 1 .. Len(a)
      BY <1>1, <2>1
    <3> QED BY <1>1, <1>2, <1>3, <2>1, <3>1
  <2>2. CASE ~(i < k)
    <3>1. i - Len(a) \in 1 .. Len(b) /\ Len(a) + (i - Len(a)) = i /\ k + (i - Len(a)) = i + 1
      BY <1>1, <1>2, <2>2
    <3>2. (a \o b)[Len(a) + (i - Len(a))] = b[i - Len(a)]
      <4>1. \A j \in 1 .. Len(b) : (a \o b)[Len(a) + j] = b[j]
        <5>1. a \in Seq(S) /\ b \in Seq(S)
          BY <1>1, <1>2
        <5> QED BY <5>1
      <4> QED BY <3>1, <4>1
    <3>3. (a \o b)[i] = b[i - Len(a)]
      BY <3>1, <3>2
    <3>4. b[i - Len(a)] = s[k + (i - Len(a))]
      BY <1>2, <3>1
    <3>5. (a \o b)[i] = s[i + 1]
      BY <3>1, <3>3, <3>4
    <3> QED BY <1>3, <2>2, <3>5
  <2> QED BY <2>1, <2>2
<1> QED BY <1>4, <1>5

\* The head leaves.
LEMMA IdsTail ==
    ASSUME NEW S, NEW s \in Seq(S), s # <<>>, Distinct(s)
    PROVE  /\ Distinct(Tail(s)) /\ Ids(Tail(s)) \subseteq Ids(s) \ {Id(Head(s))}
           /\ Id(Head(s)) \in Ids(s)
<1>1. /\ Head(s) = s[1] /\ 1 \in 1 .. Len(s)
      /\ \A i \in 1 .. Len(Tail(s)) : i + 1 \in 1 .. Len(s) /\ i + 1 # 1 /\ Tail(s)[i] = s[i + 1]
  BY TailIs
<1>2. \A i, j \in 1 .. Len(Tail(s)) : i + 1 = j + 1 => i = j
  OBVIOUS
<1>3. Distinct(Tail(s))
  BY <1>1, <1>2 DEF Distinct
<1>4. ASSUME NEW i \in 1 .. Len(Tail(s)) PROVE Id(Tail(s)[i]) \in Ids(s) /\ Id(Tail(s)[i]) # Id(Head(s))
  BY <1>1 DEF Ids, Distinct
<1> QED BY <1>1, <1>3, <1>4 DEF Ids

\* A message is queued.
LEMMA IdsAppend ==
    ASSUME NEW S, NEW s \in Seq(S), NEW x \in S
    PROVE  /\ Ids(Append(s, x)) = Ids(s) \cup {Id(x)}
           /\ Distinct(s) /\ Id(x) \notin Ids(s) => Distinct(Append(s, x))
<1> DEFINE t == Append(s, x)
<1>1. /\ Len(s) \in Nat /\ Len(t) = Len(s) + 1
      /\ \A i \in 1 .. Len(s) : i \in 1 .. Len(t) /\ t[i] = s[i]
      /\ t[Len(s) + 1] = x /\ Len(s) + 1 \in 1 .. Len(t)
      /\ \A i \in 1 .. Len(t) : i \in 1 .. Len(s) \/ i = Len(s) + 1
  BY AppendIs
<1> HIDE DEF t
<1>2. Ids(t) = Ids(s) \cup {Id(x)}
  <2>1. ASSUME NEW i \in 1 .. Len(t) PROVE Id(t[i]) \in Ids(s) \cup {Id(x)}
    BY <1>1 DEF Ids
  <2>2. ASSUME NEW i \in 1 .. Len(s) PROVE Id(s[i]) \in Ids(t)
    BY <1>1 DEF Ids
  <2>3. Id(x) \in Ids(t)
    BY <1>1 DEF Ids
  <2> QED BY <2>1, <2>2, <2>3 DEF Ids
<1>3. ASSUME Distinct(s), Id(x) \notin Ids(s) PROVE Distinct(t)
  <2>1. \A i \in 1 .. Len(s) : Id(t[i]) # Id(x)
    BY <1>1, <1>3 DEF Ids
  <2>2. \A i, j \in 1 .. Len(s) : Id(t[i]) = Id(t[j]) => i = j
    BY <1>1, <1>3 DEF Distinct
  <2> QED BY <1>1, <2>1, <2>2 DEF Distinct
<1> QED BY <1>2, <1>3 DEF t

\* A message is erased.
LEMMA IdsRemove ==
    ASSUME NEW S, NEW s \in Seq(S), NEW k \in 1 .. Len(s), Distinct(s)
    PROVE  /\ Distinct(Erase(s, k)) /\ Ids(Erase(s, k)) \subseteq Ids(s) \ {Id(s[k])}
           /\ Id(s[k]) \in Ids(s)
<1> DEFINE t == Erase(s, k)
           f(i) == IF i < k THEN i ELSE i + 1
<1>1. Len(s) \in Nat \ {0} /\ Len(t) = Len(s) - 1 /\ \A i \in 1 .. Len(t) : t[i] = s[f(i)]
  BY RemoveIs
<1> HIDE DEF t
<1>2. \A i \in 1 .. Len(t) : f(i) \in 1 .. Len(s) /\ f(i) # k
  BY <1>1
<1>3. \A i, j \in 1 .. Len(t) : f(i) = f(j) => i = j
  BY <1>1
<1> HIDE DEF f
<1>4. Distinct(t)
  BY <1>1, <1>2, <1>3 DEF Distinct
<1>5. ASSUME NEW i \in 1 .. Len(t) PROVE Id(t[i]) \in Ids(s) /\ Id(t[i]) # Id(s[k])
  BY <1>1, <1>2 DEF Ids, Distinct
<1> QED BY <1>4, <1>5 DEF Ids, t

\* Messages are queued together.
LEMMA IdsConcat ==
    ASSUME NEW S, NEW s \in Seq(S), NEW t \in Seq(S), Distinct(s), Distinct(t), Ids(s) \cap Ids(t) = {}
    PROVE  Distinct(s \o t) /\ Ids(s \o t) \subseteq Ids(s) \cup Ids(t)
<1> DEFINE u == s \o t
<1>1. /\ Len(s) \in Nat /\ Len(t) \in Nat /\ Len(u) = Len(s) + Len(t)
      /\ \A i \in 1 .. Len(s) : u[i] = s[i]
      /\ \A i \in 1 .. Len(t) : u[Len(s) + i] = t[i]
      /\ \A i \in 1 .. Len(u) :
                 i \in 1 .. Len(s) \/ (i - Len(s) \in 1 .. Len(t) /\ Len(s) + (i - Len(s)) = i)
  BY ConcatIs
<1> HIDE DEF u
<1>2. ASSUME NEW i \in 1 .. Len(u)
      PROVE  \/ i \in 1 .. Len(s) /\ u[i] = s[i] /\ Id(u[i]) \in Ids(s)
             \/ /\ i - Len(s) \in 1 .. Len(t) /\ Len(s) + (i - Len(s)) = i
                /\ u[i] = t[i - Len(s)] /\ Id(u[i]) \in Ids(t)
  <2>1. CASE i \in 1 .. Len(s)
    BY <1>1, <2>1 DEF Ids
  <2>2. CASE i - Len(s) \in 1 .. Len(t) /\ Len(s) + (i - Len(s)) = i
    <3>1. u[Len(s) + (i - Len(s))] = t[i - Len(s)]
      BY <1>1, <2>2
    <3> QED BY <2>2, <3>1 DEF Ids
  <2> QED BY <1>1, <2>1, <2>2
<1>3. ASSUME NEW i \in 1 .. Len(u), NEW j \in 1 .. Len(u), Id(u[i]) = Id(u[j]) PROVE i = j
  <2>1. CASE i \in 1 .. Len(s) /\ u[i] = s[i] /\ j \in 1 .. Len(s) /\ u[j] = s[j]
    BY <1>3, <2>1 DEF Distinct
  <2>2. CASE /\ i - Len(s) \in 1 .. Len(t) /\ Len(s) + (i - Len(s)) = i /\ u[i] = t[i - Len(s)]
             /\ j - Len(s) \in 1 .. Len(t) /\ Len(s) + (j - Len(s)) = j /\ u[j] = t[j - Len(s)]
    <3>1. i - Len(s) = j - Len(s)
      BY <1>3, <2>2 DEF Distinct
    <3> QED BY <2>2, <3>1
  <2> QED BY <1>2, <1>3, <2>1, <2>2
<1>4. \A i \in 1 .. Len(u) : Id(u[i]) \in Ids(s) \cup Ids(t)
  BY <1>2
<1> QED BY <1>3, <1>4 DEF Distinct, Ids, u

\* The order of the leader's releases to itself and its joins.
LEMMA OrderedTail ==
    ASSUME NEW S, NEW q \in Seq(S), q # <<>>, NEW now, Ordered(q, now)
    PROVE  Ordered(Tail(q), now)
<1> DEFINE t == Tail(q)
<1>1. /\ Len(q) \in Nat \ {0} /\ Len(t) = Len(q) - 1
      /\ \A i \in 1 .. Len(t) : i + 1 \in 1 .. Len(q) /\ t[i] = q[i + 1]
  BY TailIs
<1> HIDE DEF t
<1> SUFFICES ASSUME NEW k \in 1 .. Len(t), t[k].kind = "Release", t[k].to = Leader
             PROVE  \/ now = t[k].epoch
                    \/ /\ now = t[k].epoch + 1
                       /\ \E j \in k + 1 .. Len(t) : t[j].kind = "Join" /\ t[j].epoch = now
  BY DEF Ordered, t
<1>2. k + 1 \in 1 .. Len(q) /\ t[k] = q[k + 1]
  BY <1>1
<1>3. \/ now = q[k + 1].epoch
      \/ /\ now = q[k + 1].epoch + 1
         /\ \E j \in k + 1 + 1 .. Len(q) : q[j].kind = "Join" /\ q[j].epoch = now
  BY <1>2 DEF Ordered
<1>4. ASSUME NEW j \in k + 1 + 1 .. Len(q) PROVE j - 1 \in k + 1 .. Len(t) /\ t[j - 1] = q[j]
  <2>1. j - 1 \in k + 1 .. Len(t) /\ j - 1 \in 1 .. Len(t) /\ j - 1 + 1 = j
    BY <1>1
  <2> QED BY <1>1, <2>1
<1> QED BY <1>2, <1>3, <1>4

\* What is queued behind changes nothing.
LEMMA OrderedConcat ==
    ASSUME NEW S, NEW q \in Seq(S), NEW w \in Seq(S), NEW now, Ordered(q, now),
           \A k \in 1 .. Len(w) : w[k].kind = "Release" /\ w[k].to = Leader => now = w[k].epoch
    PROVE  Ordered(q \o w, now)
<1> DEFINE t == q \o w
<1>1. /\ Len(q) \in Nat /\ Len(w) \in Nat /\ Len(t) = Len(q) + Len(w)
      /\ \A i \in 1 .. Len(q) : i \in 1 .. Len(t) /\ t[i] = q[i]
      /\ \A i \in 1 .. Len(w) : t[Len(q) + i] = w[i]
      /\ \A i \in 1 .. Len(t) :
                 i \in 1 .. Len(q) \/ (i - Len(q) \in 1 .. Len(w) /\ Len(q) + (i - Len(q)) = i)
  BY ConcatIs
<1> HIDE DEF t
<1> SUFFICES ASSUME NEW k \in 1 .. Len(t), t[k].kind = "Release", t[k].to = Leader
             PROVE  \/ now = t[k].epoch
                    \/ /\ now = t[k].epoch + 1
                       /\ \E j \in k + 1 .. Len(t) : t[j].kind = "Join" /\ t[j].epoch = now
  BY DEF Ordered, t
<1>2. CASE k \in 1 .. Len(q)
  <2>1. t[k] = q[k]
    BY <1>1, <1>2
  <2>2. \/ now = q[k].epoch
        \/ /\ now = q[k].epoch + 1
           /\ \E j \in k + 1 .. Len(q) : q[j].kind = "Join" /\ q[j].epoch = now
    BY <1>2, <2>1 DEF Ordered
  <2>3. \A j \in k + 1 .. Len(q) : j \in k + 1 .. Len(t) /\ j \in 1 .. Len(q)
    BY <1>1, <1>2
  <2> QED BY <1>1, <2>1, <2>2, <2>3
<1>3. CASE k - Len(q) \in 1 .. Len(w) /\ Len(q) + (k - Len(q)) = k
  <2>1. t[k] = w[k - Len(q)]
    BY <1>1, <1>3
  <2> QED BY <1>3, <2>1
<1> QED BY <1>1, <1>2, <1>3

-----------------------------------------------------------------------------
(* Boxes. *)

LEMMA BoxNames ==
    /\ \A m \in Members : OutBox(m) \in Boxes /\ OutBox(m) # QueueBox /\ OutBox(m) # NetBox
    /\ \A i \in SlotIds : SlotBox(i) \in Boxes /\ SlotBox(i) # QueueBox /\ SlotBox(i) # NetBox
    /\ \A m, i : OutBox(m) # SlotBox(i)
    /\ \A m, v : OutBox(m) = OutBox(v) => m = v
    /\ \A i, k : SlotBox(i) = SlotBox(k) => i = k
    /\ QueueBox \in Boxes /\ NetBox \in Boxes /\ QueueBox # NetBox
<1>1. \A m, i : OutBox(m) # SlotBox(i) /\ OutBox(m) # QueueBox /\ OutBox(m) # NetBox
  BY DEF OutBox, SlotBox, QueueBox, NetBox
<1>2. \A i : SlotBox(i) # QueueBox /\ SlotBox(i) # NetBox
  BY DEF SlotBox, QueueBox, NetBox
<1>3. (\A m, v : OutBox(m) = OutBox(v) => m = v) /\ (\A i, k : SlotBox(i) = SlotBox(k) => i = k)
  BY DEF OutBox, SlotBox
<1>4. QueueBox # NetBox
  BY DEF QueueBox, NetBox
<1> QED BY <1>1, <1>2, <1>3, <1>4 DEF Boxes

IsBox(B, M, S, N) ==
    /\ \A m \in Members : B[OutBox(m)] = Ids(M[m].outgoing)
    /\ \A i \in SlotIds : B[SlotBox(i)] = Ids(S.slots[i].waiters)
    /\ B[QueueBox] = Ids(S.requests)
    /\ B[NetBox] = NetIds(N)

LEMMA BoxAt ==
    ASSUME NEW M, NEW S, NEW N
    PROVE  IsBox(Box(M, S, N), M, S, N)
<1>1. ASSUME NEW m \in Members PROVE Box(M, S, N)[OutBox(m)] = Ids(M[m].outgoing)
  <2>1. OutBox(m) \in Boxes /\ OutBox(m)[1] = "out" /\ OutBox(m)[2] = m
    BY BoxNames DEF OutBox
  <2> QED BY <2>1 DEF Box
<1>2. ASSUME NEW i \in SlotIds PROVE Box(M, S, N)[SlotBox(i)] = Ids(S.slots[i].waiters)
  <2>1. SlotBox(i) \in Boxes /\ SlotBox(i)[1] = "slot" /\ SlotBox(i)[2] = i
    BY BoxNames DEF SlotBox
  <2> QED BY <2>1 DEF Box
<1>3. Box(M, S, N)[QueueBox] = Ids(S.requests)
  <2>1. QueueBox \in Boxes /\ QueueBox[1] = "queue"
    BY BoxNames DEF QueueBox
  <2> QED BY <2>1 DEF Box
<1>4. Box(M, S, N)[NetBox] = NetIds(N)
  <2>1. NetBox \in Boxes /\ NetBox[1] = "net"
    BY BoxNames DEF NetBox
  <2> QED BY <2>1 DEF Box
<1> QED BY <1>1, <1>2, <1>3, <1>4 DEF IsBox

LEMMA BoxCases ==
    ASSUME NEW b \in Boxes
    PROVE  \/ \E m \in Members : b = OutBox(m)
           \/ \E i \in SlotIds : b = SlotBox(i)
           \/ b = QueueBox \/ b = NetBox
BY DEF Boxes

\* What is kept in two places is apart.
LEMMA Apart ==
    ASSUME NEW M, NEW S, NEW N, Unique(M, S, N)
    PROVE  /\ \A m \in Members : /\ Ids(M[m].outgoing) \cap NetIds(N) = {}
                                 /\ Ids(M[m].outgoing) \cap Ids(S.requests) = {}
           /\ \A m \in Members, i \in SlotIds : Ids(M[m].outgoing) \cap Ids(S.slots[i].waiters) = {}
           /\ \A i \in SlotIds : /\ Ids(S.slots[i].waiters) \cap NetIds(N) = {}
                                 /\ Ids(S.slots[i].waiters) \cap Ids(S.requests) = {}
           /\ Ids(S.requests) \cap NetIds(N) = {}
<1> DEFINE B == Box(M, S, N)
<1>1. \A a, b \in Boxes : a # b => B[a] \cap B[b] = {}
  BY DEF Unique, Disjoint
<1>2. IsBox(B, M, S, N)
  BY BoxAt
<1> HIDE DEF B
<1>3. ASSUME NEW m \in Members PROVE B[OutBox(m)] \cap B[NetBox] = {} /\ B[OutBox(m)] \cap B[QueueBox] = {}
  BY <1>1, BoxNames
<1>4. ASSUME NEW m \in Members, NEW i \in SlotIds PROVE B[OutBox(m)] \cap B[SlotBox(i)] = {}
  BY <1>1, BoxNames
<1>5. ASSUME NEW i \in SlotIds PROVE B[SlotBox(i)] \cap B[NetBox] = {} /\ B[SlotBox(i)] \cap B[QueueBox] = {}
  BY <1>1, BoxNames
<1>6. B[QueueBox] \cap B[NetBox] = {}
  BY <1>1, BoxNames
<1> QED BY <1>2, <1>3, <1>4, <1>5, <1>6 DEF IsBox

\* Identities move from box a to box b; some may vanish.
LEMMA MoveDisjoint ==
    ASSUME NEW B, NEW C, Disjoint(B), NEW a \in Boxes, NEW b \in Boxes, a # b,
           NEW X, X \subseteq B[a], C[a] \subseteq B[a] \ X, C[b] \subseteq B[b] \cup X,
           \A c \in Boxes : c # a /\ c # b => C[c] \subseteq B[c]
    PROVE  Disjoint(C)
<1> SUFFICES ASSUME NEW c \in Boxes, NEW d \in Boxes, c # d, NEW x, x \in C[c], x \in C[d] PROVE FALSE
  BY DEF Disjoint
<1>1. \A e, f \in Boxes : e # f => x \notin B[e] \/ x \notin B[f]
  BY DEF Disjoint
<1>2. \A e \in Boxes : x \in C[e] => x \in B[e] \/ (e = b /\ x \in X /\ x \in B[a] /\ x \notin C[a])
  OBVIOUS
<1> QED BY <1>1, <1>2

LEMMA ShrinkDisjoint ==
    ASSUME NEW B, NEW C, Disjoint(B), \A c \in Boxes : C[c] \subseteq B[c]
    PROVE  Disjoint(C)
BY DEF Disjoint

\* New identities appear in box a.
LEMMA FreshDisjoint ==
    ASSUME NEW B, NEW C, Disjoint(B), NEW a \in Boxes, NEW X,
           \A c \in Boxes : B[c] \cap X = {}, C[a] \subseteq B[a] \cup X,
           \A c \in Boxes : c # a => C[c] \subseteq B[c]
    PROVE  Disjoint(C)
<1> SUFFICES ASSUME NEW c \in Boxes, NEW d \in Boxes, c # d, NEW x, x \in C[c], x \in C[d] PROVE FALSE
  BY DEF Disjoint
<1>1. \A e, f \in Boxes : e # f => x \notin B[e] \/ x \notin B[f]
  BY DEF Disjoint
<1>2. \A e \in Boxes : x \in C[e] => x \in B[e] \/ (e = a /\ x \in X)
  OBVIOUS
<1>3. x \in X => \A e \in Boxes : x \notin B[e]
  OBVIOUS
<1> QED BY <1>1, <1>2, <1>3

-----------------------------------------------------------------------------
(* What a message depends on. *)

With(M, m, x) == [M EXCEPT ![m] = x]

\* A slot that did not change keeps its invariant.
LEMMA SameSlot ==
    ASSUME NEW S, NEW X, NEW T, NEW Y, NEW i \in SlotIds, SlotInv(S, X, i),
           T.slots[i] = S.slots[i], T.joined = S.joined, Y[i] = X[i]
    PROVE  SlotInv(T, Y, i)
BY DEF SlotInv

\* A slot that differs only in its waiters.
SameWork(t, s) ==
    /\ t.dma = s.dma /\ t.reading = s.reading /\ t.pending = s.pending /\ t.offset = s.offset /\ t.bytes = s.bytes
    /\ t.epoch = s.epoch /\ t.source = s.source

LEMMA SlotWithWaiters ==
    ASSUME NEW S, NEW X, NEW T, NEW i \in SlotIds, SlotInv(S, X, i), SameWork(T.slots[i], S.slots[i]),
           T.joined = S.joined, T.slots[i].waiters # <<>>, T.slots[i].epoch # 0, T.joined[T.slots[i].epoch] = Members
    PROVE  SlotInv(T, X, i)
BY DEF SlotInv, SameWork

\* A member that did not change keeps its invariants.
LEMMA SameLandings ==
    ASSUME NEW M, NEW J, NEW D, NEW A, NEW K, NEW E, NEW m \in Members, LandingInv(M, J, D, m), HoldsInv(J, D, m),
           A[m] = M[m], K[m] = J[m], E[m] = D[m]
    PROVE  LandingInv(A, K, E, m) /\ HoldsInv(K, E, m)
<1>1. ASSUME NEW l \in M[m].landings, LandingOk(J, D, m, l) PROVE LandingOk(K, E, m, l)
  BY <1>1 DEF LandingOk
<1>2. LandingInv(A, K, E, m)
  BY <1>1 DEF LandingInv
<1>3. HoldsInv(K, E, m)
  BY DEF HoldsInv
<1> QED BY <1>2, <1>3

\* Only member m changed.
Changed(A, M, m, x) ==
    A \in [Members -> Member] /\ A[m] = x /\ \A v \in Members : v # m => A[v] = M[v]

LEMMA WithIs ==
    ASSUME NEW M \in [Members -> Member], NEW m \in Members, NEW x \in Member
    PROVE  Changed(With(M, m, x), M, m, x)
BY DEF With, Changed

\* Nothing that a message refers to is lost.
Keeps(M, J, S, A, K, T) ==
    /\ T.joined = S.joined /\ T.finished = S.finished
    /\ \A v \in Members :
          /\ K[v].epoch = J[v].epoch /\ (J[v].finishSent => K[v].finishSent)
          /\ A[v].released = M[v].released
          /\ \A l \in M[v].landings : l.bytes = <<>> => l \in A[v].landings

LEMMA LeaderIs == Leader \in Members
BY CohortAssumption

LEMMA MessageIs ==
    ASSUME NEW msg \in Message
    PROVE  msg.from \in Members /\ msg.to \in Members /\ msg.epoch \in EpochIds /\ msg.source \in Tiles
BY DEF Message

LEMMA KeepsMsg ==
    ASSUME NEW M, NEW J, NEW S, NEW A, NEW K, NEW T, Keeps(M, J, S, A, K, T),
           NEW msg \in Message, MsgOk(M, J, S, msg)
    PROVE  MsgOk(A, K, T, msg)
<1>1. msg.from \in Members /\ msg.to \in Members /\ Leader \in Members
  BY MessageIs, LeaderIs
<1>2. \A v \in Members : \A e, s : Waiting(M, v, e, s) => Waiting(A, v, e, s)
  BY DEF Keeps, Waiting
<1>3. /\ T.joined = S.joined /\ T.finished = S.finished
      /\ \A v \in Members : /\ K[v].epoch = J[v].epoch /\ (J[v].finishSent => K[v].finishSent)
                            /\ A[v].released = M[v].released
  BY DEF Keeps
<1> QED BY <1>1, <1>2, <1>3 DEF MsgOk

LEMMA KeepsEpoch ==
    ASSUME NEW M, NEW J, NEW S, NEW A, NEW K, NEW T, Keeps(M, J, S, A, K, T),
           NEW e, S.joined[e] \subseteq Members, S.finished[e] \subseteq Members, EpochInv(M, J, S, e)
    PROVE  EpochInv(A, K, T, e)
<1>1. /\ T.joined = S.joined /\ T.finished = S.finished
      /\ \A v \in Members : /\ K[v].epoch = J[v].epoch /\ (J[v].finishSent => K[v].finishSent)
                            /\ A[v].released = M[v].released
  BY DEF Keeps
<1> QED BY <1>1, LeaderIs DEF EpochInv

LEMMA KeepsJob ==
    ASSUME NEW M, NEW J, NEW A, NEW m \in Members, \A v \in Members : A[v].released = M[v].released,
           JobInv(M, J, m)
    PROVE  JobInv(A, J, m)
BY LeaderIs DEF JobInv

\* Where the messages are, member by member and slot by slot.
SameQueues(M, S, A, T) ==
    /\ \A v \in Members : A[v].outgoing = M[v].outgoing
    /\ T.requests = S.requests
    /\ \A i \in SlotIds : /\ T.slots[i].waiters = S.slots[i].waiters
                          /\ T.slots[i].epoch = S.slots[i].epoch
                          /\ T.slots[i].source = S.slots[i].source

\* Every kept message is a message.
LEMMA KeptTypes ==
    ASSUME NEW M \in [Members -> Member], NEW S \in Server
    PROVE  /\ \A v \in Members : /\ M[v] \in Member /\ M[v].outgoing \in Seq(Message)
                                 /\ \A k \in 1 .. Len(M[v].outgoing) : M[v].outgoing[k] \in Message
           /\ S.requests \in Seq(Message) /\ \A k \in 1 .. Len(S.requests) : S.requests[k] \in Message
           /\ \A i \in SlotIds : /\ S.slots[i] \in Slot /\ S.slots[i].waiters \in Seq(Message)
                                 /\ \A k \in 1 .. Len(S.slots[i].waiters) : S.slots[i].waiters[k] \in Message
<1>1. \A s \in Seq(Message) : \A k \in 1 .. Len(s) : s[k] \in Message
  OBVIOUS
<1>2. \A v \in Members : M[v] \in Member /\ M[v].outgoing \in Seq(Message)
  BY DEF Member
<1>3. S.requests \in Seq(Message) /\ S.slots \in [SlotIds -> Slot]
  BY DEF Server
<1>4. \A i \in SlotIds : S.slots[i] \in Slot
  BY <1>3
<1>5. \A x \in Slot : x.waiters \in Seq(Message)
  BY DEF Slot
<1> QED BY <1>1, <1>2, <1>3, <1>4, <1>5

\* The messages stay where they are; some may leave the network.
LEMMA SameBoxes ==
    ASSUME NEW M \in [Members -> Member], NEW S \in Server, NEW N, NEW A, NEW T, NEW O,
           Unique(M, S, N), SameQueues(M, S, A, T), O \subseteq N
    PROVE  Unique(A, T, O)
<1> DEFINE B == Box(M, S, N)
           C == Box(A, T, O)
<1>1. IsBox(B, M, S, N) /\ IsBox(C, A, T, O)
  BY BoxAt
<1>2. Disjoint(B)
  BY DEF Unique
<1> HIDE DEF B, C
<1>3. ASSUME NEW c \in Boxes PROVE C[c] \subseteq B[c]
  <2>1. ASSUME NEW m \in Members, c = OutBox(m) PROVE C[c] \subseteq B[c]
    BY <1>1, <2>1 DEF SameQueues, IsBox
  <2>2. ASSUME NEW i \in SlotIds, c = SlotBox(i) PROVE C[c] \subseteq B[c]
    BY <1>1, <2>2 DEF SameQueues, IsBox
  <2>3. CASE c = QueueBox
    BY <1>1, <2>3 DEF SameQueues, IsBox
  <2>4. CASE c = NetBox
    BY <1>1, <2>4 DEF IsBox, NetIds
  <2> QED BY <2>1, <2>2, <2>3, <2>4, BoxCases
<1>4. Disjoint(C)
  BY <1>2, <1>3, ShrinkDisjoint
<1> QED BY <1>4 DEF Unique, SameQueues, C

\* Nothing is lost and the messages stay: what is in flight stays right.
LEMMA Undisturbed ==
    ASSUME NEW M \in [Members -> Member], NEW S \in Server, NEW N \in SUBSET Message, NEW J,
           NEW A, NEW K, NEW T, MsgInv(M, J, S, N), SameQueues(M, S, A, T), Keeps(M, J, S, A, K, T)
    PROVE  MsgInv(A, K, T, N)
<1>1. \A msg \in Message : MsgOk(M, J, S, msg) => MsgOk(A, K, T, msg)
  BY KeepsMsg
<1>2. ASSUME NEW v \in Members, NEW k \in 1 .. Len(M[v].outgoing)
      PROVE  OutOk(A, K, T, v, M[v].outgoing[k])
  BY <1>1, KeptTypes DEF MsgInv, OutOk
<1>3. ASSUME NEW k \in 1 .. Len(S.requests) PROVE RequestOk(A, K, T, S.requests[k])
  BY <1>1, KeptTypes DEF MsgInv, RequestOk
<1>4. ASSUME NEW i \in SlotIds, NEW k \in 1 .. Len(S.slots[i].waiters)
      PROVE  WaiterOk(A, K, T, i, S.slots[i].waiters[k])
  <2>1. WaiterOk(M, J, S, i, S.slots[i].waiters[k]) /\ S.slots[i].waiters[k] \in Message
    BY KeptTypes DEF MsgInv
  <2>2. T.slots[i].epoch = S.slots[i].epoch /\ T.slots[i].source = S.slots[i].source
    BY DEF SameQueues
  <2> QED BY <1>1, <2>1, <2>2 DEF WaiterOk, RequestOk
<1>5. \A msg \in N : MsgOk(A, K, T, msg)
  BY <1>1 DEF MsgInv
<1>6. /\ \A v \in Members : A[v].outgoing = M[v].outgoing
      /\ T.requests = S.requests
      /\ \A i \in SlotIds : T.slots[i].waiters = S.slots[i].waiters
  BY DEF SameQueues
<1>7. \A v \in Members : \A k \in 1 .. Len(A[v].outgoing) : OutOk(A, K, T, v, A[v].outgoing[k])
  BY <1>2, <1>6
<1>8. \A k \in 1 .. Len(T.requests) : RequestOk(A, K, T, T.requests[k])
  BY <1>3, <1>6
<1>9. \A i \in SlotIds : \A k \in 1 .. Len(T.slots[i].waiters) : WaiterOk(A, K, T, i, T.slots[i].waiters[k])
  BY <1>4, <1>6
<1> QED BY <1>5, <1>7, <1>8, <1>9 DEF MsgInv

\* Message msg left the network, and only messages about the same may be hurt.
LEMMA Consumed ==
    ASSUME NEW M \in [Members -> Member], NEW S \in Server, NEW N \in SUBSET Message, NEW J,
           NEW A, NEW K, NEW T, MsgInv(M, J, S, N), Unique(M, S, N), SameQueues(M, S, A, T),
           NEW msg \in N,
           \A y \in Message : Id(y) # Id(msg) /\ MsgOk(M, J, S, y) => MsgOk(A, K, T, y)
    PROVE  MsgInv(A, K, T, N \ {msg}) /\ Unique(A, T, N \ {msg})
<1>1. /\ \A v \in Members : Id(msg) \notin Ids(M[v].outgoing)
      /\ \A i \in SlotIds : Id(msg) \notin Ids(S.slots[i].waiters)
      /\ Id(msg) \notin Ids(S.requests)
  <2>1. Id(msg) \in NetIds(N)
    BY DEF NetIds
  <2> QED BY <2>1, Apart
<1>2. ASSUME NEW v \in Members, NEW k \in 1 .. Len(M[v].outgoing)
      PROVE  OutOk(A, K, T, v, M[v].outgoing[k])
  <2>1. Id(M[v].outgoing[k]) # Id(msg)
    BY <1>1 DEF Ids
  <2> QED BY <2>1, KeptTypes DEF MsgInv, OutOk
<1>3. ASSUME NEW k \in 1 .. Len(S.requests) PROVE RequestOk(A, K, T, S.requests[k])
  <2>1. Id(S.requests[k]) # Id(msg)
    BY <1>1 DEF Ids
  <2> QED BY <2>1, KeptTypes DEF MsgInv, RequestOk
<1>4. ASSUME NEW i \in SlotIds, NEW k \in 1 .. Len(S.slots[i].waiters)
      PROVE  WaiterOk(A, K, T, i, S.slots[i].waiters[k])
  <2>1. WaiterOk(M, J, S, i, S.slots[i].waiters[k]) /\ S.slots[i].waiters[k] \in Message
    BY KeptTypes DEF MsgInv
  <2>2. T.slots[i].epoch = S.slots[i].epoch /\ T.slots[i].source = S.slots[i].source
    BY DEF SameQueues
  <2>3. Id(S.slots[i].waiters[k]) # Id(msg)
    BY <1>1 DEF Ids
  <2> QED BY <2>1, <2>2, <2>3 DEF WaiterOk, RequestOk
<1>5. \A y \in N \ {msg} : MsgOk(A, K, T, y)
  BY DEF MsgInv, Unique
<1>6. /\ \A v \in Members : A[v].outgoing = M[v].outgoing
      /\ T.requests = S.requests
      /\ \A i \in SlotIds : T.slots[i].waiters = S.slots[i].waiters
  BY DEF SameQueues
<1>7. \A v \in Members : \A k \in 1 .. Len(A[v].outgoing) : OutOk(A, K, T, v, A[v].outgoing[k])
  BY <1>2, <1>6
<1>8. \A k \in 1 .. Len(T.requests) : RequestOk(A, K, T, T.requests[k])
  BY <1>3, <1>6
<1>9. \A i \in SlotIds : \A k \in 1 .. Len(T.slots[i].waiters) : WaiterOk(A, K, T, i, T.slots[i].waiters[k])
  BY <1>4, <1>6
<1>10. MsgInv(A, K, T, N \ {msg})
  BY <1>5, <1>7, <1>8, <1>9 DEF MsgInv
<1> QED BY <1>10, SameBoxes

-----------------------------------------------------------------------------
(* pumpMessages and receive. *)

\* The first message of a member's queue is on its way.
LEMMA Popped ==
    ASSUME NEW M, NEW J, NEW D, NEW S, NEW X, NEW N, Inv(M, J, D, S, X, N),
           NEW m \in Members, M[m].outgoing # <<>>
    PROVE  /\ Head(M[m].outgoing) \in Message /\ Head(M[m].outgoing) \notin N
           /\ Inv(With(M, m, [M[m] EXCEPT !.outgoing = Tail(@)]), J, D, S, X, N \cup {Head(M[m].outgoing)})
<1> DEFINE q == M[m].outgoing
           h == Head(q)
           x == [M[m] EXCEPT !.outgoing = Tail(@)]
           A == With(M, m, x)
           O == N \cup {h}
<1>1. M \in [Members -> Member] /\ S \in Server /\ N \in SUBSET Message /\ J \in [Members -> Job]
  BY DEF Inv, Typed
<1>2. M[m] \in Member /\ q \in Seq(Message)
  BY <1>1 DEF Member
<1>3. /\ h \in Message /\ h = q[1] /\ 1 \in 1 .. Len(q) /\ Tail(q) \in Seq(Message)
      /\ \A i \in 1 .. Len(Tail(q)) : i + 1 \in 1 .. Len(q) /\ i + 1 # 1 /\ Tail(q)[i] = q[i + 1]
      /\ \A i \in 1 .. Len(q) : i # 1 => i - 1 \in 1 .. Len(Tail(q)) /\ i - 1 + 1 = i
  BY <1>2, TailIs
<1>4. /\ x \in Member /\ x.outgoing = Tail(q) /\ x.landings = M[m].landings /\ x.released = M[m].released
  BY <1>2, <1>3 DEF Member
<1> HIDE DEF x, q
<1>5. A \in [Members -> Member] /\ A[m] = x /\ \A v \in Members : v # m => A[v] = M[v]
  <2>1. Changed(A, M, m, x)
    BY <1>1, <1>4, WithIs
  <2> QED BY <2>1 DEF Changed
<1>6. \A v \in Members : A[v].landings = M[v].landings /\ A[v].released = M[v].released
  BY <1>4, <1>5
<1> HIDE DEF A
<1>7. Keeps(M, J, S, A, J, S)
  BY <1>6 DEF Keeps
<1>8. Distinct(q) /\ \A k \in 1 .. Len(q) : OutOk(M, J, S, m, q[k])
  BY DEF Inv, Unique, MsgInv, q
<1>9. Distinct(Tail(q)) /\ Ids(Tail(q)) \subseteq Ids(q) \ {Id(h)} /\ Id(h) \in Ids(q)
  BY <1>2, <1>8, IdsTail DEF q
<1> HIDE DEF h
<1>10. Id(h) \notin NetIds(N)
  <2>1. Ids(q) \cap NetIds(N) = {}
    BY Apart DEF Inv, q
  <2> QED BY <2>1, <1>9
<1>11. MsgInv(A, J, S, O)
  <2>1. \A msg \in Message : MsgOk(M, J, S, msg) => MsgOk(A, J, S, msg)
    BY <1>7, KeepsMsg
  <2>2. ASSUME NEW v \in Members, NEW k \in 1 .. Len(A[v].outgoing) PROVE OutOk(A, J, S, v, A[v].outgoing[k])
    <3>1. CASE v = m
      <4>1. A[v].outgoing[k] = q[k + 1] /\ k + 1 \in 1 .. Len(q)
        BY <1>3, <1>4, <1>5, <3>1
      <4>2. q[k + 1] \in Message /\ OutOk(M, J, S, m, q[k + 1])
        BY <1>2, <1>8, <4>1
      <4> QED BY <2>1, <3>1, <4>1, <4>2 DEF OutOk
    <3>2. CASE v # m
      <4>1. A[v] = M[v]
        BY <1>5, <3>2
      <4>2. M[v].outgoing[k] \in Message /\ OutOk(M, J, S, v, M[v].outgoing[k])
        BY <1>1, <4>1, KeptTypes DEF Inv, MsgInv
      <4> QED BY <2>1, <4>1, <4>2 DEF OutOk
    <3> QED BY <3>1, <3>2
  <2>3. MsgOk(M, J, S, h)
    BY <1>3, <1>8 DEF OutOk
  <2>4. \A y \in O : MsgOk(A, J, S, y)
    BY <1>1, <1>3, <2>1, <2>3 DEF Inv, MsgInv
  <2>5. \A k \in 1 .. Len(S.requests) : RequestOk(A, J, S, S.requests[k])
    BY <1>1, <2>1, KeptTypes DEF Inv, MsgInv, RequestOk
  <2>6. \A i \in SlotIds : \A k \in 1 .. Len(S.slots[i].waiters) : WaiterOk(A, J, S, i, S.slots[i].waiters[k])
    BY <1>1, <2>1, KeptTypes DEF Inv, MsgInv, WaiterOk, RequestOk
  <2> QED BY <2>2, <2>4, <2>5, <2>6 DEF MsgInv
<1>12. Unique(A, S, O)
  <2>1. Unique(M, S, N)
    BY DEF Inv
  <2>2. \A v \in Members : Distinct(A[v].outgoing)
    BY <1>4, <1>5, <1>9, <2>1 DEF Unique
  <2>3. \A y, z \in O : Id(y) = Id(z) => y = z
    BY <1>10, <2>1 DEF Unique, NetIds
  <2>4. Disjoint(Box(A, S, O))
    <3> DEFINE B == Box(M, S, N)
               C == Box(A, S, O)
    <3>1. Disjoint(B)
      BY <2>1 DEF Unique
    <3>2. OutBox(m) \in Boxes /\ NetBox \in Boxes /\ OutBox(m) # NetBox
      BY BoxNames
    <3>3. IsBox(B, M, S, N) /\ IsBox(C, A, S, O)
      BY BoxAt
    <3> HIDE DEF B, C
    <3>4. NetIds(O) = NetIds(N) \cup {Id(h)}
      BY DEF NetIds
    <3>5. ASSUME NEW c \in Boxes, c # OutBox(m), c # NetBox PROVE C[c] \subseteq B[c]
      <4>1. ASSUME NEW v \in Members, c = OutBox(v) PROVE C[c] \subseteq B[c]
        <5>1. A[v] = M[v]
          BY <1>5, <3>5, <4>1
        <5> QED BY <3>3, <4>1, <5>1 DEF IsBox
      <4>2. ASSUME NEW i \in SlotIds, c = SlotBox(i) PROVE C[c] \subseteq B[c]
        BY <3>3, <4>2 DEF IsBox
      <4>3. CASE c = QueueBox
        BY <3>3, <4>3 DEF IsBox
      <4> QED BY <3>5, <4>1, <4>2, <4>3, BoxCases
    <3>6. B[OutBox(m)] = Ids(q) /\ C[OutBox(m)] = Ids(Tail(q))
      BY <1>4, <1>5, <3>3 DEF IsBox, q
    <3>7. {Id(h)} \subseteq B[OutBox(m)] /\ C[OutBox(m)] \subseteq B[OutBox(m)] \ {Id(h)}
      BY <1>9, <3>6
    <3>8. C[NetBox] \subseteq B[NetBox] \cup {Id(h)}
      BY <3>3, <3>4 DEF IsBox
    <3> QED BY <3>1, <3>2, <3>5, <3>7, <3>8, MoveDisjoint DEF C
  <2> QED BY <2>1, <2>2, <2>3, <2>4 DEF Unique
<1>13. Ordered(A[Leader].outgoing, J[Leader].epoch)
  <2>1. Ordered(M[Leader].outgoing, J[Leader].epoch)
    BY DEF Inv
  <2>2. CASE m = Leader
    <3>1. A[Leader].outgoing = Tail(M[Leader].outgoing) /\ M[Leader].outgoing # <<>> /\ M[Leader].outgoing \in Seq(Message)
      BY <1>2, <1>4, <1>5, <2>2 DEF q
    <3> QED BY <2>1, <3>1, OrderedTail
  <2>3. CASE m # Leader
    BY <1>5, <2>1, <2>3, LeaderIs
  <2> QED BY <2>2, <2>3
<1>14. ASSUME NEW v \in Members PROVE LandingInv(A, J, D, v) /\ HoldsInv(J, D, v) /\ JobInv(A, J, v)
  BY <1>6, KeepsJob DEF Inv, LandingInv
<1>15. ASSUME NEW e \in EpochIds PROVE EpochInv(A, J, S, e)
  <2>1. S.joined[e] \subseteq Members /\ S.finished[e] \subseteq Members
    BY <1>1 DEF Server
  <2> QED BY <1>7, <2>1, KeepsEpoch DEF Inv
<1>16. Typed(A, J, D, S, X, O)
  BY <1>3, <1>5 DEF Inv, Typed
<1>17. \A i \in SlotIds : SlotInv(S, X, i)
  BY DEF Inv
<1>18. Inv(A, J, D, S, X, O)
  BY <1>11, <1>12, <1>13, <1>14, <1>15, <1>16, <1>17 DEF Inv
<1>19. h \notin N
  BY <1>10 DEF NetIds
<1> QED BY <1>3, <1>18, <1>19 DEF A, x, h, q

\* Join: the leader notes the member.
LEMMA JoinReceived ==
    ASSUME NEW M, NEW J, NEW D, NEW S, NEW X, NEW N, Inv(M, J, D, S, X, N),
           NEW msg \in N, msg.kind = "Join"
    PROVE  Inv(M, J, D, [S EXCEPT !.joined = [@ EXCEPT ![msg.epoch] = S.joined[msg.epoch] \cup {msg.from}]], X, N \ {msg})
<1> DEFINE T == [S EXCEPT !.joined = [@ EXCEPT ![msg.epoch] = S.joined[msg.epoch] \cup {msg.from}]]
<1>1. /\ M \in [Members -> Member] /\ S \in Server /\ N \in SUBSET Message
      /\ MsgInv(M, J, S, N) /\ Unique(M, S, N)
  BY DEF Inv, Typed
<1>2. /\ msg \in Message /\ msg.from \in Members /\ msg.epoch \in EpochIds
  BY <1>1, MessageIs
<1>3. J[msg.from].epoch = msg.epoch /\ msg.source = 0
  BY <1>1 DEF MsgInv, MsgOk
<1>4. /\ T \in Server /\ T.finished = S.finished /\ T.requests = S.requests /\ T.slots = S.slots
      /\ T.joined[msg.epoch] = S.joined[msg.epoch] \cup {msg.from}
      /\ \A e \in EpochIds : e # msg.epoch => T.joined[e] = S.joined[e]
  BY <1>1, <1>2 DEF Server
<1> HIDE DEF T
<1>5. \A e \in EpochIds : S.joined[e] \subseteq Members
  BY <1>1 DEF Server
<1>6. SameQueues(M, S, M, T)
  BY <1>4 DEF SameQueues
<1>7. ASSUME NEW y \in Message, Id(y) # Id(msg), MsgOk(M, J, S, y) PROVE MsgOk(M, J, T, y)
  <2>1. y.kind = "Join" => y.from \notin T.joined[y.epoch]
    <3> SUFFICES ASSUME y.kind = "Join", y.from \in T.joined[y.epoch] PROVE FALSE
      OBVIOUS
    <3>1. y.epoch \in EpochIds /\ y.from \notin S.joined[y.epoch] /\ y.source = 0
      BY <1>7, MessageIs DEF MsgOk
    <3>2. y.epoch = msg.epoch /\ y.from = msg.from
      BY <1>4, <3>1
    <3> QED BY <1>3, <1>7, <3>1, <3>2 DEF Id
  <2> QED BY <1>4, <1>7, <2>1 DEF MsgOk
<1>8. MsgInv(M, J, T, N \ {msg}) /\ Unique(M, T, N \ {msg})
  BY <1>1, <1>6, <1>7, Consumed
<1>9. ASSUME NEW e \in EpochIds PROVE EpochInv(M, J, T, e)
  <2>1. EpochInv(M, J, S, e)
    BY DEF Inv
  <2>2. J \in [Members -> Job] /\ msg.epoch \in Nat
    BY <1>2 DEF Inv, Typed, EpochIds
  <2>3. \A m \in T.joined[e] : J[m].epoch >= e
    BY <1>3, <1>4, <2>1, <2>2 DEF EpochInv
  <2>4. S.joined[e] = Members => T.joined[e] = Members
    BY <1>2, <1>4, <1>5
  <2> QED BY <1>4, <2>1, <2>3, <2>4 DEF EpochInv
<1>10. ASSUME NEW i \in SlotIds PROVE SlotInv(T, X, i)
  <2>1. SlotInv(S, X, i) /\ S.slots[i] \in Slot
    BY <1>1, KeptTypes DEF Inv
  <2>2. ASSUME S.slots[i].waiters # <<>> PROVE T.joined[S.slots[i].epoch] = Members
    <3>1. S.slots[i].epoch \in EpochIds /\ S.joined[S.slots[i].epoch] = Members
      BY <2>1, <2>2 DEF SlotInv, Slot, EpochIds
    <3> QED BY <1>2, <1>4, <3>1
  <2> QED BY <1>4, <2>1, <2>2 DEF SlotInv
<1>11. Typed(M, J, D, T, X, N \ {msg})
  BY <1>4 DEF Inv, Typed
<1>12. Inv(M, J, D, T, X, N \ {msg})
  BY <1>8, <1>9, <1>10, <1>11 DEF Inv
<1> QED BY <1>12 DEF T

\* Finish: likewise.
LEMMA FinishReceived ==
    ASSUME NEW M, NEW J, NEW D, NEW S, NEW X, NEW N, Inv(M, J, D, S, X, N),
           NEW msg \in N, msg.kind = "Finish"
    PROVE  Inv(M, J, D, [S EXCEPT !.finished = [@ EXCEPT ![msg.epoch] = S.finished[msg.epoch] \cup {msg.from}]], X, N \ {msg})
<1> DEFINE T == [S EXCEPT !.finished = [@ EXCEPT ![msg.epoch] = S.finished[msg.epoch] \cup {msg.from}]]
<1>1. /\ M \in [Members -> Member] /\ S \in Server /\ N \in SUBSET Message
      /\ MsgInv(M, J, S, N) /\ Unique(M, S, N)
  BY DEF Inv, Typed
<1>2. /\ msg \in Message /\ msg.from \in Members /\ msg.epoch \in EpochIds
  BY <1>1, MessageIs
<1>3. J[msg.from].epoch = msg.epoch /\ J[msg.from].finishSent /\ msg.source = 0
  BY <1>1 DEF MsgInv, MsgOk
<1>4. /\ T \in Server /\ T.joined = S.joined /\ T.requests = S.requests /\ T.slots = S.slots
      /\ T.finished[msg.epoch] = S.finished[msg.epoch] \cup {msg.from}
      /\ \A e \in EpochIds : e # msg.epoch => T.finished[e] = S.finished[e]
  BY <1>1, <1>2 DEF Server
<1> HIDE DEF T
<1>5. \A e \in EpochIds : S.finished[e] \subseteq Members
  BY <1>1 DEF Server
<1>6. SameQueues(M, S, M, T)
  BY <1>4 DEF SameQueues
<1>7. ASSUME NEW y \in Message, Id(y) # Id(msg), MsgOk(M, J, S, y) PROVE MsgOk(M, J, T, y)
  <2>1. y.kind = "Finish" => y.from \notin T.finished[y.epoch]
    <3> SUFFICES ASSUME y.kind = "Finish", y.from \in T.finished[y.epoch] PROVE FALSE
      OBVIOUS
    <3>1. y.epoch \in EpochIds /\ y.from \notin S.finished[y.epoch] /\ y.source = 0
      BY <1>7, MessageIs DEF MsgOk
    <3>2. y.epoch = msg.epoch /\ y.from = msg.from
      BY <1>4, <3>1
    <3> QED BY <1>3, <1>7, <3>1, <3>2 DEF Id
  <2> QED BY <1>4, <1>7, <2>1 DEF MsgOk
<1>8. MsgInv(M, J, T, N \ {msg}) /\ Unique(M, T, N \ {msg})
  BY <1>1, <1>6, <1>7, Consumed
<1>9. ASSUME NEW e \in EpochIds PROVE EpochInv(M, J, T, e)
  <2>1. EpochInv(M, J, S, e)
    BY DEF Inv
  <2>2. \A m \in T.finished[e] : J[m].epoch > e \/ (J[m].epoch = e /\ J[m].finishSent)
    BY <1>3, <1>4, <2>1 DEF EpochInv
  <2>3. S.finished[e] = Members => T.finished[e] = Members
    BY <1>2, <1>4, <1>5
  <2> QED BY <1>4, <2>1, <2>2, <2>3 DEF EpochInv
<1>10. ASSUME NEW i \in SlotIds PROVE SlotInv(T, X, i)
  <2>1. SlotInv(S, X, i)
    BY DEF Inv
  <2> QED BY <1>4, <2>1 DEF SlotInv
<1>11. Typed(M, J, D, T, X, N \ {msg})
  BY <1>4 DEF Inv, Typed
<1>12. Inv(M, J, D, T, X, N \ {msg})
  BY <1>8, <1>9, <1>10, <1>11 DEF Inv
<1> QED BY <1>12 DEF T

\* Release: the member may end the operator.
LEMMA ReleaseReceived ==
    ASSUME NEW M, NEW J, NEW D, NEW S, NEW X, NEW N, Inv(M, J, D, S, X, N),
           NEW msg \in N, msg.kind = "Release"
    PROVE  /\ [M[msg.to] EXCEPT !.released = @ \cup {msg.epoch}] \in Member
           /\ Inv(With(M, msg.to, [M[msg.to] EXCEPT !.released = @ \cup {msg.epoch}]), J, D, S, X, N \ {msg})
<1> DEFINE m == msg.to
           x == [M[m] EXCEPT !.released = @ \cup {msg.epoch}]
           A == With(M, m, x)
<1>1. /\ M \in [Members -> Member] /\ S \in Server /\ N \in SUBSET Message
      /\ MsgInv(M, J, S, N) /\ Unique(M, S, N)
  BY DEF Inv, Typed
<1>2. /\ msg \in Message /\ m \in Members /\ msg.epoch \in EpochIds
  BY <1>1, MessageIs
<1>3. msg.epoch \in M[Leader].released /\ msg.source = 0
  BY <1>1 DEF MsgInv, MsgOk
<1>4. /\ x \in Member /\ x.outgoing = M[m].outgoing /\ x.landings = M[m].landings
      /\ x.released = M[m].released \cup {msg.epoch}
  BY <1>1, <1>2 DEF Member
<1> HIDE DEF x
<1>5. A \in [Members -> Member] /\ A[m] = x /\ \A v \in Members : v # m => A[v] = M[v]
  <2>1. Changed(A, M, m, x)
    BY <1>1, <1>2, <1>4, WithIs
  <2> QED BY <2>1 DEF Changed
<1> HIDE DEF A
<1>6. \A v \in Members : A[v].landings = M[v].landings /\ A[v].outgoing = M[v].outgoing
  BY <1>4, <1>5
<1>7. A[Leader].released = M[Leader].released
  BY <1>3, <1>4, <1>5, LeaderIs
<1>8. SameQueues(M, S, A, S)
  BY <1>6 DEF SameQueues
<1>9. ASSUME NEW y \in Message, Id(y) # Id(msg), MsgOk(M, J, S, y) PROVE MsgOk(A, J, S, y)
  <2>1. y.kind = "Release" /\ y.to # Leader => y.epoch \notin A[y.to].released
    <3> SUFFICES ASSUME y.kind = "Release", y.to # Leader, y.epoch \in A[y.to].released PROVE FALSE
      OBVIOUS
    <3>1. y.to \in Members /\ y.epoch \notin M[y.to].released /\ y.source = 0
      BY <1>9, MessageIs DEF MsgOk
    <3>2. y.to = m /\ y.epoch = msg.epoch
      BY <1>4, <1>5, <3>1
    <3> QED BY <1>3, <1>9, <3>1, <3>2 DEF Id
  <2>2. \A v \in Members : \A e, s : Waiting(M, v, e, s) => Waiting(A, v, e, s)
    BY <1>6 DEF Waiting
  <2>3. y.from \in Members /\ y.to \in Members
    BY MessageIs
  <2> QED BY <1>7, <1>9, <2>1, <2>2, <2>3 DEF MsgOk
<1>10. MsgInv(A, J, S, N \ {msg}) /\ Unique(A, S, N \ {msg})
  BY <1>1, <1>8, <1>9, Consumed
<1>11. ASSUME NEW v \in Members PROVE LandingInv(A, J, D, v) /\ HoldsInv(J, D, v) /\ JobInv(A, J, v)
  <2>1. LandingInv(M, J, D, v) /\ HoldsInv(J, D, v) /\ JobInv(M, J, v)
    BY DEF Inv
  <2>2. LandingInv(A, J, D, v)
    BY <1>6, <2>1 DEF LandingInv
  <2>3. M[v].released \subseteq A[v].released /\ (M[v].released \subseteq M[Leader].released => A[v].released \subseteq M[Leader].released)
    BY <1>3, <1>4, <1>5
  <2> QED BY <1>7, <2>1, <2>2, <2>3 DEF JobInv
<1>12. ASSUME NEW e \in EpochIds PROVE EpochInv(A, J, S, e)
  BY <1>7 DEF Inv, EpochInv
<1>13. Typed(A, J, D, S, X, N \ {msg})
  BY <1>5 DEF Inv, Typed
<1>14. Ordered(A[Leader].outgoing, J[Leader].epoch)
  BY <1>6, LeaderIs DEF Inv
<1>15. Inv(A, J, D, S, X, N \ {msg})
  BY <1>10, <1>11, <1>12, <1>13, <1>14 DEF Inv
<1> QED BY <1>4, <1>15 DEF A, x

\* Request: it waits in the leader's queue.
LEMMA RequestReceived ==
    ASSUME NEW M, NEW J, NEW D, NEW S, NEW X, NEW N, Inv(M, J, D, S, X, N),
           NEW msg \in N, msg.kind = "Request"
    PROVE  Inv(M, J, D, [S EXCEPT !.requests = Append(@, msg)], X, N \ {msg})
<1> DEFINE T == [S EXCEPT !.requests = Append(@, msg)]
<1>1. /\ M \in [Members -> Member] /\ S \in Server /\ N \in SUBSET Message
      /\ MsgInv(M, J, S, N) /\ Unique(M, S, N)
  BY DEF Inv, Typed
<1>2. msg \in Message /\ S.requests \in Seq(Message) /\ Append(S.requests, msg) \in Seq(Message)
  BY <1>1, KeptTypes, AppendIs
<1>3. /\ T \in Server /\ T.joined = S.joined /\ T.finished = S.finished /\ T.slots = S.slots
      /\ T.requests = Append(S.requests, msg)
  BY <1>1, <1>2 DEF Server
<1> HIDE DEF T
<1>4. Keeps(M, J, S, M, J, T)
  BY <1>3 DEF Keeps
<1>5. Id(msg) \notin Ids(S.requests)
  <2>1. Id(msg) \in NetIds(N)
    BY DEF NetIds
  <2> QED BY <1>1, <2>1, Apart
<1>6. Distinct(T.requests) /\ Ids(T.requests) = Ids(S.requests) \cup {Id(msg)}
  BY <1>1, <1>2, <1>3, <1>5, IdsAppend DEF Unique
<1>7. MsgInv(M, J, T, N \ {msg})
  <2>1. \A y \in Message : MsgOk(M, J, S, y) => MsgOk(M, J, T, y)
    BY <1>4, KeepsMsg
  <2>2. \A v \in Members : \A k \in 1 .. Len(M[v].outgoing) : OutOk(M, J, T, v, M[v].outgoing[k])
    BY <1>1, <2>1, KeptTypes DEF MsgInv, OutOk
  <2>3. \A y \in N \ {msg} : MsgOk(M, J, T, y)
    BY <1>1, <2>1 DEF MsgInv
  <2>4. ASSUME NEW k \in 1 .. Len(T.requests) PROVE RequestOk(M, J, T, T.requests[k])
    <3>1. RequestOk(M, J, T, msg)
      BY <1>1, <1>2, <2>1 DEF MsgInv, RequestOk
    <3>2. \A j \in 1 .. Len(S.requests) : RequestOk(M, J, T, S.requests[j])
      BY <1>1, <2>1, KeptTypes DEF MsgInv, RequestOk
    <3>3. \/ T.requests[k] = msg
          \/ k \in 1 .. Len(S.requests) /\ T.requests[k] = S.requests[k]
      BY <1>2, <1>3, AppendIs
    <3> QED BY <3>1, <3>2, <3>3
  <2>5. ASSUME NEW i \in SlotIds, NEW k \in 1 .. Len(T.slots[i].waiters)
        PROVE  WaiterOk(M, J, T, i, T.slots[i].waiters[k])
    BY <1>1, <1>3, <2>1, KeptTypes DEF MsgInv, WaiterOk, RequestOk
  <2> QED BY <2>2, <2>3, <2>4, <2>5 DEF MsgInv
<1>8. Unique(M, T, N \ {msg})
  <2>1. Disjoint(Box(M, T, N \ {msg}))
    <3> DEFINE O == N \ {msg}
               B == Box(M, S, N)
               C == Box(M, T, O)
    <3> HIDE DEF O
    <3>1. Disjoint(B)
      BY <1>1 DEF Unique
    <3>2. NetBox \in Boxes /\ QueueBox \in Boxes /\ NetBox # QueueBox
      BY BoxNames
    <3>3. IsBox(B, M, S, N) /\ IsBox(C, M, T, O)
      BY BoxAt
    <3>4. \A y \in N : Id(y) = Id(msg) => y = msg
      BY <1>1 DEF Unique
    <3> HIDE DEF B, C
    <3>5. ASSUME NEW c \in Boxes, c # NetBox, c # QueueBox PROVE C[c] \subseteq B[c]
      <4>1. ASSUME NEW v \in Members, c = OutBox(v) PROVE C[c] \subseteq B[c]
        BY <3>3, <4>1 DEF IsBox
      <4>2. ASSUME NEW i \in SlotIds, c = SlotBox(i) PROVE C[c] \subseteq B[c]
        BY <1>3, <3>3, <4>2 DEF IsBox
      <4> QED BY <3>5, <4>1, <4>2, BoxCases
    <3>6. C[QueueBox] \subseteq B[QueueBox] \cup {Id(msg)}
      BY <1>6, <3>3 DEF IsBox
    <3>7. {Id(msg)} \subseteq B[NetBox]
      BY <3>3 DEF IsBox, NetIds
    <3>8. C[NetBox] \subseteq B[NetBox] \ {Id(msg)}
      BY <3>3, <3>4 DEF IsBox, O, NetIds
    <3> QED BY <3>1, <3>2, <3>5, <3>6, <3>7, <3>8, MoveDisjoint DEF C, O
  <2> QED BY <1>1, <1>3, <1>6, <2>1 DEF Unique
<1>9. ASSUME NEW e \in EpochIds PROVE EpochInv(M, J, T, e)
  BY <1>3 DEF Inv, EpochInv
<1>10. ASSUME NEW i \in SlotIds PROVE SlotInv(T, X, i)
  BY <1>3 DEF Inv, SlotInv
<1>11. Typed(M, J, D, T, X, N \ {msg})
  BY <1>3 DEF Inv, Typed
<1>12. Inv(M, J, D, T, X, N \ {msg})
  BY <1>7, <1>8, <1>9, <1>10, <1>11 DEF Inv
<1> QED BY <1>12 DEF T

\* The one landing a delivery is for.
LEMMA OneLanding ==
    ASSUME NEW M, NEW J, NEW D, NEW m \in Members, LandingInv(M, J, D, m),
           NEW l \in M[m].landings
    PROVE  {k \in M[m].landings : k.source = l.source /\ k.epoch = l.epoch} = {l}
BY DEF LandingInv

IsTile(b, s) == b = TileOf(s)

LEMMA TileIs ==
    ASSUME NEW b \in Bytes, NEW s, \A c \in 1 .. Chunks : b[c] = s
    PROVE  IsTile(b, s)
BY DEF IsTile, TileOf, Bytes

LEMMA TileType == \A s \in Tiles : TileOf(s) \in Bytes
BY DEF TileOf, Bytes

\* Delivery: the bytes reach the landing that waits for them.
LEMMA DeliveryReceived ==
    ASSUME NEW M, NEW J, NEW D, NEW S, NEW X, NEW N, Inv(M, J, D, S, X, N),
           NEW msg \in N, msg.kind = "Delivery"
    PROVE  LET got == ReceiveDelivery(M[msg.to], S, msg)
           IN  /\ got.fault = FALSE /\ got.server = S /\ got.mem \in Member
               /\ Inv(With(M, msg.to, got.mem), J, D, S, X, N \ {msg})
<1> DEFINE m == msg.to
           match == {l \in M[m].landings : l.source = msg.source /\ l.epoch = msg.epoch}
<1>1. /\ M \in [Members -> Member] /\ S \in Server /\ N \in SUBSET Message
      /\ MsgInv(M, J, S, N) /\ Unique(M, S, N)
  BY DEF Inv, Typed
<1>2. /\ msg \in Message /\ m \in Members /\ msg.source \in Tiles /\ M[m] \in Member
  BY <1>1, MessageIs
<1>3. msg.bytes = TileOf(msg.source) /\ Waiting(M, m, msg.epoch, msg.source)
  BY <1>1 DEF MsgInv, MsgOk
<1>4. PICK l \in M[m].landings : l.epoch = msg.epoch /\ l.source = msg.source /\ l.bytes = <<>>
  BY <1>3 DEF Waiting
<1>5. LandingInv(M, J, D, m)
  BY <1>2 DEF Inv
<1>6. match = {l}
  BY <1>2, <1>4, <1>5, OneLanding
<1> DEFINE n == [l EXCEPT !.bytes = msg.bytes]
           L == (M[m].landings \ {l}) \cup {n}
           x == [M[m] EXCEPT !.landings = L]
           A == With(M, m, x)
<1>7. {[k EXCEPT !.bytes = msg.bytes] : k \in match} = {n}
  BY <1>6
<1>8. /\ l \in Landing /\ n \in Landing /\ n.epoch = l.epoch /\ n.source = l.source
      /\ n.offset = l.offset /\ n.bytes = TileOf(l.source) /\ n.pending = l.pending
  <2>1. l \in Landing /\ TileOf(msg.source) \in Bytes
    BY <1>2, TileType DEF Member
  <2> QED BY <1>3, <1>4, <2>1 DEF Landing
<1>9. ReceiveDelivery(M[m], S, msg) = State([M[m] EXCEPT !.landings = (@ \ match) \cup {n}], S, FALSE)
  BY <1>4, <1>6, <1>7 DEF ReceiveDelivery
<1>10. ReceiveDelivery(M[m], S, msg) = State(x, S, FALSE)
  BY <1>6, <1>9
<1> HIDE DEF match, n
<1>11. /\ x \in Member /\ x.landings = L /\ x.released = M[m].released /\ x.outgoing = M[m].outgoing
  BY <1>2, <1>8 DEF Member
<1> HIDE DEF x
<1>12. A \in [Members -> Member] /\ A[m] = x /\ \A v \in Members : v # m => A[v] = M[v]
  <2>1. Changed(A, M, m, x)
    BY <1>1, <1>2, <1>11, WithIs
  <2> QED BY <2>1 DEF Changed
<1>13. \A v \in Members : A[v].released = M[v].released /\ A[v].outgoing = M[v].outgoing
  BY <1>11, <1>12
<1> HIDE DEF A
<1>14. SameQueues(M, S, A, S)
  BY <1>13 DEF SameQueues
<1>15. ASSUME NEW y \in Message, Id(y) # Id(msg), MsgOk(M, J, S, y) PROVE MsgOk(A, J, S, y)
  <2>1. ASSUME NEW v \in Members, NEW e, NEW s, Waiting(M, v, e, s),
               v # m \/ e # msg.epoch \/ s # msg.source
        PROVE  Waiting(A, v, e, s)
    <3>1. PICK k \in M[v].landings : k.epoch = e /\ k.source = s /\ k.bytes = <<>>
      BY <2>1 DEF Waiting
    <3>2. v = m => k # l
      BY <1>4, <2>1, <3>1
    <3>3. k \in A[v].landings
      BY <1>11, <1>12, <3>2
    <3> QED BY <3>1, <3>3 DEF Waiting
  <2>2. y.from \in Members /\ y.to \in Members
    BY MessageIs
  <2>3. y.kind = "Request" => y.from # m \/ y.epoch # msg.epoch \/ y.source # msg.source
    BY <1>15 DEF Id
  <2>4. y.kind = "Delivery" => y.to # m \/ y.epoch # msg.epoch \/ y.source # msg.source
    BY <1>15 DEF Id
  <2>5. y.kind = "Request" => Waiting(A, y.from, y.epoch, y.source)
    BY <1>15, <2>1, <2>2, <2>3 DEF MsgOk
  <2>6. y.kind = "Delivery" => Waiting(A, y.to, y.epoch, y.source)
    BY <1>15, <2>1, <2>2, <2>4 DEF MsgOk
  <2> QED BY <1>13, <1>15, <2>2, <2>5, <2>6, LeaderIs DEF MsgOk
<1>16. MsgInv(A, J, S, N \ {msg}) /\ Unique(A, S, N \ {msg})
  BY <1>1, <1>14, <1>15, Consumed
<1>17. ASSUME NEW v \in Members PROVE LandingInv(A, J, D, v) /\ HoldsInv(J, D, v) /\ JobInv(A, J, v)
  <2>1. LandingInv(M, J, D, v) /\ HoldsInv(J, D, v) /\ JobInv(A, J, v)
    BY <1>13, KeepsJob DEF Inv
  <2>2. CASE v = m
    <3>1. A[v].landings = L
      BY <1>11, <1>12, <2>2
    <3>2. \A k \in M[m].landings : LandingOk(J, D, m, k)
      BY <1>5 DEF LandingInv
    <3>3. LandingOk(J, D, m, n)
      BY <1>8, <3>2 DEF LandingOk
    <3>4. \A k \in M[m].landings \ {l} : DestOf(k.source) # DestOf(n.source)
      BY <1>5, <1>8 DEF LandingInv
    <3>5. \A j, k \in M[m].landings : DestOf(j.source) = DestOf(k.source) => j = k
      BY <1>5 DEF LandingInv
    <3> QED BY <2>1, <2>2, <3>1, <3>2, <3>3, <3>4, <3>5 DEF LandingInv
  <2>3. CASE v # m
    BY <1>12, <2>1, <2>3 DEF LandingInv
  <2> QED BY <2>1, <2>2, <2>3
<1>18. ASSUME NEW e \in EpochIds PROVE EpochInv(A, J, S, e)
  BY <1>13, LeaderIs DEF Inv, EpochInv
<1>19. Typed(A, J, D, S, X, N \ {msg})
  BY <1>12 DEF Inv, Typed
<1>20. Ordered(A[Leader].outgoing, J[Leader].epoch)
  BY <1>13, LeaderIs DEF Inv
<1>21. Inv(A, J, D, S, X, N \ {msg})
  BY <1>16, <1>17, <1>18, <1>19, <1>20 DEF Inv
<1> QED BY <1>10, <1>11, <1>21 DEF State, A

-----------------------------------------------------------------------------
(* How many messages there can be. *)

LEMMA DestType == \A s \in Nat \ {0} : DestOf(s) \in 1 .. Dests
<1>1. Dests \in Nat \ {0}
  BY CohortAssumption
<1>2. \A s \in Nat \ {0} : s - 1 \in Nat
  OBVIOUS
<1>3. \A k \in Nat : k % Dests \in 0 .. Dests - 1
  BY <1>1
<1>4. \A k \in 0 .. Dests - 1 : k + 1 \in 1 .. Dests
  BY <1>1
<1> QED BY <1>2, <1>3, <1>4 DEF DestOf

\* An injective key bounds a length.
LEMMA Pigeons ==
    ASSUME Counting, NEW n \in Nat, NEW K, IsFiniteSet(K), NEW f \in [1 .. n -> K],
           \A i, j \in 1 .. n : f[i] = f[j] => i = j
    PROVE  n <= Cardinality(K)
<1>1. Cardinality(1 .. n) <= Cardinality(K)
  BY DEF Counting, Pigeonhole
<1>2. Cardinality(1 .. n) = n
  BY DEF Counting, Intervals
<1> QED BY <1>1, <1>2

\* Members times d keys.
LEMMA KeySpace ==
    ASSUME Counting, NEW d \in Nat
    PROVE  /\ IsFiniteSet(Members \X (1 .. d)) /\ Width \in Nat
           /\ Cardinality(Members \X (1 .. d)) = Width * d
BY DEF Counting, MembersCounted

\* A member has one fetch under way for a buffer.
LEMMA SameTile ==
    ASSUME NEW M, NEW J, NEW D, NEW m \in Members, LandingInv(M, J, D, m),
           NEW e, NEW s, Waiting(M, m, e, s), NEW e2, NEW s2, Waiting(M, m, e2, s2)
    PROVE  DestOf(s) = DestOf(s2) => e = e2 /\ s = s2
BY DEF Waiting, LandingInv

LEMMA WaitingSource ==
    ASSUME NEW M, NEW J \in [Members -> Job], NEW D, NEW m \in Members, LandingInv(M, J, D, m),
           NEW e, NEW s, Waiting(M, m, e, s)
    PROVE  s \in Nat \ {0} /\ DestOf(s) \in 1 .. Dests
<1>1. J[m].next \in 1 .. Sources + 1 /\ Sources \in Nat
  BY CohortAssumption DEF Job
<1>2. s \in 1 .. J[m].next - 1
  BY DEF Waiting, LandingInv, LandingOk
<1>3. s \in Nat \ {0}
  BY <1>1, <1>2
<1> QED BY <1>3, DestType

\* The leader has room for a request that arrives.
LEMMA RequestRoom ==
    ASSUME Counting, NEW M, NEW J, NEW D, NEW S, NEW X, NEW N, Inv(M, J, D, S, X, N),
           NEW msg \in N, msg.kind = "Request"
    PROVE  ~(Len(S.requests) >= Width * MaxLandings)
<1> DEFINE q == Append(S.requests, msg)
           K == Members \X (1 .. Dests)
           f == [k \in 1 .. Len(q) |-> <<q[k].from, DestOf(q[k].source)>>]
<1>1. /\ M \in [Members -> Member] /\ S \in Server /\ N \in SUBSET Message /\ J \in [Members -> Job]
      /\ MsgInv(M, J, S, N) /\ Unique(M, S, N)
  BY DEF Inv, Typed
<1>2. msg \in Message /\ S.requests \in Seq(Message) /\ \A k \in 1 .. Len(S.requests) : S.requests[k] \in Message
  BY <1>1, KeptTypes
<1>3. q \in Seq(Message) /\ Len(S.requests) \in Nat /\ Len(q) = Len(S.requests) + 1
  BY <1>2, AppendIs
<1>4. ASSUME NEW k \in 1 .. Len(q) PROVE q[k] \in Message /\ RequestOk(M, J, S, q[k])
  <2>1. \A j \in 1 .. Len(S.requests) : RequestOk(M, J, S, S.requests[j])
    BY <1>1 DEF MsgInv
  <2>2. RequestOk(M, J, S, msg)
    BY <1>1 DEF MsgInv, RequestOk
  <2>3. q[k] = msg \/ (k \in 1 .. Len(S.requests) /\ q[k] = S.requests[k])
    BY <1>2, AppendIs
  <2> QED BY <1>2, <2>1, <2>2, <2>3
<1>5. Distinct(q)
  <2>1. Id(msg) \in NetIds(N)
    BY DEF NetIds
  <2>2. Id(msg) \notin Ids(S.requests)
    BY <1>1, <2>1, Apart
  <2> QED BY <1>1, <1>2, <2>2, IdsAppend DEF Unique
<1> HIDE DEF q
<1>6. ASSUME NEW k \in 1 .. Len(q)
      PROVE  /\ q[k].kind = "Request" /\ q[k].from \in Members
             /\ Waiting(M, q[k].from, q[k].epoch, q[k].source) /\ DestOf(q[k].source) \in 1 .. Dests
  <2>1. q[k].kind = "Request" /\ q[k].from \in Members /\ Waiting(M, q[k].from, q[k].epoch, q[k].source)
    BY <1>4, MessageIs DEF RequestOk, MsgOk
  <2>2. LandingInv(M, J, D, q[k].from)
    BY <2>1 DEF Inv
  <2> QED BY <1>1, <2>1, <2>2, WaitingSource
<1>7. f \in [1 .. Len(q) -> K]
  BY <1>6
<1>8. ASSUME NEW i \in 1 .. Len(q), NEW j \in 1 .. Len(q), f[i] = f[j] PROVE i = j
  <2>1. q[i].from = q[j].from /\ DestOf(q[i].source) = DestOf(q[j].source)
    BY <1>8
  <2>2. LandingInv(M, J, D, q[i].from)
    BY <1>6 DEF Inv
  <2>3. q[i].epoch = q[j].epoch /\ q[i].source = q[j].source
    BY <1>6, <2>1, <2>2, SameTile
  <2>4. Id(q[i]) = Id(q[j])
    BY <1>6, <2>1, <2>3 DEF Id
  <2> QED BY <1>5, <2>4 DEF Distinct
<1> HIDE DEF f, K
<1>9. Dests \in Nat /\ MaxLandings \in Nat /\ Dests <= MaxLandings /\ Len(q) \in Nat
  BY <1>3, CohortAssumption
<1>10. IsFiniteSet(K) /\ Width \in Nat /\ Cardinality(K) = Width * Dests
  BY <1>9, KeySpace DEF K
<1>11. Len(q) <= Width * Dests
  BY <1>7, <1>8, <1>9, <1>10, Pigeons
<1>12. Width * Dests <= Width * MaxLandings /\ Width * Dests \in Nat /\ Width * MaxLandings \in Nat
  BY <1>9, <1>10
<1> QED BY <1>3, <1>11, <1>12

\* The leader's releases to one member that are queued are one release.
LEMMA OneRelease ==
    ASSUME NEW M, NEW J, NEW D, NEW S, NEW X, NEW N, Inv(M, J, D, S, X, N), NEW q, q = M[Leader].outgoing,
           NEW i \in 1 .. Len(q), NEW j \in 1 .. Len(q),
           q[i].kind = "Release", q[j].kind = "Release", q[i].to = q[j].to
    PROVE  q[i].epoch = q[j].epoch
<1>1. /\ M \in [Members -> Member] /\ J \in [Members -> Job] /\ MsgInv(M, J, S, N) /\ S \in Server
      /\ Ordered(q, J[Leader].epoch)
  BY DEF Inv, Typed
<1>2. q \in Seq(Message) /\ \A k \in 1 .. Len(q) : q[k] \in Message /\ OutOk(M, J, S, Leader, q[k])
  BY <1>1, KeptTypes, LeaderIs DEF MsgInv
<1>3. \A v \in Members : J[v].epoch \in Nat /\ \A e \in EpochIds : e \in Nat
  BY <1>1 DEF Job, EpochIds
<1>4. \A e \in EpochIds : e \in M[Leader].released => S.joined[e] = Members /\ \A v \in Members : J[v].epoch >= e
  BY DEF Inv, EpochInv
<1>5. ASSUME NEW k \in 1 .. Len(q), q[k].kind = "Release", q[k].to # Leader
      PROVE  q[k].epoch = J[q[k].to].epoch
  <2>1. /\ q[k].to \in Members /\ q[k].epoch \in EpochIds /\ q[k].epoch \in M[Leader].released
        /\ q[k].epoch \notin M[q[k].to].released
    BY <1>2, <1>5, MessageIs DEF OutOk, MsgOk
  <2>2. ~(q[k].epoch < J[q[k].to].epoch)
    BY <2>1 DEF Inv, JobInv
  <2>3. J[q[k].to].epoch >= q[k].epoch
    BY <1>4, <2>1
  <2>4. q[k].epoch \in Nat /\ J[q[k].to].epoch \in Nat
    BY <1>3, <2>1
  <2> QED BY <2>2, <2>3, <2>4, NeitherLess
<1>6. ASSUME NEW k \in 1 .. Len(q), NEW h \in 1 .. Len(q), q[k].kind = "Release", q[h].kind = "Release",
             q[k].to = Leader, q[h].to = Leader, q[k].epoch = J[Leader].epoch
      PROVE  q[h].epoch = J[Leader].epoch
  <2> SUFFICES ASSUME q[h].epoch # J[Leader].epoch PROVE FALSE
    OBVIOUS
  <2>1. PICK p \in h + 1 .. Len(q) : q[p].kind = "Join" /\ q[p].epoch = J[Leader].epoch
    BY <1>1, <1>6 DEF Ordered
  <2>2. p \in 1 .. Len(q)
    <3>1. \A n \in Nat : \A g \in 1 .. n : \A z \in g + 1 .. n : z \in 1 .. n
      OBVIOUS
    <3>2. Len(q) \in Nat
      BY <1>2
    <3> QED BY <2>1, <3>1, <3>2
  <2>3. q[p].from = Leader /\ Leader \notin S.joined[q[p].epoch]
    <3>1. OutOk(M, J, S, Leader, q[p])
      BY <1>2, <2>2
    <3> QED BY <2>1, <3>1 DEF OutOk, MsgOk
  <2>4. q[k].epoch \in EpochIds /\ q[k].epoch \in M[Leader].released
    BY <1>2, <1>6, MessageIs DEF OutOk, MsgOk
  <2>5. S.joined[q[k].epoch] = Members
    BY <1>4, <2>4
  <2> QED BY <1>6, <2>1, <2>3, <2>5, LeaderIs
<1>7. CASE q[i].to # Leader
  BY <1>5, <1>7
<1>8. CASE q[i].to = Leader
  <2>1. \A k \in 1 .. Len(q) : q[k].kind = "Release" /\ q[k].to = Leader =>
            q[k].epoch = J[Leader].epoch \/ J[Leader].epoch = q[k].epoch + 1
    BY <1>1 DEF Ordered
  <2>2. q[i].epoch \in Nat /\ q[j].epoch \in Nat
    BY <1>2, <1>3, MessageIs, LeaderIs
  <2>3. CASE q[i].epoch = J[Leader].epoch \/ q[j].epoch = J[Leader].epoch
    BY <1>6, <1>8, <2>3
  <2>4. CASE J[Leader].epoch = q[i].epoch + 1 /\ J[Leader].epoch = q[j].epoch + 1
    BY <2>2, <2>4, SameSuccessor
  <2> QED BY <1>8, <2>1, <2>3, <2>4
<1> QED BY <1>7, <1>8

\* What a queued message is about, with the epoch left out.
Key(msg) ==
    <<Id(msg).owner,
      IF Id(msg).class = "Tile" THEN DestOf(msg.source)
      ELSE IF msg.kind = "Release" THEN Dests + 1
      ELSE IF msg.kind = "Join" THEN Dests + 2 ELSE Dests + 3>>

LEMMA KeyType ==
    ASSUME NEW M, NEW J, NEW D, NEW S, NEW X, NEW N, Inv(M, J, D, S, X, N),
           NEW msg \in Message, MsgOk(M, J, S, msg)
    PROVE  Key(msg) \in Members \X (1 .. Dests + 3)
<1>1. J \in [Members -> Job] /\ msg.from \in Members /\ msg.to \in Members
  BY MessageIs DEF Inv, Typed
<1>2. Id(msg).owner \in Members
  BY <1>1 DEF Id
<1>3. Dests \in Nat /\ 1 .. Dests \subseteq 1 .. Dests + 3 /\ Dests + 1 \in 1 .. Dests + 3
      /\ Dests + 2 \in 1 .. Dests + 3 /\ Dests + 3 \in 1 .. Dests + 3
  BY CohortAssumption
<1>4. ASSUME Id(msg).class = "Tile" PROVE DestOf(msg.source) \in 1 .. Dests
  <2>1. PICK v \in Members : Waiting(M, v, msg.epoch, msg.source)
    <3>1. msg.kind \in {"Request", "Delivery"}
      BY <1>4 DEF Id, Message
    <3> QED BY <1>1, <3>1 DEF MsgOk
  <2>2. LandingInv(M, J, D, v)
    BY DEF Inv
  <2> QED BY <1>1, <2>1, <2>2, WaitingSource
<1> QED BY <1>2, <1>3, <1>4 DEF Key

\* In one queue the key tells messages apart.
LEMMA KeyInjective ==
    ASSUME NEW M, NEW J, NEW D, NEW S, NEW X, NEW N, Inv(M, J, D, S, X, N), NEW m \in Members,
           NEW q, q = M[m].outgoing, NEW i \in 1 .. Len(q), NEW j \in 1 .. Len(q), Key(q[i]) = Key(q[j])
    PROVE  i = j
<1>1. M \in [Members -> Member] /\ J \in [Members -> Job] /\ MsgInv(M, J, S, N) /\ S \in Server /\ Unique(M, S, N)
  BY DEF Inv, Typed
<1>2. \A k \in 1 .. Len(q) : q[k] \in Message /\ OutOk(M, J, S, m, q[k]) /\ MsgOk(M, J, S, q[k])
  BY <1>1, KeptTypes DEF MsgInv, OutOk
<1> DEFINE a == q[i]
           b == q[j]
<1>3. a \in Message /\ b \in Message /\ OutOk(M, J, S, m, a) /\ OutOk(M, J, S, m, b)
      /\ MsgOk(M, J, S, a) /\ MsgOk(M, J, S, b) /\ Key(a) = Key(b)
  BY <1>2
<1>4. m = Leader /\ a.kind = "Release" /\ b.kind = "Release" /\ a.to = b.to => a.epoch = b.epoch
  BY OneRelease
<1>5. Distinct(q)
  BY <1>1 DEF Unique
<1> SUFFICES Id(a) = Id(b)
  BY <1>5 DEF Distinct
<1> HIDE DEF a, b
<1>6. Dests \in Nat /\ ~(Dests + 1 \in 1 .. Dests) /\ ~(Dests + 2 \in 1 .. Dests) /\ ~(Dests + 3 \in 1 .. Dests)
      /\ Dests + 1 # Dests + 2 /\ Dests + 1 # Dests + 3 /\ Dests + 2 # Dests + 3
  BY CohortAssumption
<1>7. Id(a).owner = Id(b).owner
  BY <1>3 DEF Key
<1>8. a.kind \in {"Join", "Request", "Delivery", "Finish", "Release"} /\ b.kind \in {"Join", "Request", "Delivery", "Finish", "Release"}
  BY <1>3 DEF Message
<1>9. /\ a.kind \in {"Request", "Delivery"} => Key(a)[2] \in 1 .. Dests /\ Key(a)[2] = DestOf(a.source)
      /\ b.kind \in {"Request", "Delivery"} => Key(b)[2] \in 1 .. Dests /\ Key(b)[2] = DestOf(b.source)
  <2> SUFFICES ASSUME NEW y \in {a, b}, y.kind \in {"Request", "Delivery"}
               PROVE  Key(y)[2] \in 1 .. Dests /\ Key(y)[2] = DestOf(y.source)
    OBVIOUS
  <2>1. Key(y)[2] = DestOf(y.source)
    BY DEF Key, Id
  <2>2. PICK v \in Members : Waiting(M, v, y.epoch, y.source)
    BY <1>3, MessageIs DEF MsgOk
  <2>3. LandingInv(M, J, D, v)
    BY DEF Inv
  <2> QED BY <1>1, <2>1, <2>2, <2>3, WaitingSource
<1>10. /\ a.kind = "Release" => Key(a)[2] = Dests + 1 /\ Id(a).class = "Release"
       /\ b.kind = "Release" => Key(b)[2] = Dests + 1 /\ Id(b).class = "Release"
       /\ a.kind = "Join" => Key(a)[2] = Dests + 2 /\ Id(a).class = "Join"
       /\ b.kind = "Join" => Key(b)[2] = Dests + 2 /\ Id(b).class = "Join"
       /\ a.kind = "Finish" => Key(a)[2] = Dests + 3 /\ Id(a).class = "Finish"
       /\ b.kind = "Finish" => Key(b)[2] = Dests + 3 /\ Id(b).class = "Finish"
  BY DEF Key, Id
<1>11. CASE a.kind \in {"Request", "Delivery"}
  <2>1. b.kind \in {"Request", "Delivery"} /\ DestOf(a.source) = DestOf(b.source)
    BY <1>3, <1>6, <1>8, <1>9, <1>10, <1>11
  <2>2. LandingInv(M, J, D, Id(a).owner) /\ Id(a).owner \in Members
    BY <1>3, MessageIs DEF Inv, Id
  <2>3. Waiting(M, Id(a).owner, a.epoch, a.source) /\ Waiting(M, Id(a).owner, b.epoch, b.source)
    <3>1. Waiting(M, Id(a).owner, a.epoch, a.source)
      BY <1>3, <1>11 DEF MsgOk, Id
    <3>2. Waiting(M, Id(b).owner, b.epoch, b.source)
      BY <1>3, <2>1 DEF MsgOk, Id
    <3> QED BY <1>7, <3>1, <3>2
  <2>4. a.epoch = b.epoch /\ a.source = b.source
    BY <2>1, <2>2, <2>3, SameTile
  <2> QED BY <1>7, <1>11, <2>1, <2>4 DEF Id
<1>12. CASE a.kind = "Release"
  <2>1. b.kind = "Release"
    BY <1>3, <1>6, <1>8, <1>9, <1>10, <1>12
  <2>2. a.to = b.to /\ a.source = 0 /\ b.source = 0 /\ m = Leader
    BY <1>3, <1>7, <1>12, <2>1 DEF Id, MsgOk, OutOk
  <2> QED BY <1>4, <1>12, <2>1, <2>2 DEF Id
<1>13. CASE a.kind = "Join"
  <2>1. b.kind = "Join"
    BY <1>3, <1>6, <1>8, <1>9, <1>10, <1>13
  <2>2. a.from = b.from /\ a.source = b.source /\ a.epoch = b.epoch
    BY <1>3, <1>7, <1>13, <2>1 DEF Id, MsgOk
  <2> QED BY <1>13, <2>1, <2>2 DEF Id
<1>14. CASE a.kind = "Finish"
  <2>1. b.kind = "Finish"
    BY <1>3, <1>6, <1>8, <1>9, <1>10, <1>14
  <2>2. a.from = b.from /\ a.source = b.source /\ a.epoch = b.epoch
    BY <1>3, <1>7, <1>14, <2>1 DEF Id, MsgOk
  <2> QED BY <1>14, <2>1, <2>2 DEF Id
<1> QED BY <1>8, <1>11, <1>12, <1>13, <1>14

\* No queue of outgoing messages outgrows the bound that send() checks.
LEMMA QueueRoom ==
    ASSUME Counting, NEW M, NEW J, NEW D, NEW S, NEW X, NEW N, Inv(M, J, D, S, X, N), NEW m \in Members
    PROVE  ~Overfull(M[m])
<1> DEFINE q == M[m].outgoing
           K == Members \X (1 .. Dests + 3)
           f == [k \in 1 .. Len(q) |-> Key(q[k])]
<1>1. M \in [Members -> Member] /\ MsgInv(M, J, S, N) /\ S \in Server
  BY DEF Inv, Typed
<1>2. q \in Seq(Message) /\ \A k \in 1 .. Len(q) : q[k] \in Message /\ MsgOk(M, J, S, q[k])
  BY <1>1, KeptTypes DEF MsgInv, OutOk
<1>3. \A i, j \in 1 .. Len(q) : Key(q[i]) = Key(q[j]) => i = j
  BY KeyInjective
<1>4. Dests \in Nat /\ Dests + 3 \in Nat /\ Dests + 3 <= 8 /\ Len(q) \in Nat
  BY <1>2, CohortAssumption
<1>5. \A k \in 1 .. Len(q) : Key(q[k]) \in K
  BY <1>2, KeyType
<1> HIDE DEF q, K
<1>6. f \in [1 .. Len(q) -> K] /\ \A i, j \in 1 .. Len(q) : f[i] = f[j] => i = j
  BY <1>3, <1>5
<1>7. IsFiniteSet(K) /\ Width \in Nat /\ Cardinality(K) = Width * (Dests + 3)
  BY <1>4, KeySpace DEF K
<1> HIDE DEF f
<1>8. Len(q) <= Width * (Dests + 3)
  BY <1>4, <1>6, <1>7, Pigeons
<1>9. Width * (Dests + 3) <= Width * 8 /\ Width * (Dests + 3) \in Nat /\ Width * 8 \in Nat
  BY <1>4, <1>7
<1>10. ~(Len(q) > Width * 8 + 9)
  BY <1>4, <1>8, <1>9
<1> QED BY <1>10 DEF Overfull, q

-----------------------------------------------------------------------------
(* receive and pumpMessages, the whole of them. *)

\* receive() throws for no message in flight, and keeps the invariant.
LEMMA Received ==
    ASSUME Counting, NEW M, NEW J, NEW D, NEW S, NEW X, NEW N, Inv(M, J, D, S, X, N), NEW msg \in N
    PROVE  LET got == Receive(M[msg.to], S, msg)
           IN  /\ got.fault = FALSE /\ got.mem \in Member
               /\ Inv(With(M, msg.to, got.mem), J, D, got.server, X, N \ {msg})
<1>1. /\ M \in [Members -> Member] /\ S \in Server /\ N \in SUBSET Message /\ MsgInv(M, J, S, N)
  BY DEF Inv, Typed
<1>2. /\ msg \in Message /\ msg.to \in Members /\ M[msg.to] \in Member /\ MsgOk(M, J, S, msg)
      /\ msg.kind \in {"Join", "Request", "Delivery", "Finish", "Release"}
  BY <1>1, MessageIs DEF MsgInv, Message
<1>3. With(M, msg.to, M[msg.to]) = M
  BY <1>1, <1>2 DEF With
<1> DEFINE got == Receive(M[msg.to], S, msg)
<1>4. CASE msg.kind = "Delivery"
  <2>1. got = ReceiveDelivery(M[msg.to], S, msg)
    BY <1>1, <1>2, <1>4 DEF Receive
  <2> DEFINE r == ReceiveDelivery(M[msg.to], S, msg)
  <2>2. /\ r.fault = FALSE /\ r.server = S /\ r.mem \in Member
        /\ Inv(With(M, msg.to, r.mem), J, D, S, X, N \ {msg})
    BY <1>4, DeliveryReceived
  <2> HIDE DEF r
  <2>3. got = r
    BY <2>1 DEF r
  <2> HIDE DEF got
  <2> QED BY <2>2, <2>3 DEF got
<1>5. CASE msg.kind = "Release"
  <2> DEFINE x == [M[msg.to] EXCEPT !.released = @ \cup {msg.epoch}]
  <2>1. got = State(x, S, FALSE)
    BY <1>1, <1>2, <1>5 DEF Receive
  <2>2. x \in Member /\ Inv(With(M, msg.to, x), J, D, S, X, N \ {msg})
    BY <1>5, ReleaseReceived
  <2> HIDE DEF x
  <2>3. got.mem = x /\ got.server = S /\ got.fault = FALSE
    BY <2>1 DEF State
  <2> HIDE DEF got
  <2> QED BY <2>2, <2>3 DEF got
<1>6. CASE msg.kind = "Join"
  <2> DEFINE T == [S EXCEPT !.joined = [@ EXCEPT ![msg.epoch] = S.joined[msg.epoch] \cup {msg.from}]]
  <2>1. got = State(M[msg.to], T, FALSE)
    BY <1>2, <1>6 DEF Receive, MsgOk
  <2>2. Inv(M, J, D, T, X, N \ {msg})
    BY <1>6, JoinReceived
  <2> HIDE DEF T
  <2>3. got.mem = M[msg.to] /\ got.server = T /\ got.fault = FALSE
    BY <2>1 DEF State
  <2> HIDE DEF got
  <2> QED BY <1>2, <1>3, <2>2, <2>3 DEF got
<1>7. CASE msg.kind = "Finish"
  <2> DEFINE T == [S EXCEPT !.finished = [@ EXCEPT ![msg.epoch] = S.finished[msg.epoch] \cup {msg.from}]]
  <2>1. got = State(M[msg.to], T, FALSE)
    BY <1>2, <1>7 DEF Receive, MsgOk
  <2>2. Inv(M, J, D, T, X, N \ {msg})
    BY <1>7, FinishReceived
  <2> HIDE DEF T
  <2>3. got.mem = M[msg.to] /\ got.server = T /\ got.fault = FALSE
    BY <2>1 DEF State
  <2> HIDE DEF got
  <2> QED BY <1>2, <1>3, <2>2, <2>3 DEF got
<1>8. CASE msg.kind = "Request"
  <2> DEFINE T == [S EXCEPT !.requests = Append(@, msg)]
  <2>1. got = ReceiveRequest(M[msg.to], S, msg)
    BY <1>2, <1>8 DEF Receive, MsgOk
  <2>4. ~(Len(S.requests) >= Width * MaxLandings)
    BY <1>8, RequestRoom
  <2>5. got = State(M[msg.to], T, FALSE)
    BY <2>1, <2>4 DEF ReceiveRequest
  <2>6. Inv(M, J, D, T, X, N \ {msg})
    BY <1>8, RequestReceived
  <2> HIDE DEF T
  <2>7. got.mem = M[msg.to] /\ got.server = T /\ got.fault = FALSE
    BY <2>5 DEF State
  <2> HIDE DEF got
  <2> QED BY <1>2, <1>3, <2>6, <2>7 DEF got
<1> QED BY <1>2, <1>4, <1>5, <1>6, <1>7, <1>8

\* pumpMessages of member m.
LEMMA Pumped ==
    ASSUME Counting, NEW M, NEW J, NEW D, NEW S, NEW X, NEW N, Inv(M, J, D, S, X, N), NEW m \in Members
    PROVE  LET got == PumpMessages(m, M[m], S)
           IN  /\ got.fault = FALSE /\ got.mem \in Member
               /\ Inv(With(M, m, got.mem), J, D, got.server, X, N \cup PumpedMessages(m, M[m]))
<1> DEFINE q == M[m].outgoing
           h == Head(q)
           x == [M[m] EXCEPT !.outgoing = Tail(@)]
           got == PumpMessages(m, M[m], S)
<1>1. /\ M \in [Members -> Member] /\ M[m] \in Member
  BY DEF Inv, Typed
<1>2. CASE q = <<>>
  <2>1. got = State(M[m], S, FALSE) /\ PumpedMessages(m, M[m]) = {}
    BY <1>2 DEF PumpMessages, PumpedMessages
  <2>2. got.mem = M[m] /\ got.server = S /\ got.fault = FALSE
    BY <2>1 DEF State
  <2>3. With(M, m, M[m]) = M /\ N \cup {} = N
    BY <1>1 DEF With
  <2> HIDE DEF got
  <2> QED BY <1>1, <2>1, <2>2, <2>3 DEF got
<1>3. CASE q # <<>>
  <2>1. /\ h \in Message /\ h \notin N /\ Inv(With(M, m, x), J, D, S, X, N \cup {h})
    BY <1>3, Popped
  <2>2. x \in Member
    <3>1. Tail(q) \in Seq(Message)
      BY <1>1, <1>3, TailIs DEF Member
    <3> QED BY <1>1, <3>1 DEF Member
  <2>3. CASE h.to # m
    <3>1. got = State(x, S, FALSE) /\ PumpedMessages(m, M[m]) = {h}
      BY <1>3, <2>3 DEF PumpMessages, PumpedMessages
    <3> HIDE DEF x
    <3>2. got.mem = x /\ got.server = S /\ got.fault = FALSE
      BY <3>1 DEF State
    <3> HIDE DEF got, h
    <3> QED BY <2>1, <2>2, <3>1, <3>2 DEF got
  <2>4. CASE h.to = m
    <3>1. got = Receive(x, S, h) /\ PumpedMessages(m, M[m]) = {}
      BY <1>3, <2>4 DEF PumpMessages, PumpedMessages
    <3> DEFINE A == With(M, m, x)
               O == N \cup {h}
    <3>2. A[h.to] = x /\ With(A, h.to, got.mem) = With(M, m, got.mem)
      BY <1>1, <2>2, <2>4 DEF With
    <3>3. h \in O /\ O \ {h} = N /\ N \cup {} = N /\ Inv(A, J, D, S, X, O)
      BY <2>1
    <3> HIDE DEF A, O, x, h, got
    <3>4. /\ Receive(A[h.to], S, h).fault = FALSE /\ Receive(A[h.to], S, h).mem \in Member
          /\ Inv(With(A, h.to, Receive(A[h.to], S, h).mem), J, D, Receive(A[h.to], S, h).server, X, O \ {h})
      BY <3>3, Received
    <3>5. Receive(A[h.to], S, h) = got
      BY <3>1, <3>2
    <3>6. got.fault = FALSE /\ got.mem \in Member /\ Inv(With(A, h.to, got.mem), J, D, got.server, X, O \ {h})
      BY <3>4, <3>5
    <3> QED BY <3>1, <3>2, <3>3, <3>6 DEF got
  <2> QED BY <2>3, <2>4
<1> QED BY <1>2, <1>3

-----------------------------------------------------------------------------
(* pumpLanding. *)

LEMMA LandingsPumped ==
    ASSUME NEW M, NEW J, NEW D, NEW S, NEW X, NEW N, Inv(M, J, D, S, X, N), NEW m \in Members,
           NEW room
    PROVE  /\ PumpLandings(M[m], room) \in Member
           /\ Inv(With(M, m, PumpLandings(M[m], room)), J, D, S, X, N)
<1> DEFINE fits(l) == Cardinality({k \in Writable(M[m]) : k.source < l.source}) < room
           g(l) == IF l.bytes = <<>> \/ l.pending THEN l ELSE [l EXCEPT !.pending = fits(l)]
           L == {g(l) : l \in M[m].landings}
           x == PumpLandings(M[m], room)
           A == With(M, m, x)
<1>1. /\ M \in [Members -> Member] /\ M[m] \in Member /\ S \in Server /\ N \in SUBSET Message
      /\ J \in [Members -> Job] /\ MsgInv(M, J, S, N) /\ Unique(M, S, N)
  BY DEF Inv, Typed
<1>2. ASSUME NEW l \in M[m].landings
      PROVE  /\ g(l) \in Landing /\ g(l).epoch = l.epoch /\ g(l).source = l.source /\ g(l).bytes = l.bytes
             /\ g(l).offset = l.offset /\ (l.bytes = <<>> => g(l) = l)
  <2>1. l \in Landing
    BY <1>1 DEF Member
  <2>2. fits(l) \in BOOLEAN
    OBVIOUS
  <2> HIDE DEF fits
  <2> QED BY <2>1, <2>2 DEF Landing
<1>3. x = [M[m] EXCEPT !.landings = L]
  BY DEF PumpLandings
<1> HIDE DEF g
<1>4. /\ x \in Member /\ x.landings = L /\ x.released = M[m].released /\ x.outgoing = M[m].outgoing
  <2>1. L \in SUBSET Landing
    BY <1>2
  <2> HIDE DEF L, x
  <2> QED BY <1>1, <1>3, <2>1 DEF Member
<1>17. x \in Member
  BY <1>4
<1> HIDE DEF x
<1>5. A \in [Members -> Member] /\ A[m] = x /\ \A v \in Members : v # m => A[v] = M[v]
  <2>1. Changed(A, M, m, x)
    BY <1>1, <1>17, WithIs
  <2> QED BY <2>1 DEF Changed
<1> HIDE DEF A
<1>6. \A v \in Members : A[v].released = M[v].released /\ A[v].outgoing = M[v].outgoing
  BY <1>4, <1>5
<1>7. ASSUME NEW v \in Members, NEW l \in M[v].landings, l.bytes = <<>> PROVE l \in A[v].landings
  <2>1. CASE v = m
    <3>1. g(l) = l /\ g(l) \in L
      BY <1>2, <1>7, <2>1
    <3> QED BY <1>4, <1>5, <2>1, <3>1
  <2> QED BY <1>5, <2>1
<1>8. Keeps(M, J, S, A, J, S)
  BY <1>6, <1>7 DEF Keeps
<1>9. SameQueues(M, S, A, S)
  BY <1>6 DEF SameQueues
<1>10. MsgInv(A, J, S, N)
  BY <1>1, <1>8, <1>9, Undisturbed
<1>11. Unique(A, S, N)
  BY <1>1, <1>9, SameBoxes
<1>12. ASSUME NEW v \in Members PROVE LandingInv(A, J, D, v) /\ HoldsInv(J, D, v) /\ JobInv(A, J, v)
  <2>1. LandingInv(M, J, D, v) /\ HoldsInv(J, D, v) /\ JobInv(A, J, v)
    BY <1>6, KeepsJob DEF Inv
  <2>2. CASE v = m
    <3>1. A[v].landings = L
      BY <1>4, <1>5, <2>2
    <3>2. ASSUME NEW l \in M[m].landings PROVE LandingOk(J, D, m, g(l))
      <4>1. LandingOk(J, D, m, l)
        BY <2>1, <2>2 DEF LandingInv
      <4>2. CASE l.bytes = <<>>
        BY <1>2, <4>1, <4>2
      <4>3. CASE l.bytes # <<>>
        BY <1>2, <4>1, <4>3 DEF LandingOk
      <4> QED BY <4>2, <4>3
    <3>3. ASSUME NEW l \in M[m].landings, NEW k \in M[m].landings, DestOf(g(l).source) = DestOf(g(k).source)
          PROVE  g(l) = g(k)
      <4>1. DestOf(l.source) = DestOf(k.source)
        BY <1>2, <3>3
      <4>2. l = k
        BY <2>1, <2>2, <4>1 DEF LandingInv
      <4> QED BY <4>2
    <3> QED BY <2>1, <2>2, <3>1, <3>2, <3>3 DEF LandingInv
  <2>3. CASE v # m
    BY <1>5, <2>1, <2>3 DEF LandingInv
  <2> QED BY <2>1, <2>2, <2>3
<1>13. ASSUME NEW e \in EpochIds PROVE EpochInv(A, J, S, e)
  BY <1>6, LeaderIs DEF Inv, EpochInv
<1>14. Typed(A, J, D, S, X, N)
  BY <1>5 DEF Inv, Typed
<1>15. Ordered(A[Leader].outgoing, J[Leader].epoch)
  BY <1>6, LeaderIs DEF Inv
<1>16. Inv(A, J, D, S, X, N)
  BY <1>10, <1>11, <1>12, <1>13, <1>14, <1>15 DEF Inv
<1> QED BY <1>4, <1>16 DEF x, A

-----------------------------------------------------------------------------
(* admit. *)

\* The slot chosen for a request holds its tile or is idle.
LEMMA SlotForIs ==
    ASSUME Counting, NEW S \in Server, NEW req, SlotFor(S, req) # 0
    PROVE  /\ SlotFor(S, req) \in SlotIds
           /\ Hits(S, req) # {} => SlotFor(S, req) \in Hits(S, req)
           /\ Hits(S, req) = {} => Evictable(S, SlotFor(S, req))
<1> DEFINE hits == Hits(S, req)
           idle == {i \in SlotIds : Evictable(S, i)}
<1>1. SlotIds \in SUBSET Nat /\ hits \in SUBSET SlotIds
  BY CohortAssumption DEF SlotIds, Hits
<1>2. CASE hits # {}
  <2>1. \E i \in hits : \A j \in hits : i <= j
    BY <1>1, <1>2, LeastOf
  <2>2. SlotFor(S, req) = CHOOSE i \in hits : \A j \in hits : i <= j
    BY <1>2 DEF SlotFor
  <2>3. SlotFor(S, req) \in hits
    BY <2>1, <2>2
  <2> QED BY <1>1, <1>2, <2>3
<1>3. CASE hits = {}
  <2>1. idle # {} /\ SlotFor(S, req) = CHOOSE i \in idle : \A j \in idle : S.age[i] <= S.age[j]
    BY <1>3 DEF SlotFor
  <2>2. \E i \in idle : \A j \in idle : S.age[i] <= S.age[j]
    <3> DEFINE ages == {S.age[j] : j \in idle}
    <3>1. \A j \in SlotIds : S.age[j] \in Nat
      BY <1>1 DEF Server
    <3>2. ages \in SUBSET Nat /\ ages # {}
      BY <2>1, <3>1
    <3>3. PICK a \in ages : \A b \in ages : a <= b
      BY <3>2, LeastOf
    <3>4. PICK i \in idle : a = S.age[i]
      OBVIOUS
    <3> QED BY <3>3, <3>4
  <2>3. SlotFor(S, req) \in idle
    BY <2>1, <2>2
  <2> QED BY <1>3, <2>3
<1> QED BY <1>2, <1>3

LEMMA YoungestType ==
    ASSUME NEW age \in [SlotIds -> SlotIds], NEW i \in SlotIds
    PROVE  Youngest(age, i) \in [SlotIds -> SlotIds]
<1>1. Count \in Nat \ {0} /\ Count \in SlotIds
  BY CohortAssumption DEF SlotIds
<1>2. \A a, b \in SlotIds : a > b => a - 1 \in SlotIds
  BY <1>1 DEF SlotIds
<1>3. \A j \in SlotIds : age[j] \in SlotIds
  OBVIOUS
<1> QED BY <1>1, <1>2, <1>3 DEF Youngest

IsScan(c) == c = [it |-> c.it, server |-> c.server]

\* What a step of the loop leaves behind: the iterator, and how many requests.
Leaves(M, J, D, X, N, c, it, n) ==
    IsScan(c) /\ c.it = it /\ Inv(M, J, D, c.server, X, N) /\ Len(c.server.requests) = n

\* Slot i takes a request.
LEMMA Taken ==
    ASSUME Counting, NEW M, NEW J, NEW D, NEW S, NEW X, NEW N, Inv(M, J, D, S, X, N),
           NEW it \in 1 .. Len(S.requests), S.joined[S.requests[it].epoch] = Members,
           NEW i \in SlotIds, SlotFor(S, S.requests[it]) = i
    PROVE  Leaves(M, J, D, X, N, Take([it |-> it, server |-> S], i, S.requests[it]), it, Len(S.requests) - 1)
<1> DEFINE req == S.requests[it]
           rest == Erase(S.requests, it)
           s == IF Hits(S, req) # {} THEN S.slots[i]
                ELSE [NewSlot EXCEPT !.source = req.source, !.epoch = req.epoch, !.dma = TRUE]
           t == [s EXCEPT !.waiters = Append(@, req)]
           T == [S EXCEPT !.requests = rest, !.slots = [@ EXCEPT ![i] = t], !.age = Youngest(@, i)]
<1>1. /\ M \in [Members -> Member] /\ S \in Server /\ N \in SUBSET Message
      /\ MsgInv(M, J, S, N) /\ Unique(M, S, N)
  BY DEF Inv, Typed
<1>2. /\ S.requests \in Seq(Message) /\ req \in Message /\ req.epoch \in EpochIds /\ req.source \in Tiles
      /\ S.slots[i] \in Slot /\ S.slots[i].waiters \in Seq(Message)
  BY <1>1, KeptTypes, MessageIs
<1>3. /\ Take([it |-> it, server |-> S], i, req) = [it |-> it, server |-> T]
  BY DEF Take
<1>4. /\ rest \in Seq(Message) /\ Len(rest) = Len(S.requests) - 1
      /\ \A k \in 1 .. Len(S.requests) - 1 : rest[k] = S.requests[IF k < it THEN k ELSE k + 1]
  BY <1>2, RemoveIs
<1>5. \A k \in 1 .. Len(rest) : \E j \in 1 .. Len(S.requests) : rest[k] = S.requests[j]
  <2>1. \A k \in 1 .. Len(S.requests) - 1 : (IF k < it THEN k ELSE k + 1) \in 1 .. Len(S.requests)
    BY <1>2
  <2> QED BY <1>4, <2>1
<1>6. /\ Hits(S, req) # {} => S.slots[i].epoch = req.epoch /\ S.slots[i].source = req.source
      /\ Hits(S, req) = {} => Evictable(S, i)
  <2>1. SlotFor(S, req) # 0
    BY CohortAssumption DEF SlotIds
  <2>2. /\ Hits(S, req) # {} => i \in Hits(S, req)
        /\ Hits(S, req) = {} => Evictable(S, i)
    BY <1>1, <2>1, SlotForIs
  <2> QED BY <2>2 DEF Hits
<1>7. /\ s \in Slot /\ s.waiters = S.slots[i].waiters /\ s.epoch = req.epoch /\ s.source = req.source
      /\ Hits(S, req) # {} => s = S.slots[i]
      /\ Hits(S, req) = {} => s.dma /\ ~s.reading /\ ~s.pending
  <2>1. CASE Hits(S, req) # {}
    BY <1>2, <1>6, <2>1
  <2>2. CASE Hits(S, req) = {}
    <3>1. S.slots[i].waiters = <<>>
      BY <1>6, <2>2 DEF Evictable
    <3>2. req.epoch \in 0 .. Epochs /\ Chunks \in Nat /\ 0 \in 0 .. Chunks /\ <<>> \in Seq(Message)
      BY <1>2, CohortAssumption DEF EpochIds
    <3> QED BY <1>2, <2>2, <3>1, <3>2 DEF NewSlot, Slot
  <2> QED BY <2>1, <2>2
<1> HIDE DEF s, rest, req
<1>8. /\ t \in Slot /\ t.waiters = Append(S.slots[i].waiters, req) /\ t.epoch = req.epoch /\ t.source = req.source
      /\ t.dma = s.dma /\ t.reading = s.reading /\ t.pending = s.pending /\ t.offset = s.offset /\ t.bytes = s.bytes
  <2>1. Append(S.slots[i].waiters, req) \in Seq(Message)
    BY <1>2, AppendIs
  <2> QED BY <1>7, <2>1 DEF Slot
<1> HIDE DEF t
<1>9. Youngest(S.age, i) \in [SlotIds -> SlotIds]
  BY <1>1, YoungestType DEF Server
<1>10. /\ T \in Server /\ T.joined = S.joined /\ T.finished = S.finished /\ T.requests = rest
       /\ T.slots[i] = t /\ \A k \in SlotIds : k # i => T.slots[k] = S.slots[k]
  BY <1>1, <1>4, <1>8, <1>9 DEF Server
<1> HIDE DEF T
<1>11. Keeps(M, J, S, M, J, T)
  BY <1>10 DEF Keeps
<1>12. \A y \in Message : MsgOk(M, J, S, y) => MsgOk(M, J, T, y)
  BY <1>11, KeepsMsg
<1>13. MsgInv(M, J, T, N)
  <2>1. \A v \in Members : \A k \in 1 .. Len(M[v].outgoing) : OutOk(M, J, T, v, M[v].outgoing[k])
    BY <1>1, <1>12, KeptTypes DEF MsgInv, OutOk
  <2>2. \A y \in N : MsgOk(M, J, T, y)
    BY <1>1, <1>12 DEF MsgInv
  <2>3. \A k \in 1 .. Len(S.requests) : RequestOk(M, J, T, S.requests[k])
    BY <1>1, <1>12, KeptTypes DEF MsgInv, RequestOk
  <2>4. \A k \in 1 .. Len(T.requests) : RequestOk(M, J, T, T.requests[k])
    BY <1>5, <1>10, <2>3
  <2>5. ASSUME NEW h \in SlotIds, NEW k \in 1 .. Len(T.slots[h].waiters)
        PROVE  WaiterOk(M, J, T, h, T.slots[h].waiters[k])
    <3>1. ASSUME NEW n \in 1 .. Len(S.slots[h].waiters)
          PROVE  /\ RequestOk(M, J, T, S.slots[h].waiters[n])
                 /\ S.slots[h].waiters[n].epoch = S.slots[h].epoch /\ S.slots[h].waiters[n].source = S.slots[h].source
      BY <1>1, <1>12, KeptTypes DEF MsgInv, WaiterOk, RequestOk
    <3>2. CASE h # i
      <4>1. T.slots[h] = S.slots[h]
        BY <1>10, <3>2
      <4> QED BY <3>1, <4>1 DEF WaiterOk
    <3>3. CASE h = i
      <4>1. T.slots[h].epoch = req.epoch /\ T.slots[h].source = req.source
        BY <1>8, <1>10, <3>3
      <4>2. RequestOk(M, J, T, req)
        BY <2>3 DEF req
      <4>3. \/ T.slots[h].waiters[k] = req
            \/ k \in 1 .. Len(S.slots[i].waiters) /\ T.slots[h].waiters[k] = S.slots[i].waiters[k]
        <5> DEFINE w == S.slots[i].waiters
        <5>1. T.slots[h].waiters = Append(w, req) /\ w \in Seq(Message) /\ req \in Message
          BY <1>2, <1>8, <1>10, <3>3
        <5>2. k \in 1 .. Len(Append(w, req))
          BY <5>1
        <5> HIDE DEF w
        <5>3. Append(w, req)[k] = req \/ (k \in 1 .. Len(w) /\ Append(w, req)[k] = w[k])
          BY <5>1, <5>2
        <5> QED BY <5>1, <5>3 DEF w
      <4>4. CASE k \in 1 .. Len(S.slots[i].waiters) /\ T.slots[h].waiters[k] = S.slots[i].waiters[k]
        <5>1. Hits(S, req) # {}
          <6> SUFFICES ASSUME Hits(S, req) = {} PROVE FALSE
            OBVIOUS
          <6>1. S.slots[i].waiters = <<>>
            BY <1>6 DEF Evictable
          <6> QED BY <4>4, <6>1
        <5>2. S.slots[i].epoch = req.epoch /\ S.slots[i].source = req.source
          BY <1>6, <5>1
        <5> QED BY <3>1, <3>3, <4>1, <4>4, <5>2 DEF WaiterOk
      <4>5. CASE T.slots[h].waiters[k] = req
        BY <4>1, <4>2, <4>5 DEF WaiterOk
      <4> QED BY <4>3, <4>4, <4>5
    <3> QED BY <3>2, <3>3
  <2> QED BY <2>1, <2>2, <2>4, <2>5 DEF MsgInv
<1>14. /\ Distinct(rest) /\ Ids(rest) \subseteq Ids(S.requests) \ {Id(req)} /\ Id(req) \in Ids(S.requests)
  BY <1>1, <1>2, IdsRemove DEF Unique, rest, req
<1>15. /\ Ids(t.waiters) = Ids(S.slots[i].waiters) \cup {Id(req)} /\ Distinct(t.waiters)
  <2>1. Id(req) \notin Ids(S.slots[i].waiters)
    BY <1>1, <1>14, Apart
  <2>2. Distinct(S.slots[i].waiters)
    BY <1>1 DEF Unique
  <2>3. /\ Ids(Append(S.slots[i].waiters, req)) = Ids(S.slots[i].waiters) \cup {Id(req)}
        /\ Distinct(Append(S.slots[i].waiters, req))
    BY <1>2, <2>1, <2>2, IdsAppend
  <2> QED BY <1>8, <2>3
<1>16. Unique(M, T, N)
  <2> DEFINE B == Box(M, S, N)
             C == Box(M, T, N)
  <2>1. Disjoint(B)
    BY <1>1 DEF Unique
  <2>2. QueueBox \in Boxes /\ SlotBox(i) \in Boxes /\ QueueBox # SlotBox(i)
    BY BoxNames
  <2>3. IsBox(B, M, S, N) /\ IsBox(C, M, T, N)
    BY BoxAt
  <2> HIDE DEF B, C
  <2>4. ASSUME NEW c \in Boxes, c # QueueBox, c # SlotBox(i) PROVE C[c] \subseteq B[c]
    <3>1. ASSUME NEW v \in Members, c = OutBox(v) PROVE C[c] \subseteq B[c]
      BY <2>3, <3>1 DEF IsBox
    <3>2. ASSUME NEW k \in SlotIds, c = SlotBox(k) PROVE C[c] \subseteq B[c]
      <4>1. T.slots[k] = S.slots[k]
        BY <1>10, <2>4, <3>2
      <4> QED BY <2>3, <3>2, <4>1 DEF IsBox
    <3>3. CASE c = NetBox
      BY <2>3, <3>3 DEF IsBox
    <3> QED BY <2>4, <3>1, <3>2, <3>3, BoxCases
  <2>5. {Id(req)} \subseteq B[QueueBox] /\ C[QueueBox] \subseteq B[QueueBox] \ {Id(req)}
    BY <1>10, <1>14, <2>3 DEF IsBox
  <2>6. C[SlotBox(i)] \subseteq B[SlotBox(i)] \cup {Id(req)}
    BY <1>10, <1>15, <2>3 DEF IsBox
  <2>7. Disjoint(Box(M, T, N))
    BY <2>1, <2>2, <2>4, <2>5, <2>6, MoveDisjoint DEF C
  <2>8. \A k \in SlotIds : Distinct(T.slots[k].waiters)
    BY <1>1, <1>10, <1>15 DEF Unique
  <2> QED BY <1>1, <1>10, <1>14, <2>7, <2>8 DEF Unique
<1>17. ASSUME NEW e \in EpochIds PROVE EpochInv(M, J, T, e)
  BY <1>10 DEF Inv, EpochInv
<1>18. ASSUME NEW k \in SlotIds PROVE SlotInv(T, X, k)
  <2>1. SlotInv(S, X, k)
    BY DEF Inv
  <2>2. CASE k # i
    <3>1. T.slots[k] = S.slots[k]
      BY <1>10, <2>2
    <3> QED BY <1>10, <2>1, <3>1, SameSlot
  <2>3. CASE k = i
    <3>1. t.waiters # <<>>
      <4>1. t.waiters = Append(S.slots[i].waiters, req) /\ S.slots[i].waiters \in Seq(Message) /\ req \in Message
        BY <1>2, <1>8
      <4> QED BY <4>1, AppendNotEmpty
    <3>2. t.epoch # 0 /\ S.joined[t.epoch] = Members
      BY <1>2, <1>8 DEF EpochIds, req
    <3>3. CASE Hits(S, req) # {}
      <4>1. /\ t.dma = S.slots[i].dma /\ t.reading = S.slots[i].reading /\ t.pending = S.slots[i].pending
            /\ t.offset = S.slots[i].offset /\ t.bytes = S.slots[i].bytes
            /\ t.epoch = S.slots[i].epoch /\ t.source = S.slots[i].source
        BY <1>6, <1>7, <1>8, <3>3
      <4>2. SameWork(t, S.slots[i])
        BY <4>1 DEF SameWork
      <4>3. T.slots[i] = t /\ T.joined = S.joined
        BY <1>10
      <4> QED BY <2>1, <2>3, <3>1, <3>2, <4>2, <4>3, SlotWithWaiters
    <3>4. CASE Hits(S, req) = {}
      <4>1. t.dma /\ ~t.reading /\ ~t.pending
        BY <1>7, <1>8, <3>4
      <4> QED BY <1>10, <2>3, <3>1, <3>2, <4>1 DEF SlotInv
    <3> QED BY <3>3, <3>4
  <2> QED BY <2>2, <2>3
<1>19. Typed(M, J, D, T, X, N)
  BY <1>10 DEF Inv, Typed
<1>20. Inv(M, J, D, T, X, N)
  BY <1>13, <1>16, <1>17, <1>18, <1>19 DEF Inv
<1>21. [it |-> it, server |-> T].server = T /\ [it |-> it, server |-> T].it = it /\ IsScan([it |-> it, server |-> T])
  BY DEF IsScan
<1> QED BY <1>3, <1>4, <1>10, <1>20, <1>21 DEF Leaves, req

\* The loop of admit after k of n steps.
Scanning(M, J, D, X, N, c, k, n) ==
    /\ IsScan(c) /\ c.it \in Nat \ {0}
    /\ Inv(M, J, D, c.server, X, N)
    /\ Len(c.server.requests) = c.it - 1 + n - k

LEMMA AdmitStep ==
    ASSUME Counting, NEW M, NEW J, NEW D, NEW X, NEW N, NEW c, NEW n \in Nat, NEW k \in 0 .. n - 1,
           Scanning(M, J, D, X, N, c, k, n)
    PROVE  Scanning(M, J, D, X, N, AdmitOne(c), k + 1, n)
<1> DEFINE it == c.it
           S == c.server
           req == S.requests[it]
           i == IF S.joined[req.epoch] = Members THEN SlotFor(S, req) ELSE 0
<1>1. c = [it |-> it, server |-> S] /\ it \in Nat \ {0} /\ Inv(M, J, D, S, X, N) /\ Len(S.requests) = it - 1 + n - k
  BY DEF Scanning, IsScan
<1>2. S \in Server /\ Len(S.requests) \in Nat
  <2>1. S \in Server
    BY <1>1 DEF Inv, Typed
  <2> QED BY <2>1 DEF Server
<1>3. AdmitOne(c) = IF i = 0 THEN [c EXCEPT !.it = @ + 1] ELSE Take(c, i, req)
  BY DEF AdmitOne
<1>4. it \in 1 .. Len(S.requests) /\ it + 1 \in Nat \ {0} /\ it + 1 - 1 + n - (k + 1) = it - 1 + n - k
      /\ Len(S.requests) - 1 = it - 1 + n - (k + 1)
  <2> HIDE DEF it, S
  <2> QED BY <1>1, <1>2
<1>5. CASE i = 0
  <2>1. AdmitOne(c) = [it |-> it + 1, server |-> S]
    <3> HIDE DEF i, req
    <3>1. AdmitOne(c) = [c EXCEPT !.it = @ + 1]
      BY <1>3, <1>5
    <3> HIDE DEF it, S
    <3> QED BY <1>1, <3>1
  <2>2. AdmitOne(c).it = it + 1 /\ AdmitOne(c).server = S
    BY <2>1
  <2> HIDE DEF it, S
  <2>3. IsScan(AdmitOne(c))
    BY <2>1, <2>2 DEF IsScan
  <2>4. Len(AdmitOne(c).server.requests) = AdmitOne(c).it - 1 + n - (k + 1)
    BY <1>1, <1>4, <2>2
  <2>5. AdmitOne(c).it \in Nat \ {0} /\ Inv(M, J, D, AdmitOne(c).server, X, N)
    BY <1>1, <1>4, <2>2
  <2> QED BY <2>3, <2>4, <2>5 DEF Scanning
<1>6. CASE i # 0
  <2>1. S.joined[req.epoch] = Members /\ SlotFor(S, req) = i /\ SlotFor(S, req) # 0
    BY <1>6
  <2>2. i \in SlotIds
    BY <1>2, <2>1, SlotForIs
  <2>3. AdmitOne(c) = Take([it |-> it, server |-> S], i, req)
    BY <1>1, <1>3, <1>6
  <2> HIDE DEF i
  <2> DEFINE a == Take([it |-> it, server |-> S], i, req)
  <2>4. Leaves(M, J, D, X, N, a, it, Len(S.requests) - 1)
    BY <1>1, <1>4, <2>1, <2>2, Taken
  <2> HIDE DEF a, it, S, req
  <2>5. Len(a.server.requests) = Len(S.requests) - 1 /\ a.it = it
    BY <2>4 DEF Leaves
  <2>6. Len(a.server.requests) = a.it - 1 + n - (k + 1)
    BY <1>4, <2>5
  <2> QED BY <1>1, <2>3, <2>4, <2>6 DEF Leaves, Scanning, a
<1> QED BY <1>5, <1>6

\* The loop as a function of its steps.
LEMMA AdmitLoop ==
    ASSUME Counting, NEW ss, Len(ss.requests) \in Nat
    PROVE  \E f : /\ f[0] = [it |-> 1, server |-> ss]
                  /\ \A k \in 1 .. Len(ss.requests) : f[k] = AdmitOne(f[k - 1])
                  /\ Admit(ss) = f[Len(ss.requests)].server
<1> DEFINE n == Len(ss.requests)
           a == [it |-> 1, server |-> ss]
           Is(f, j) == f = [k \in 0 .. j |-> IF k = 0 THEN a ELSE AdmitOne(f[k - 1])]
           T == {j \in 0 .. n : \E f : Is(f, j)}
<1>1. Admit(ss) = (CHOOSE f : Is(f, n))[n].server
  BY DEF Admit
<1> HIDE DEF n, a
<1>2. n \in Nat
  BY DEF n
<1>3. 0 \in T
  <2>1. Is([k \in 0 .. 0 |-> a], 0)
    BY Z3
  <2> HIDE DEF Is
  <2>2. 0 \in 0 .. n
    BY <1>2
  <2> QED BY <2>1, <2>2
<1>4. ASSUME NEW j \in 0 .. n - 1, j \in T PROVE j + 1 \in T
  <2>1. PICK f : Is(f, j)
    BY <1>4
  <2> DEFINE g == [k \in 0 .. j + 1 |-> IF k = 0 THEN a ELSE AdmitOne(f[k - 1])]
  <2>2. \A k \in 0 .. j : g[k] = f[k]
    <3>1. \A k \in 0 .. j : k \in 0 .. j + 1
      BY <1>2
    <3>2. \A k \in 0 .. j : f[k] = IF k = 0 THEN a ELSE AdmitOne(f[k - 1])
      BY <2>1
    <3> QED BY <3>1, <3>2
  <2>3. \A k \in 0 .. j + 1 : k # 0 => k - 1 \in 0 .. j
    BY <1>2
  <2>4. \A k \in 0 .. j + 1 : k # 0 => g[k - 1] = f[k - 1]
    BY <2>2, <2>3
  <2>5. Is(g, j + 1)
    BY <2>4
  <2>6. j + 1 \in 0 .. n
    BY <1>2
  <2> HIDE DEF Is, g
  <2> QED BY <2>5, <2>6
<1>5. n \in T
  <2>1. \A k \in 0 .. n : k \in T
    BY <1>2, <1>3, <1>4, UpTo
  <2> QED BY <1>2, <2>1
<1>6. PICK f : f = CHOOSE g : Is(g, n)
  OBVIOUS
<1>7. Is(f, n)
  BY <1>5, <1>6
<1>8. f[0] = a /\ \A k \in 1 .. n : f[k] = AdmitOne(f[k - 1])
  BY <1>2, <1>7
<1>9. Admit(ss) = f[n].server
  BY <1>1, <1>6
<1> QED BY <1>8, <1>9 DEF n, a

\* admit() keeps the invariant.
LEMMA Admitted ==
    ASSUME Counting, NEW M, NEW J, NEW D, NEW S, NEW X, NEW N, Inv(M, J, D, S, X, N)
    PROVE  Inv(M, J, D, Admit(S), X, N)
<1> DEFINE n == Len(S.requests)
<1>1. n \in Nat
  <2>1. S \in Server
    BY DEF Inv, Typed
  <2> QED BY <2>1 DEF Server
<1>2. PICK f : /\ f[0] = [it |-> 1, server |-> S]
               /\ \A k \in 1 .. n : f[k] = AdmitOne(f[k - 1])
               /\ Admit(S) = f[n].server
  BY <1>1, AdmitLoop
<1> DEFINE T == {k \in 0 .. n : Scanning(M, J, D, X, N, f[k], k, n)}
<1>3. 0 \in T
  <2>1. f[0].it = 1 /\ f[0].server = S
    BY <1>2
  <2>2. Len(f[0].server.requests) = f[0].it - 1 + n - 0
    BY <1>1, <2>1
  <2>3. Scanning(M, J, D, X, N, f[0], 0, n)
    BY <1>2, <2>1, <2>2 DEF Scanning, IsScan
  <2> QED BY <1>1, <2>3
<1> HIDE DEF n
<1>4. ASSUME NEW k \in 0 .. n - 1, k \in T PROVE k + 1 \in T
  <2>1. k + 1 \in 1 .. n /\ k + 1 \in 0 .. n /\ k + 1 - 1 = k
    BY <1>1
  <2>2. f[k + 1] = AdmitOne(f[k])
    BY <1>2, <2>1
  <2>3. Scanning(M, J, D, X, N, AdmitOne(f[k]), k + 1, n)
    BY <1>1, <1>4, AdmitStep
  <2> QED BY <2>1, <2>2, <2>3
<1>5. \A k \in 0 .. n : k \in T
  BY <1>1, <1>3, <1>4, UpTo
<1>6. Scanning(M, J, D, X, N, f[n], n, n)
  BY <1>1, <1>5
<1> QED BY <1>2, <1>6 DEF Scanning

-----------------------------------------------------------------------------
(* pumpSlot. *)

\* Slot t is slot s being read.
Reads(t, s) ==
    /\ t.epoch = s.epoch /\ t.source = s.source /\ t.waiters = s.waiters /\ t.dma = s.dma
    /\ t.reading = TRUE /\ t.offset = (IF s.reading THEN s.offset ELSE 0)
    /\ t.bytes = (IF s.reading THEN s.bytes ELSE NoBytes)

LEMMA SlotsPumped ==
    ASSUME NEW M, NEW J, NEW D, NEW S, NEW X, NEW N, Inv(M, J, D, S, X, N), NEW room
    PROVE  Inv(M, J, D, PumpSlots(S, room), X, N)
<1> DEFINE idle(s) == s.dma \/ s.pending \/ s.waiters = <<>>
           fits(i) == Cardinality({j \in Readable(S) : j < i}) < room
           pump(s, b) == [s EXCEPT !.reading = TRUE, !.pending = b,
                                   !.offset = IF s.reading THEN @ ELSE 0,
                                   !.bytes  = IF s.reading THEN @ ELSE NoBytes]
           T == PumpSlots(S, room)
<1>1. /\ M \in [Members -> Member] /\ S \in Server /\ N \in SUBSET Message
      /\ MsgInv(M, J, S, N) /\ Unique(M, S, N)
  BY DEF Inv, Typed
<1>2. NoBytes \in Bytes /\ Chunks \in Nat \ {0}
  BY CohortAssumption DEF NoBytes, Bytes, Tiles
<1>3. ASSUME NEW s \in Slot, NEW b \in BOOLEAN
      PROVE  pump(s, b) \in Slot /\ Reads(pump(s, b), s)
  <2>1. /\ s.dma \in BOOLEAN /\ s.reading \in BOOLEAN /\ s.offset \in 0 .. Chunks /\ s.bytes \in Bytes \cup {<<>>}
        /\ 0 \in 0 .. Chunks
    BY <1>2 DEF Slot
  <2>2. CASE s.reading
    <3>1. pump(s, b) = [s EXCEPT !.reading = TRUE, !.pending = b, !.offset = s.offset, !.bytes = s.bytes]
      BY <2>2
    <3> HIDE DEF pump
    <3> QED BY <2>1, <2>2, <3>1 DEF Slot, Reads
  <2>3. CASE ~s.reading
    <3>1. pump(s, b) = [s EXCEPT !.reading = TRUE, !.pending = b, !.offset = 0, !.bytes = NoBytes]
      BY <2>3
    <3> HIDE DEF pump
    <3> QED BY <1>2, <2>1, <2>3, <3>1 DEF Slot, Reads
  <2> QED BY <2>2, <2>3
<1>4. T = [S EXCEPT !.slots =
              [i \in SlotIds |-> IF idle(S.slots[i]) THEN S.slots[i] ELSE pump(S.slots[i], fits(i))]]
  BY DEF PumpSlots
<1>15. \A i \in SlotIds : fits(i) \in BOOLEAN
  OBVIOUS
<1> HIDE DEF T, pump, idle, fits
<1>5. \A i \in SlotIds : S.slots[i] \in Slot
  BY <1>1, KeptTypes
<1>6. /\ T \in Server /\ T.joined = S.joined /\ T.finished = S.finished /\ T.requests = S.requests
      /\ \A i \in SlotIds : T.slots[i] = IF idle(S.slots[i]) THEN S.slots[i] ELSE pump(S.slots[i], fits(i))
  BY <1>1, <1>3, <1>4, <1>5, <1>15 DEF Server
<1>7. ASSUME NEW i \in SlotIds
      PROVE  /\ T.slots[i].waiters = S.slots[i].waiters
             /\ T.slots[i].epoch = S.slots[i].epoch /\ T.slots[i].source = S.slots[i].source
  <2>1. Reads(pump(S.slots[i], fits(i)), S.slots[i])
    BY <1>3, <1>5, <1>15
  <2> QED BY <1>6, <2>1 DEF Reads
<1>8. SameQueues(M, S, M, T)
  BY <1>6, <1>7 DEF SameQueues
<1>9. Keeps(M, J, S, M, J, T)
  BY <1>6 DEF Keeps
<1>10. MsgInv(M, J, T, N) /\ Unique(M, T, N)
  BY <1>1, <1>8, <1>9, Undisturbed, SameBoxes
<1>11. ASSUME NEW i \in SlotIds PROVE SlotInv(T, X, i)
  <2>1. SlotInv(S, X, i)
    BY DEF Inv
  <2>2. CASE idle(S.slots[i])
    <3>1. T.slots[i] = S.slots[i]
      BY <1>6, <2>2
    <3> QED BY <1>6, <2>1, <3>1 DEF SlotInv
  <2>3. CASE ~idle(S.slots[i])
    <3> DEFINE s == S.slots[i]
               t == T.slots[i]
    <3>1. s \in Slot /\ t = pump(s, fits(i)) /\ ~s.dma /\ s.waiters # <<>>
      BY <1>5, <1>6, <2>3 DEF idle
    <3>2. /\ t.epoch = s.epoch /\ t.source = s.source /\ t.waiters = s.waiters /\ t.dma = s.dma
          /\ t.reading = TRUE /\ t.offset = (IF s.reading THEN s.offset ELSE 0)
          /\ t.bytes = (IF s.reading THEN s.bytes ELSE NoBytes)
      <4>1. Reads(t, s)
        BY <1>3, <1>15, <3>1
      <4> HIDE DEF s, t
      <4> QED BY <4>1 DEF Reads
    <3>3. /\ s.waiters # <<>> => s.epoch # 0 /\ S.joined[s.epoch] = Members
          /\ s.epoch # 0 /\ ~s.dma => X[i] = TileOf(s.source)
          /\ s.reading => /\ s.offset < Chunks /\ s.bytes \in Bytes
                          /\ \A c \in 1 .. s.offset : s.bytes[c] = s.source
      BY <2>1 DEF SlotInv
    <3> HIDE DEF s, t
    <3>4. /\ t.offset < Chunks /\ t.bytes \in Bytes
          /\ \A c \in 1 .. t.offset : t.bytes[c] = t.source
      <4>1. CASE s.reading
        BY <3>2, <3>3, <4>1
      <4>2. CASE ~s.reading
        <5>1. t.offset = 0 /\ t.bytes = NoBytes /\ 0 < Chunks /\ \A c \in 1 .. 0 : FALSE
          BY <1>2, <3>2, <4>2
        <5> QED BY <1>2, <5>1
      <4> QED BY <4>1, <4>2
    <3> QED BY <1>6, <3>1, <3>2, <3>3, <3>4 DEF SlotInv, t
  <2> QED BY <2>2, <2>3
<1>12. ASSUME NEW e \in EpochIds PROVE EpochInv(M, J, T, e)
  BY <1>6 DEF Inv, EpochInv
<1>13. Typed(M, J, D, T, X, N)
  BY <1>6 DEF Inv, Typed
<1>14. Inv(M, J, D, T, X, N)
  BY <1>10, <1>11, <1>12, <1>13 DEF Inv
<1> QED BY <1>14 DEF T

-----------------------------------------------------------------------------
(* send. *)

\* No identity of I is in flight.
Fresh(M, S, N, I) ==
    /\ \A v \in Members : Ids(M[v].outgoing) \cap I = {}
    /\ \A i \in SlotIds : Ids(S.slots[i].waiters) \cap I = {}
    /\ Ids(S.requests) \cap I = {} /\ NetIds(N) \cap I = {}

LEMMA FreshIs ==
    ASSUME NEW M \in [Members -> Member], NEW J, NEW S \in Server, NEW N \in SUBSET Message,
           MsgInv(M, J, S, N), NEW I, \A y \in Message : MsgOk(M, J, S, y) => Id(y) \notin I
    PROVE  Fresh(M, S, N, I)
<1>1. ASSUME NEW v \in Members PROVE Ids(M[v].outgoing) \cap I = {}
  <2>1. \A k \in 1 .. Len(M[v].outgoing) : Id(M[v].outgoing[k]) \notin I
    BY KeptTypes DEF MsgInv, OutOk
  <2>2. \A x \in Ids(M[v].outgoing) : x \notin I
    BY <2>1 DEF Ids
  <2> QED BY <2>2
<1>2. ASSUME NEW i \in SlotIds PROVE Ids(S.slots[i].waiters) \cap I = {}
  <2>1. \A k \in 1 .. Len(S.slots[i].waiters) : Id(S.slots[i].waiters[k]) \notin I
    BY KeptTypes DEF MsgInv, WaiterOk, RequestOk
  <2>2. \A x \in Ids(S.slots[i].waiters) : x \notin I
    BY <2>1 DEF Ids
  <2> QED BY <2>2
<1>3. Ids(S.requests) \cap I = {}
  <2>1. \A k \in 1 .. Len(S.requests) : Id(S.requests[k]) \notin I
    BY KeptTypes DEF MsgInv, RequestOk
  <2>2. \A x \in Ids(S.requests) : x \notin I
    BY <2>1 DEF Ids
  <2> QED BY <2>2
<1>4. NetIds(N) \cap I = {}
  <2>1. \A y \in N : Id(y) \notin I
    BY DEF MsgInv
  <2>2. \A x \in NetIds(N) : x \notin I
    BY <2>1 DEF NetIds
  <2> QED BY <2>2
<1> QED BY <1>1, <1>2, <1>3, <1>4 DEF Fresh

\* Member m queues the messages w, which are about nothing that is in flight.
LEMMA PostedFresh ==
    ASSUME NEW M \in [Members -> Member], NEW J, NEW S \in Server, NEW N \in SUBSET Message,
           MsgInv(M, J, S, N), Unique(M, S, N), NEW m \in Members, NEW w \in Seq(Message), Distinct(w),
           NEW A, NEW K, A[m].outgoing = M[m].outgoing \o w,
           \A v \in Members : v # m => A[v].outgoing = M[v].outgoing,
           \A y \in Message : MsgOk(M, J, S, y) => MsgOk(A, K, S, y), Fresh(M, S, N, Ids(w)),
           \A k \in 1 .. Len(w) : OutOk(A, K, S, m, w[k])
    PROVE  MsgInv(A, K, S, N) /\ Unique(A, S, N)
<1> DEFINE q == M[m].outgoing
           u == q \o w
<1>1. q \in Seq(Message) /\ \A k \in 1 .. Len(q) : q[k] \in Message /\ OutOk(M, J, S, m, q[k])
  BY KeptTypes DEF MsgInv
<1>2. A[m].outgoing = u
  OBVIOUS
<1>3. \A y \in Message : MsgOk(M, J, S, y) => MsgOk(A, K, S, y)
  OBVIOUS
<1>5. ASSUME NEW k \in 1 .. Len(u)
      PROVE  \/ k \in 1 .. Len(q) /\ u[k] = q[k]
             \/ \E j \in 1 .. Len(w) : u[k] = w[j]
  <2> HIDE DEF q
  <2>1. /\ \A i \in 1 .. Len(q) : u[i] = q[i]
        /\ \A i \in 1 .. Len(w) : u[Len(q) + i] = w[i]
        /\ Len(u) = Len(q) + Len(w)
        /\ \A i \in 1 .. Len(q) + Len(w) :
              i \in 1 .. Len(q) \/ (i - Len(q) \in 1 .. Len(w) /\ Len(q) + (i - Len(q)) = i)
    <3>1. IsConcat(q, w, u)
      BY <1>1, ConcatSplit
    <3> HIDE DEF u
    <3> QED BY <3>1 DEF IsConcat
  <2> HIDE DEF u
  <2>2. k \in 1 .. Len(q) + Len(w)
    BY <2>1
  <2>3. CASE k - Len(q) \in 1 .. Len(w) /\ Len(q) + (k - Len(q)) = k
    <3>1. u[Len(q) + (k - Len(q))] = w[k - Len(q)]
      BY <2>1, <2>3
    <3>2. u[k] = w[k - Len(q)]
      BY <2>3, <3>1
    <3> QED BY <2>3, <3>2
  <2> QED BY <2>1, <2>2, <2>3
<1> HIDE DEF q, u
<1>6. MsgInv(A, K, S, N)
  <2>1. ASSUME NEW v \in Members, NEW k \in 1 .. Len(A[v].outgoing) PROVE OutOk(A, K, S, v, A[v].outgoing[k])
    <3>1. CASE v = m
      <4>1. k \in 1 .. Len(u) /\ A[v].outgoing[k] = u[k]
        BY <1>2, <3>1
      <4>2. CASE k \in 1 .. Len(q) /\ u[k] = q[k]
        <5>1. q[k] \in Message /\ OutOk(M, J, S, m, q[k])
          BY <1>1, <4>2
        <5> QED BY <1>3, <3>1, <4>1, <4>2, <5>1 DEF OutOk
      <4>3. CASE \E j \in 1 .. Len(w) : u[k] = w[j]
        BY <3>1, <4>1, <4>3
      <4> QED BY <1>5, <4>1, <4>2, <4>3
    <3>2. CASE v # m
      <4>1. A[v].outgoing = M[v].outgoing
        BY <3>2
      <4>2. M[v].outgoing[k] \in Message /\ OutOk(M, J, S, v, M[v].outgoing[k])
        BY <4>1, KeptTypes DEF MsgInv
      <4> QED BY <1>3, <4>1, <4>2 DEF OutOk
    <3> QED BY <3>1, <3>2
  <2>2. \A y \in N : MsgOk(A, K, S, y)
    BY <1>3 DEF MsgInv
  <2>3. \A k \in 1 .. Len(S.requests) : RequestOk(A, K, S, S.requests[k])
    BY <1>3, KeptTypes DEF MsgInv, RequestOk
  <2>4. \A i \in SlotIds : \A k \in 1 .. Len(S.slots[i].waiters) : WaiterOk(A, K, S, i, S.slots[i].waiters[k])
    BY <1>3, KeptTypes DEF MsgInv, WaiterOk, RequestOk
  <2> QED BY <2>1, <2>2, <2>3, <2>4 DEF MsgInv
<1>7. /\ \A v \in Members : Ids(M[v].outgoing) \cap Ids(w) = {}
      /\ \A i \in SlotIds : Ids(S.slots[i].waiters) \cap Ids(w) = {}
      /\ Ids(S.requests) \cap Ids(w) = {} /\ NetIds(N) \cap Ids(w) = {}
  BY DEF Fresh
<1>8. Distinct(u) /\ Ids(u) \subseteq Ids(q) \cup Ids(w)
  <2>1. Distinct(q) /\ Ids(q) \cap Ids(w) = {}
    BY <1>7 DEF Unique, q
  <2>2. Distinct(q \o w) /\ Ids(q \o w) \subseteq Ids(q) \cup Ids(w)
    BY <1>1, <2>1, IdsConcat
  <2> QED BY <2>2 DEF u
<1>9. Unique(A, S, N)
  <2> DEFINE B == Box(M, S, N)
             C == Box(A, S, N)
  <2>1. Disjoint(B) /\ OutBox(m) \in Boxes
    BY BoxNames DEF Unique
  <2>2. IsBox(B, M, S, N) /\ IsBox(C, A, S, N)
    BY BoxAt
  <2> HIDE DEF B, C
  <2>3. ASSUME NEW c \in Boxes PROVE B[c] \cap Ids(w) = {} /\ (c # OutBox(m) => C[c] \subseteq B[c])
    <3>1. ASSUME NEW v \in Members, c = OutBox(v) PROVE B[c] \cap Ids(w) = {} /\ (c # OutBox(m) => C[c] \subseteq B[c])
      <4>1. B[c] = Ids(M[v].outgoing) /\ C[c] = Ids(A[v].outgoing)
        BY <2>2, <3>1 DEF IsBox
      <4>2. c # OutBox(m) => A[v].outgoing = M[v].outgoing
        BY <3>1
      <4> QED BY <1>7, <4>1, <4>2
    <3>2. ASSUME NEW i \in SlotIds, c = SlotBox(i) PROVE B[c] \cap Ids(w) = {} /\ C[c] \subseteq B[c]
      <4>1. B[c] = Ids(S.slots[i].waiters) /\ C[c] = Ids(S.slots[i].waiters)
        BY <2>2, <3>2 DEF IsBox
      <4> QED BY <1>7, <4>1
    <3>3. CASE c = QueueBox
      BY <1>7, <2>2, <3>3 DEF IsBox
    <3>4. CASE c = NetBox
      BY <1>7, <2>2, <3>4 DEF IsBox
    <3> QED BY <3>1, <3>2, <3>3, <3>4, BoxCases
  <2>4. C[OutBox(m)] \subseteq B[OutBox(m)] \cup Ids(w)
    BY <1>2, <1>8, <2>2 DEF IsBox, q
  <2>5. Disjoint(C)
    BY <2>1, <2>3, <2>4, FreshDisjoint
  <2>6. \A v \in Members : Distinct(A[v].outgoing)
    BY <1>2, <1>8 DEF Unique
  <2> QED BY <2>5, <2>6 DEF Unique, C
<1> QED BY <1>6, <1>9

\* New messages of member m.
LEMMA Posted ==
    ASSUME NEW M \in [Members -> Member], NEW J, NEW S \in Server, NEW N \in SUBSET Message,
           MsgInv(M, J, S, N), Unique(M, S, N), NEW m \in Members, NEW w \in Seq(Message), Distinct(w),
           NEW A, NEW K, A[m].outgoing = M[m].outgoing \o w,
           \A v \in Members : v # m => A[v].outgoing = M[v].outgoing,
           \A y \in Message : MsgOk(M, J, S, y) => MsgOk(A, K, S, y) /\ Id(y) \notin Ids(w),
           \A k \in 1 .. Len(w) : OutOk(A, K, S, m, w[k])
    PROVE  MsgInv(A, K, S, N) /\ Unique(A, S, N)
<1>1. Fresh(M, S, N, Ids(w))
  BY FreshIs
<1> QED BY <1>1, PostedFresh

-----------------------------------------------------------------------------
(* release. *)

\* Every member once.
LEMMA MemberSeqIs ==
    ASSUME Counting
    PROVE  /\ MemberSeq \in [1 .. Width -> Members] /\ Width \in Nat
           /\ \A i, j \in 1 .. Width : MemberSeq[i] = MemberSeq[j] => i = j
<1>1. Width \in Nat /\ \E s \in [1 .. Width -> Members] : IsInjective(s)
  BY DEF Counting, MembersCounted
<1>2. MemberSeq \in [1 .. Width -> Members] /\ IsInjective(MemberSeq)
  BY <1>1 DEF MemberSeq
<1>3. DOMAIN MemberSeq = 1 .. Width
  BY <1>2
<1> QED BY <1>1, <1>2, <1>3 DEF IsInjective

\* An epoch that can be released is the epoch of every member, and everyone finished it.
LEMMA ReleasableIs ==
    ASSUME NEW M, NEW J, NEW D, NEW S, NEW X, NEW N, Inv(M, J, D, S, X, N),
           NEW e \in Releasable(M[Leader], S)
    PROVE  /\ e \in EpochIds /\ e \notin M[Leader].released /\ S.joined[e] = Members /\ S.finished[e] = Members
           /\ \A v \in Members : J[v].epoch = e /\ e \notin M[v].released
<1>1. e \in EpochIds /\ e \notin M[Leader].released /\ S.joined[e] = Members /\ S.finished[e] = Members
  BY DEF Releasable
<1>2. ASSUME NEW v \in Members PROVE J[v].epoch = e /\ e \notin M[v].released
  <2>1. J \in [Members -> Job] /\ EpochInv(M, J, S, e) /\ JobInv(M, J, v)
    BY <1>1 DEF Inv, Typed
  <2>2. e \notin M[v].released
    BY <1>1, <2>1 DEF JobInv
  <2>3. ~(e < J[v].epoch)
    BY <1>1, <2>1, <2>2 DEF JobInv
  <2>4. J[v].epoch >= e
    BY <1>1, <2>1 DEF EpochInv
  <2>5. J[v].epoch \in Int /\ e \in Int
    BY <1>1, <2>1 DEF Job, EpochIds
  <2> QED BY <2>2, <2>3, <2>4, <2>5
<1> QED BY <1>1, <1>2

\* The messages of a release.
LEMMA ReleaseMessagesAre ==
    ASSUME Counting, NEW e \in EpochIds
    PROVE  LET w == ReleaseMessages({e})
           IN  /\ w \in Seq(Message) /\ Distinct(w)
               /\ \A k \in 1 .. Len(w) :
                     /\ w[k].kind = "Release" /\ w[k].epoch = e /\ w[k].source = 0 /\ w[k].to \in Members
                     /\ Id(w[k]).class = "Release" /\ Id(w[k]).epoch = e
<1> DEFINE w == ReleaseMessages({e})
           g(i) == Msg("Release", Leader, MemberSeq[i], e, 0)
<1>1. w = [i \in 1 .. Width |-> g(i)]
  <2>1. {e} # {} /\ (CHOOSE f \in {e} : TRUE) = e
    OBVIOUS
  <2> QED BY <2>1 DEF ReleaseMessages
<1>2. ASSUME NEW i \in 1 .. Width
      PROVE  /\ g(i) \in Message /\ g(i).kind = "Release" /\ g(i).epoch = e /\ g(i).source = 0
             /\ g(i).to = MemberSeq[i] /\ MemberSeq[i] \in Members
  <2>1. MemberSeq[i] \in Members /\ Leader \in Members /\ 0 \in Tiles
    BY MemberSeqIs, LeaderIs, CohortAssumption DEF Tiles
  <2> QED BY <2>1 DEF Msg, Message
<1>3. ASSUME NEW i \in 1 .. Width
      PROVE  Id(g(i)).class = "Release" /\ Id(g(i)).epoch = e /\ Id(g(i)).owner = MemberSeq[i]
  <2> HIDE DEF g
  <2> QED BY <1>2 DEF Id
<1> HIDE DEF g, w
<1>4. w \in Seq(Message) /\ Len(w) = Width /\ \A i \in 1 .. Width : w[i] = g(i)
  BY <1>1, <1>2, MemberSeqIs
<1>5. Distinct(w)
  <2>1. \A i, j \in 1 .. Width : Id(g(i)) = Id(g(j)) => i = j
    BY <1>3, MemberSeqIs
  <2> QED BY <1>4, <2>1 DEF Distinct
<1>6. ASSUME NEW k \in 1 .. Len(w)
      PROVE  /\ w[k].kind = "Release" /\ w[k].epoch = e /\ w[k].source = 0 /\ w[k].to \in Members
             /\ Id(w[k]).class = "Release" /\ Id(w[k]).epoch = e
  BY <1>2, <1>3, <1>4
<1> QED BY <1>4, <1>5, <1>6 DEF w

\* The leader's member after release().
Releasing(mm, es) == Send([mm EXCEPT !.released = @ \cup es], ReleaseMessages(es))

LEMMA Released ==
    ASSUME Counting, NEW M, NEW J, NEW D, NEW S, NEW X, NEW N, Inv(M, J, D, S, X, N)
    PROVE  /\ Releasing(M[Leader], Releasable(M[Leader], S)) \in Member
           /\ Inv(With(M, Leader, Releasing(M[Leader], Releasable(M[Leader], S))), J, D, S, X, N)
<1> DEFINE es == Releasable(M[Leader], S)
           m == Leader
           x == Releasing(M[m], es)
           q == M[m].outgoing
<1>1. /\ M \in [Members -> Member] /\ M[m] \in Member /\ S \in Server /\ N \in SUBSET Message /\ m \in Members
      /\ J \in [Members -> Job] /\ MsgInv(M, J, S, N) /\ Unique(M, S, N) /\ q \in Seq(Message)
  BY LeaderIs, KeptTypes DEF Inv, Typed
<1>2. CASE es = {}
  <2>1. x = M[m]
    <3>1. M[m].released \cup {} = M[m].released /\ M[m].outgoing \o <<>> = M[m].outgoing
      BY <1>1
    <3>2. x = Send([M[m] EXCEPT !.released = M[m].released], <<>>)
      BY <1>2, <3>1 DEF Releasing, ReleaseMessages
    <3>3. [M[m] EXCEPT !.released = M[m].released] = M[m] /\ [M[m] EXCEPT !.outgoing = M[m].outgoing] = M[m]
      BY <1>1 DEF Member
    <3> QED BY <3>1, <3>2, <3>3 DEF Send
  <2>2. With(M, m, M[m]) = M
    BY <1>1 DEF With
  <2> HIDE DEF x
  <2> QED BY <1>1, <2>1, <2>2 DEF x
<1>3. ASSUME NEW e \in es
      PROVE  x \in Member /\ Inv(With(M, m, x), J, D, S, X, N)
  <2> DEFINE w == ReleaseMessages({e})
             A == With(M, m, x)
  <2>1. /\ e \in EpochIds /\ e \notin M[m].released /\ S.joined[e] = Members /\ S.finished[e] = Members
        /\ \A v \in Members : J[v].epoch = e /\ e \notin M[v].released
    BY ReleasableIs
  <2>2. es = {e}
    <3>1. ASSUME NEW f \in es PROVE J[m].epoch = f
      <4>1. \A v \in Members : J[v].epoch = f /\ f \notin M[v].released
        BY ReleasableIs
      <4> QED BY <1>1, <4>1
    <3> QED BY <1>1, <2>1, <3>1
  <2>3. /\ w \in Seq(Message) /\ Distinct(w)
        /\ \A k \in 1 .. Len(w) :
              /\ w[k].kind = "Release" /\ w[k].epoch = e /\ w[k].source = 0 /\ w[k].to \in Members
              /\ Id(w[k]).class = "Release" /\ Id(w[k]).epoch = e
    BY <2>1, ReleaseMessagesAre
  <2>4. x = Send([M[m] EXCEPT !.released = @ \cup {e}], w)
    BY <2>2 DEF Releasing
  <2> HIDE DEF x, w, es
  <2>5. x \in Member /\ x.outgoing = q \o w /\ x.landings = M[m].landings /\ x.released = M[m].released \cup {e}
    <3>1. q \o w \in Seq(Message)
      BY <1>1, <2>3, ConcatIs
    <3> QED BY <1>1, <2>1, <2>4, <3>1 DEF Send, Member
  <2>6. Changed(A, M, m, x)
    BY <1>1, <2>5, WithIs
  <2> HIDE DEF A
  <2>7. A \in [Members -> Member] /\ A[m] = x /\ \A v \in Members : v # m => A[v] = M[v]
    BY <2>6 DEF Changed
  <2>8. /\ \A v \in Members : A[v].landings = M[v].landings
        /\ \A v \in Members : v # Leader => A[v].released = M[v].released /\ A[v].outgoing = M[v].outgoing
        /\ A[Leader].released = M[Leader].released \cup {e} /\ A[Leader].outgoing = q \o w
    BY <2>5, <2>7
  <2>9. ASSUME NEW y \in Message, MsgOk(M, J, S, y) PROVE MsgOk(A, J, S, y)
    <3>1. y.from \in Members /\ y.to \in Members
      BY MessageIs
    <3>2. \A v \in Members : \A f, s : Waiting(M, v, f, s) => Waiting(A, v, f, s)
      BY <2>8 DEF Waiting
    <3> QED BY <2>8, <2>9, <3>1, <3>2 DEF MsgOk
  <2>10. ASSUME NEW y \in Message, MsgOk(M, J, S, y) PROVE Id(y) \notin Ids(w)
    <3> SUFFICES ASSUME NEW k \in 1 .. Len(w), Id(y) = Id(w[k]) PROVE FALSE
      BY DEF Ids
    <3>1. Id(y).class = "Release" /\ Id(y).epoch = e
      BY <2>3
    <3>2. y.kind = "Release" /\ y.epoch = e
      BY <3>1 DEF Id
    <3> QED BY <2>1, <2>10, <3>2 DEF MsgOk
  <2>11. ASSUME NEW k \in 1 .. Len(w) PROVE OutOk(A, J, S, m, w[k])
    <3>1. /\ w[k].kind = "Release" /\ w[k].epoch = e /\ w[k].source = 0 /\ w[k].to \in Members
      BY <2>3
    <3>2. e \in A[Leader].released /\ \A v \in Members : v # Leader => e \notin A[v].released
      BY <2>1, <2>8
    <3> QED BY <3>1, <3>2 DEF OutOk, MsgOk
  <2>12. MsgInv(A, J, S, N) /\ Unique(A, S, N)
    BY <1>1, <2>3, <2>8, <2>9, <2>10, <2>11, Posted
  <2>13. Ordered(A[Leader].outgoing, J[Leader].epoch)
    <3>1. Ordered(q, J[Leader].epoch) /\ J[Leader].epoch = e
      BY <1>1, <2>1 DEF Inv
    <3>2. Ordered(q \o w, J[Leader].epoch)
      BY <1>1, <2>3, <3>1, OrderedConcat
    <3> QED BY <2>8, <3>2
  <2>14. ASSUME NEW v \in Members PROVE LandingInv(A, J, D, v) /\ HoldsInv(J, D, v) /\ JobInv(A, J, v)
    <3>1. LandingInv(M, J, D, v) /\ HoldsInv(J, D, v) /\ JobInv(M, J, v)
      BY DEF Inv
    <3>2. LandingInv(A, J, D, v)
      BY <2>8, <3>1 DEF LandingInv
    <3>3. M[v].released \subseteq A[v].released /\ (M[v].released \subseteq M[Leader].released => A[v].released \subseteq A[Leader].released)
      BY <2>8
    <3> QED BY <3>1, <3>2, <3>3 DEF JobInv
  <2>15. ASSUME NEW f \in EpochIds PROVE EpochInv(A, J, S, f)
    <3>1. EpochInv(M, J, S, f)
      BY DEF Inv
    <3> QED BY <2>1, <2>8, <3>1 DEF EpochInv
  <2>16. Typed(A, J, D, S, X, N)
    BY <2>7 DEF Inv, Typed
  <2>17. Inv(A, J, D, S, X, N)
    BY <2>12, <2>13, <2>14, <2>15, <2>16 DEF Inv
  <2> QED BY <2>5, <2>17 DEF A
<1> QED BY <1>2, <1>3
==============================================================================
