----------------------------- MODULE NodeGrants -----------------------------
(* What the grant scheduler promises the workers of a group, without          *)
(* mailboxes, links, queues or counters: a worker asks for a memory node,     *)
(* uses it while no more than Cap workers do, gives it back, and leaves when  *)
(* the whole group has finished.                                              *)
EXTENDS Integers, FiniteSets

CONSTANTS
    Workers,
    Nodes,
    Cap      \* how many workers may use a node at a time

VARIABLES
    state,   \* state[w]: what worker w is doing
    node     \* node[w]: the memory node it asks for or uses

avars == <<state, node>>

UsersOf(n) == {w \in Workers : state[w] = "using" /\ node[w] = n}

AInit ==
    /\ state = [w \in Workers |-> "working"]
    /\ node = [w \in Workers |-> 0]

Ask(w) ==
    /\ state[w] = "working"
    /\ state' = [state EXCEPT ![w] = "asking"]
    /\ \E n \in Nodes : node' = [node EXCEPT ![w] = n]

Use(w) ==
    /\ state[w] = "asking"
    /\ Cardinality(UsersOf(node[w])) < Cap
    /\ state' = [state EXCEPT ![w] = "using"]
    /\ UNCHANGED node

GiveBack(w) ==
    /\ state[w] = "using"
    /\ state' = [state EXCEPT ![w] = "working"]
    /\ node' = [node EXCEPT ![w] = 0]

Finish(w) ==
    /\ state[w] = "working"
    /\ state' = [state EXCEPT ![w] = "finished"]
    /\ UNCHANGED node

Leave(w) ==
    /\ state[w] = "finished"
    /\ \A v \in Workers : state[v] \in {"finished", "left"}
    /\ state' = [state EXCEPT ![w] = "left"]
    /\ UNCHANGED node

ANext == \E w \in Workers : Ask(w) \/ Use(w) \/ GiveBack(w) \/ Finish(w) \/ Leave(w)

ASpec == AInit /\ [][ANext]_avars
=============================================================================
