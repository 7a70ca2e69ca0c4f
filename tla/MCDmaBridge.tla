---------------------------- MODULE MCDmaBridge ----------------------------
(* Instances of DmaBridge for TLC. *)
EXTENDS DmaBridge

\* A read of worker w without consumer metadata.
Plain(req, w, win, slot, units) ==
    [op |-> "READ", req |-> req, w |-> w, win |-> win, tile |-> 0, slot |-> slot, meta |-> FALSE,
     cq |-> 0, ct |-> 0, q |-> 0, kv |-> FALSE, chunk |-> slot, units |-> units, prio |-> 4]
\* A K (slot 0) or V (slot 1) read of worker w, at query tile cq, for tile t of query tile q.
Kv(req, w, cq, q, t, slot) ==
    [op |-> "READ", req |-> req, w |-> w, win |-> 0, tile |-> t, slot |-> slot, meta |-> TRUE,
     cq |-> cq, ct |-> 0, q |-> q, kv |-> TRUE, chunk |-> 2 * t + slot, units |-> 1,
     prio |-> IF q = cq /\ t = 0 THEN 0 ELSE 3]
WriteMsg(req, w) == [Plain(req, w, 1, 0, 0) EXCEPT !.op = "WRITE", !.prio = 2]
ProgressMsg(req, w, cq, ct) ==
    [Kv(req, w, cq, cq, ct, 0) EXCEPT !.op = "PROGRESS", !.kv = FALSE, !.ct = ct, !.units = 0]

BridgeMsgs ==
    << \* one K chunk for worker 0, for worker 1 and its retry, and for worker 1's next query tile
       Kv(1, 0, 0, 0, 0, 0), Kv(2, 1, 0, 0, 0, 0), Kv(2, 1, 0, 0, 0, 0), Kv(3, 1, 1, 1, 0, 0),
       \* the K and the V chunk of worker 1's next tile, and its progress to that tile
       Kv(4, 1, 0, 0, 1, 0), Kv(5, 1, 0, 0, 1, 1), ProgressMsg(6, 1, 0, 1),
       \* two operands of window 2 of worker 0, and window 1 of both workers
       Plain(7, 0, 2, 0, 1), Plain(8, 0, 2, 1, 2), Plain(9, 0, 1, 0, 1), Plain(10, 1, 1, 0, 1),
       WriteMsg(11, 0) >>

Bridged(ids, policies, limit) ==
    [ids |-> ids,
     mode |-> [capped |-> "cap" \in policies, window |-> "window" \in policies,
               coalesce |-> "coalesce" \in policies, tilePriority |-> "tile" \in policies,
               kindPriority |-> "kind" \in policies, admitLimit |-> limit, drainLimit |-> limit]]
BridgeScenarios ==
    { Bridged({1, 2, 3, 4}, {"cap", "window", "coalesce"}, 0),
      Bridged({1, 5, 6, 7}, {"cap", "window", "tile"}, 0),
      Bridged({8, 9, 11}, {"cap", "window"}, 0),
      Bridged({8, 10, 11}, {"cap", "window"}, 0),
      Bridged({1, 9, 10, 12}, {"cap", "kind"}, 1),
      Bridged({1, 2, 10}, {"window", "coalesce"}, 0),
      Bridged({1, 6, 12}, {"tile"}, 0) }

\* One chunk wanted by two workers that are at different query tiles.
CopiesScenarios == { Bridged({1, 4}, {"cap", "coalesce"}, 0) }

\* One chunk wanted by two workers, without a credit cap.
UncappedScenarios == { Bridged({1, 2}, {"coalesce"}, 0) }
=============================================================================
