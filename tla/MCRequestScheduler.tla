------------------------- MODULE MCRequestScheduler -------------------------
(* Instances of RequestScheduler for TLC. *)
EXTENDS RequestScheduler, TLC

\* Two workers of one transaction each, under both issue policies.
TwoWorkers ==
    {[groupRoundRobin |-> g, eventDriven |-> FALSE, creditCap |-> 2, quantum |-> 2, window |-> 1,
      skew |-> 1, txns |-> <<1>> @@ (0 :> 1)] : g \in BOOLEAN}

\* One event-driven worker with both its transactions live, and the credits the
\* code derives for them; and one whose window takes three one after the other.
LiveWindow ==
    {[groupRoundRobin |-> FALSE, eventDriven |-> TRUE, creditCap |-> 2 * p[1], quantum |-> 1,
      window |-> p[1], skew |-> 0, txns |-> <<0>> @@ (0 :> p[2])] : p \in {<<2, 2>>, <<1, 3>>}}

\* A single credit, and two transactions for each worker.
ScarceCredits ==
    {[groupRoundRobin |-> FALSE, eventDriven |-> TRUE, creditCap |-> 1, quantum |-> 1, window |-> 2,
      skew |-> 0, txns |-> [w \in Workers |-> 2]]}

SchedScenarios == TwoWorkers \cup LiveWindow
=============================================================================
