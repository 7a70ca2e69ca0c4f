-------------------------- MODULE GroupCtrlGrants --------------------------
(* The grant protocol as an implementation of NodeGrants: the software's      *)
(* phases are the abstract worker's states, and everything else (mailbox,     *)
(* links, queue, counters, cursor) is hidden.                                 *)
EXTENDS GroupCtrl

AbstractState(phase) ==
    CASE phase = "run"                            -> "working"
      [] phase \in {"reqFields", "reqSeq", "wait"} -> "asking"
      [] phase \in {"hold", "doneSeq"}             -> "using"
      [] phase = "drain"                           -> "finished"
      [] phase = "left"                            -> "left"

stateBar == [w \in Workers |-> AbstractState(sw[w].phase)]
nodeBar  == [w \in Workers |-> sw[w].node]

Grants == INSTANCE NodeGrants
          WITH Cap <- MaxInflightPerNode, state <- stateBar, node <- nodeBar

\* GroupCtrlEndpoint implements the promise made to the workers' software:
\* every step of a handler, a tick or the software is invisible, or one step
\* of the abstract service.  In particular a worker starts to use a node only
\* when fewer than maxInflightPerNode_ workers use it, and leaves only when
\* all have finished.
ImplementsGrants == Grants!ASpec
=============================================================================
