---------------------------- MODULE MCGroupCtrl ----------------------------
(* Instances of GroupCtrl for TLC. *)
EXTENDS GroupCtrlInv, GroupCtrlGrants, TLC

CONSTANTS w1, w2, w3

\* Workers are interchangeable: slots are only used as indices, and the
\* round-robin cursor points into the queue, not at a worker.
WorkerSymmetry == Permutations(Workers)
=============================================================================
