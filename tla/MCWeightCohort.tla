--------------------------- MODULE MCWeightCohort ---------------------------
(* Instances of WeightCohort for TLC. *)
EXTENDS WeightCohortInv

CONSTANTS lead, peer
=============================================================================
