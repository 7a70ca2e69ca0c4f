------------------------- MODULE MCGlobalMemoryDma -------------------------
(* Instances of GlobalMemoryDma for TLC; the values are in the .cfg files. *)
EXTENDS GlobalMemoryDmaInv

\* A transfer of two bursts and one of a single burst.
TwoAndOne == <<2, 1>>
=============================================================================
