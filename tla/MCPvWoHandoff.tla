--------------------------- MODULE MCPvWoHandoff ---------------------------
(* Instances of PvWoHandoff for TLC. *)
EXTENDS PvWoHandoffInv

\* Every worker also runs PV, so blocks travel in both directions and to self.
AllWorkers == Workers

\* Only the upper half of the lanes runs PV, as cores 12 .. 19 do.
UpperLanes == {w \in Workers : w[2] >= Lanes \div 2}
=============================================================================
