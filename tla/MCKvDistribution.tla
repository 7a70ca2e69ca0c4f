-------------------------- MODULE MCKvDistribution --------------------------
(* Instance of KvDistribution for TLC. *)
EXTENDS KvDistribution

\* A job of three tiles for the regular traffic, short ones for failures.
KvJobs ==
    <<[tiles |-> 3, chunks |-> 2], [tiles |-> 2, chunks |-> 1],
      [tiles |-> 1, chunks |-> 1], [tiles |-> 1, chunks |-> 1]>>

Regular(la)     == [first |-> 1, last |-> 1, lookahead |-> la, gens |-> 1, aborts |-> 0, faults |-> 0]
Failing(a, f)   == [first |-> 2, last |-> 3, lookahead |-> FALSE, gens |-> 1, aborts |-> a, faults |-> f]
Short(g, a, f)  == [first |-> 3, last |-> 4, lookahead |-> FALSE, gens |-> g, aborts |-> a, faults |-> f]

KvScenarios ==
    {Regular(TRUE), Regular(FALSE), Failing(1, 0), Failing(0, 1), Short(1, 1, 1), Short(2, 1, 0)}

ApartScenarios == {Short(2, 2, 0)}
=============================================================================
