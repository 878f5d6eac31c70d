------------------------- MODULE MCParallelTraining -------------------------
(* Instances of ParallelTraining for TLC.                                  *)
EXTENDS ParallelTraining

\* A shuffle that leaves no position in place.
MCOrder == [p \in 0 .. TotalSamples - 1 |-> (p + 1) % TotalSamples]
=============================================================================
