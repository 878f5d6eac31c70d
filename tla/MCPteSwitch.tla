---------------------------- MODULE MCPteSwitch ----------------------------
(* Instances of PteSwitch for TLC.                                         *)
EXTENDS PteSwitch

\* Two CPUs in the worker's node; the indexes the program and the user tests
\* pass, and one on each side of the range.
MCCpus == {0, 1}
MCNodeCpus == <<0, 1>>
MCArguments == -1 .. 2
=============================================================================
