------------------------------ MODULE MCDriver ------------------------------
(* Instances of Driver for TLC.                                            *)
EXTENDS Driver

\* Two to four layers of up to three neurons: layers that widen and narrow by
\* more than one, and copies of one and of two page-directory entries of 1 KB.
MCNets == UNION {[1 .. n -> 1 .. 3] : n \in 2 .. 4}

\* One architecture, where the file is what matters.
MCOneNet == {<<2, 1>>}
=============================================================================
