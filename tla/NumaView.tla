------------------------------ MODULE NumaView ------------------------------
(***************************************************************************)
(* What a process sees through one page-directory entry per NUMA node.     *)
(*                                                                         *)
(* newNetSharedAlloc lays out one copy ("slab") of the network per node,   *)
(* each in a 2 MB-aligned range that one PDE maps; the parent touches      *)
(* every page, so in its own tables slab s is mapped to physical copy s.   *)
(* A table is the map from slabs to the physical copy the PDE points to,   *)
(* NoFrame when the entry is absent.  Slabs, physical copies and nodes     *)
(* share the numbers 0 .. NumNodes-1.                                      *)
(***************************************************************************)
EXTENDS Integers

CONSTANT NumNodes           \* num_numa_nodes

ASSUME NumNodesAssumption == NumNodes \in Nat \ {0}

Nodes == 0 .. NumNodes - 1
NoFrame == -1
Tables == [Nodes -> Nodes \cup {NoFrame}]

\* The two tables fork can leave in the child for a shared anonymous region:
\* the parent's entries copied, or none of them (they are refilled by faults).
Copied == [s \in Nodes |-> s]
Absent == [s \in Nodes |-> NoFrame]

\* A fault on an absent entry installs the copy the region itself puts there.
Touch(t, s) == IF t[s] = NoFrame THEN [t EXCEPT ![s] = s] ELSE t
Frame(t, s) == Touch(t, s)[s]

\* sys_pte_entry_switch: the entries are exchanged only when both are present;
\* otherwise nothing changes, and the call returns 0 in both cases.
Present(t, s) == t[s] # NoFrame

\* Mutants of Switched: the entry kept in the temporary is never written back,
\* or is cleared.
SwitchedOneWay(t, a, b) == IF Present(t, a) /\ Present(t, b)
                           THEN [t EXCEPT ![a] = t[b]] ELSE t
SwitchedCleared(t, a, b) == IF Present(t, a) /\ Present(t, b)
                            THEN [t EXCEPT ![a] = t[b], ![b] = NoFrame] ELSE t

Switched(t, a, b) == IF Present(t, a) /\ Present(t, b)
                     THEN [t EXCEPT ![a] = t[b], ![b] = t[a]]
                     ELSE t

(***************************************************************************)
(* Every slab holds ABSOLUTE addresses into itself, so each dereference    *)
(* goes through the table again.  v is the physical copy whose structure   *)
(* was read, and its pointers therefore name slab v:                       *)
(*   nn.b -> b[k] -> b[k][j]          the array of row pointers, the datum *)
(*   nn.w -> w[k] -> w[k][i] -> w[k][i][j]     one more level of pointers  *)
(* A cell is one representative bias ("b") or weight ("w").                *)
(***************************************************************************)
Cells == {"b", "w"}
BiasFrame(t, v) == Frame(t, Frame(t, v))

\* Mutant of WeightFrame: w[k] is one block, like b[k], with no row pointers.
WeightFrameOneBlock(t, v) == Frame(t, Frame(t, v))

WeightFrame(t, v) == Frame(t, Frame(t, Frame(t, v)))
CellFrame(t, v, c) == IF c = "b" THEN BiasFrame(t, v) ELSE WeightFrame(t, v)
=============================================================================
