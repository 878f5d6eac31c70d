---------------------------- MODULE MemoryLayout ----------------------------
(***************************************************************************)
(* setup_numa_model: the shared copies of the network, and the private     *)
(* workspace of a process.                                                 *)
(*                                                                         *)
(* newNetSharedAlloc maps one region, a slab for each node, and walks a    *)
(* pointer through every slab: structure, arrays of pointers, rows of      *)
(* pointers, data.  How much a slab takes was computed before, by another  *)
(* function with loops of its own, and is rounded up to page-directory     *)
(* entries.  The bias of a layer is given the size of the layer it leaves  *)
(* and is indexed by the layer it enters.                                  *)
(*                                                                         *)
(* An address is an offset in bytes from the start of the mapping; the     *)
(* workspace's are from the start of its own.                              *)
(***************************************************************************)
EXTENDS Sums, Sequences, Functions

CONSTANTS
    NumNodes,               \* num_numa_nodes
    PdeSize,                \* PDE_ALIGN_SIZE: what one page-directory entry maps
    Nets                    \* the architectures: sequences of n_neurons_per_layer

ASSUME LayoutAssumption ==
    /\ NumNodes \in Nat \ {0}
    /\ PdeSize \in Nat \ {0} /\ PdeSize % 8 = 0
    /\ \A n \in Nets : n \in Seq(Nat \ {0}) /\ Len(n) >= 2

VARIABLES
    net,                    \* n_neurons_per_layer
    phase,                  \* where setup_numa_model or init_private_workspace is
    node, layer,            \* their loop counters
    ptr,                    \* current_ptr, then d_ptr
    b, w,                   \* b[s][k]; w[s][k][i]: the addresses of the data
    drawn                   \* the addresses that hold a random number, not zero

vars == <<net, phase, node, layer, ptr, b, w, drawn>>

Nodes == 0 .. NumNodes - 1
NLayers == Len(net)
Layers == 1 .. NLayers - 1
NIn(k) == net[k] + 1
NOut(k) == net[k + 1] + 1

\* sizeof
StructSize == 152
IntSize == 4
Pointer == 8
Double == 8

\* ALIGN_BLOCK and ALIGN_SIZE
Align8(n) == ((n + 7) \div 8) * 8

\* Mutant of SharedModelSize: the rows of dw are not counted.
SharedModelSizeShort ==
    LET top == Align8(Align8(StructSize) + NLayers * IntSize) + ((NLayers - 1) * 8 + NLayers * 3) * Pointer
    IN  Align8(top) + Sum([k \in Layers |-> NIn(k) * 3 * Pointer], NLayers - 1)
                    + Sum([k \in Layers |-> (NIn(k) + NIn(k) * NOut(k)) * Double], NLayers - 1)

\* calculate_shared_model_size
SharedModelSize ==
    LET top == Align8(Align8(StructSize) + NLayers * IntSize) + ((NLayers - 1) * 8 + NLayers * 3) * Pointer
    IN  Align8(top) + Sum([k \in Layers |-> NIn(k) * 4 * Pointer], NLayers - 1)
                    + Sum([k \in Layers |-> (NIn(k) + NIn(k) * NOut(k)) * Double], NLayers - 1)

\* calculate_private_workspace_size
PrivateSize ==
    LET rows == [k \in Layers |-> NIn(k) * 3 * Pointer + NOut(k) * 3 * Double + NIn(k) * NOut(k) * 3 * Double]
    IN  (NLayers - 1) * 3 * Pointer + NLayers * 3 * Pointer
        + Sum(rows, NLayers - 1)
        + Sum([l \in 1 .. NLayers |-> (net[l] + 1) * 3 * Double], NLayers)
        + (net[NLayers] + 1) * Double

\* Mutant of AlignedSize: rounded up to what ALIGN_BLOCK asks for only.
AlignedSizeTight == Align8(SharedModelSize)

AlignedSize == ((SharedModelSize + PdeSize - 1) \div PdeSize) * PdeSize
Slab(s) == s * AlignedSize

Init ==
    /\ net \in Nets
    /\ phase = "header"
    /\ node = 0
    /\ layer = 1
    /\ ptr = 0
    /\ b = [s \in Nodes |-> <<>>]
    /\ w = [s \in Nodes |-> <<>>]
    /\ drawn = {}

-----------------------------------------------------------------------------
(* newNetSharedAlloc                                                       *)

\* The structure, n_neurons_per_layer and the eleven arrays of pointers.
Header ==
    /\ phase = "header"
    /\ ptr' = Align8(Align8(Align8(Slab(node) + StructSize) + NLayers * IntSize)
                     + ((NLayers - 1) * 8 + NLayers * 3) * Pointer)
    /\ phase' = "rows"
    /\ layer' = 1
    /\ UNCHANGED <<net, node, b, w, drawn>>

\* The rows of pointers of one layer: w[i], dw[i], momentum_w[i], momentum2_w[i].
Rows ==
    /\ phase = "rows"
    /\ IF layer < NLayers
       THEN /\ ptr' = ptr + 4 * NIn(layer) * Pointer
            /\ layer' = layer + 1
            /\ UNCHANGED phase
       ELSE /\ ptr' = Align8(ptr)
            /\ layer' = 1
            /\ phase' = "data"
    /\ UNCHANGED <<net, node, b, w, drawn>>

\* Mutant of Data: the rows of w have the length of the layer they leave.
DataTransposed ==
    /\ phase = "data"
    /\ layer < NLayers
    /\ LET rows == Align8(ptr + NIn(layer) * Double) IN
       /\ b' = [b EXCEPT ![node] = Append(@, ptr)]
       /\ w' = [w EXCEPT ![node] =
                    Append(@, [i \in 0 .. net[layer] |-> rows + i * NIn(layer) * Double])]
       /\ ptr' = Align8(rows + NIn(layer) * NOut(layer) * Double)
    /\ layer' = layer + 1
    /\ UNCHANGED <<net, phase, node, drawn>>

\* The data of one layer: the bias, of n_in numbers, then n_in rows of n_out.
Data ==
    /\ phase = "data"
    /\ layer < NLayers
    /\ LET rows == Align8(ptr + NIn(layer) * Double) IN
       /\ b' = [b EXCEPT ![node] = Append(@, ptr)]
       /\ w' = [w EXCEPT ![node] =
                    Append(@, [i \in 0 .. net[layer] |-> rows + i * NOut(layer) * Double])]
       /\ ptr' = Align8(rows + NIn(layer) * NOut(layer) * Double)
    /\ layer' = layer + 1
    /\ UNCHANGED <<net, phase, node, drawn>>

\* The sanity check ends the program, or the slab of the next node follows.
Check ==
    /\ phase = "data"
    /\ layer = NLayers
    /\ IF ptr - Slab(node) > AlignedSize
       THEN phase' = "fatal" /\ UNCHANGED <<node, ptr>>
       ELSE IF node + 1 < NumNodes
       THEN phase' = "header" /\ node' = node + 1 /\ UNCHANGED ptr
       ELSE phase' = "init" /\ node' = 0 /\ UNCHANGED ptr
    /\ UNCHANGED <<net, layer, b, w, drawn>>

-----------------------------------------------------------------------------
(* setup_numa_model and init_private_workspace                             *)

\* b[k][i] is zeroed for the neurons i the layer leaves, w[k][i][j] is drawn.
InitNN ==
    /\ phase = "init"
    /\ LET zeroed == UNION {{b[node][k] + i * Double : i \in 1 .. net[k]} : k \in Layers}
           random == UNION {{w[node][k][i] + j * Double : j \in 1 .. net[k + 1], i \in 1 .. net[k]}
                            : k \in Layers}
       IN  drawn' = (drawn \ zeroed) \cup random
    /\ IF node + 1 < NumNodes
       THEN node' = node + 1 /\ UNCHANGED <<phase, layer, ptr>>
       ELSE phase' = "private" /\ node' = 0 /\ layer' = 1 /\ ptr' = 0
    /\ UNCHANGED <<net, b, w>>

\* dw and its momenta, each a row of pointers and n_in rows, and db and its own.
PrivateLayer ==
    /\ phase = "private"
    /\ layer < NLayers
    /\ ptr' = ptr + 3 * NIn(layer) * Pointer
                  + 3 * NIn(layer) * NOut(layer) * Double
                  + 3 * NOut(layer) * Double
    /\ layer' = layer + 1
    /\ UNCHANGED <<net, phase, node, b, w, drawn>>

\* in, out and delta of every layer; targets takes what is left.
PrivateActivations ==
    /\ phase = "private"
    /\ layer = NLayers
    /\ ptr' = ptr + Sum([l \in 1 .. NLayers |-> 3 * (net[l] + 1) * Double], NLayers)
    /\ phase' = "ready"
    /\ UNCHANGED <<net, node, layer, b, w, drawn>>

-----------------------------------------------------------------------------
Next == \/ Header \/ Rows \/ Data \/ Check
        \/ InitNN \/ PrivateLayer \/ PrivateActivations

Spec == Init /\ [][Next]_vars

-----------------------------------------------------------------------------
(* Properties.                                                             *)

\* The loop counters index what they index, every address lies in the mapping,
\* and the sanity check never ends the program.
LayoutTypeOK ==
    /\ net \in Nets
    /\ phase \in {"header", "rows", "data", "init", "private", "ready"}
    /\ node \in Nodes
    /\ layer \in 1 .. NLayers
    /\ ptr \in Nat
    /\ \A s \in Nodes :
          /\ b[s] \in Seq(0 .. NumNodes * AlignedSize - 1)
          /\ Len(b[s]) < NLayers
          /\ Len(w[s]) = Len(b[s])
    /\ \A a \in drawn : a \in 0 .. NumNodes * AlignedSize - 1

\* Both walks end where the function that computed the size beforehand leaves them
\* room to: two functions, and two sets of loops, agree on every architecture, to
\* the byte for a slab; in the workspace the numbers of targets still fit behind the
\* walk.
SizesAreExact ==
    /\ phase = "data" /\ layer = NLayers => ptr = Slab(node) + SharedModelSize
    /\ phase = "ready" => ptr + (net[NLayers] + 1) * Double <= PrivateSize

\* The cells the training uses: b[k][j] and w[k][i][j], i and j from 1, j up to
\* the size of the layer entered - beyond the bias's own n_in numbers when that
\* layer is the larger.
UsedCells(s) ==
    UNION {{<<s, "b", k, 0, j>> : j \in 1 .. net[k + 1]} \cup
           {<<s, "w", k, i, j>> : i \in 1 .. net[k], j \in 1 .. net[k + 1]} : k \in Layers}
Address(c) ==
    IF c[2] = "b" THEN b[c[1]][c[3]] + c[5] * Double
                  ELSE w[c[1]][c[3]][c[4]] + c[5] * Double

\* No two used cells of the copies share an address, although bias vectors are
\* indexed past their end, and none lies outside its slab.  Slab s of a network that
\* fits one page-directory entry is in entry s, the one the workers of node s pass
\* to pes.
UsedCellsDisjoint ==
    phase = "init" =>
        LET cells == UNION {UsedCells(s) : s \in Nodes} IN
        /\ IsInjective([c \in cells |-> Address(c)])
        /\ \A c \in cells : Address(c) \in Slab(c[1]) .. Slab(c[1] + 1) - Double
        /\ SharedModelSize <= PdeSize => \A c \in cells : Address(c) \div PdeSize = c[1]

\* When the training starts every used weight of every copy has been drawn and
\* every used bias is zero, though the loop that zeroes them runs over i, not j.
ModelIsInitialised ==
    phase \in {"private", "ready"} =>
        \A s \in Nodes : \A c \in UsedCells(s) : Address(c) \in drawn <=> c[2] = "w"
=============================================================================
