------------------------------ MODULE Backprop ------------------------------
(***************************************************************************)
(* The arithmetic of one process: forward propagation, the errors that are *)
(* propagated back, the gradients they add up to and the step the weights  *)
(* take.                                                                   *)
(*                                                                         *)
(* Two programs share this arithmetic.  The NUMA build accumulates the     *)
(* gradients of a mini-batch (new_model_train); the serial build takes a   *)
(* step after every sample (model_train) and has one more term in the      *)
(* error of a hidden neuron, which its authors marked as doubtful.         *)
(*                                                                         *)
(* Numbers are Residues'.  What is not algebraic is a parameter.  Layers   *)
(* are numbered from 1.                                                    *)
(***************************************************************************)
EXTENDS Residues, Sequences

CONSTANTS
    Net,                    \* n_neurons_per_layer
    InitialWeights,         \* what randn may fill w with
    DataSets,               \* the sequences of samples to train on
    Builds,                 \* among "numa" and "serial"
    Optimizers,             \* the values of opt
    BatchSize,              \* of the numa build
    LearningRate,           \* learning_rate, as given
    Losses,                 \* the values of loss: "mse", "ce"
    Act(_), ActD(_),        \* the activation function, and its ..._d
    Output(_, _),           \* what the last layer puts out for its sums: sigmoid of
                            \* the neuron's own (mse), softmax of all of them (ce)
    OutputD(_),             \* sigmoid_d
    Root(_),                \* sqrt, and the epsilon that keeps it from zero
    beta, beta_1, beta_2,
    Slope(_)                \* the derivative of Act, at the point it is taken

Last == Len(Net)
Layers == 1 .. Last - 1
Neurons(l) == 1 .. Net[l]
WeightCells == UNION {{<<k, i, j>> : i \in Neurons(k), j \in Neurons(k + 1)} : k \in Layers}
BiasCells == UNION {{<<k, j>> : j \in Neurons(k + 1)} : k \in Layers}
Cells == WeightCells \cup BiasCells
NeuronCells == UNION {{<<l, i>> : i \in Neurons(l)} : l \in 1 .. Last}

ASSUME BackpropAssumption ==
    /\ Net \in Seq(Nat \ {0}) /\ Len(Net) >= 2
    /\ InitialWeights \subseteq [WeightCells -> Int]
    /\ Builds \subseteq {"numa", "serial"}
    \* The serial newNet gives a bias the size of the layer it leaves.
    /\ "serial" \in Builds => \A k \in Layers : Net[k + 1] <= Net[k]
    /\ BatchSize \in 1 .. Prime - 1
    /\ Losses \subseteq {"mse", "ce"}
    /\ {LearningRate, beta, beta_1, beta_2} \subseteq Int
    /\ DataSets \subseteq Seq([x : [Neurons(1) -> Int], y : [Neurons(Last) -> Int], label : Int])

\* The functions are functions of numbers; no root is zero.
ASSUME FunctionAssumption ==
    /\ \A x \in Values : /\ Act(x) \in Values /\ {ActD(x), OutputD(x), Slope(x)} \subseteq Int
                         /\ Root(x) \in Int /\ Root(x) % Prime # 0
    /\ \A v \in [Neurons(Last) -> Values], j \in Neurons(Last) : Output(v, j) \in Values

VARIABLES
    build, opt, loss,       \* which program it is, its optimizer and loss function
    itr, rate,              \* itr, learning_rate
    w, b,                   \* the model
    data,                   \* the samples, [x, y, label], in the order they are taken
    in, out, delta,         \* of every neuron
    dw, db,                 \* the gradients of the batch
    momentum, momentum2,    \* of every cell of w and b
    sample,                 \* the sample in work
    batch,                  \* how many samples of the batch have been added
    pc, layer               \* the step, and the layer its loop is at

settings == <<build, opt, loss, itr, rate>>
neurons == <<in, out, delta>>
gradients == <<dw, db>>
moments == <<momentum, momentum2>>
vars == <<settings, w, b, data, neurons, gradients, moments, sample, batch, pc, layer>>

Zeroes(S) == [c \in S |-> 0]

\* targets, of sample s.
Target(s, j) == data[s].y[j]

\* The network as newNet and init_nn leave it.
InitNet ==
    /\ build \in Builds
    /\ opt \in Optimizers
    /\ loss \in Losses
    /\ itr = 1
    /\ rate = LearningRate
    /\ w \in InitialWeights
    /\ b = Zeroes(BiasCells)
    /\ in = Zeroes(NeuronCells)
    /\ out = Zeroes(NeuronCells)
    /\ delta = Zeroes(NeuronCells)
    /\ dw = Zeroes(WeightCells)
    /\ db = Zeroes(BiasCells)
    /\ momentum = Zeroes(Cells)
    /\ momentum2 = Zeroes(Cells)
    /\ sample = 1
    /\ batch = 0
    /\ pc = "load"
    /\ layer = 1

Init == InitNet /\ data \in DataSets

-----------------------------------------------------------------------------
(* forward_propagation                                                     *)

\* Mutant of Load: in is not cleaned up.
LoadKeepingIn ==
    /\ pc = "load"
    /\ sample <= Len(data)
    /\ out' = [c \in NeuronCells |-> IF c[1] = 1 THEN data[sample].x[c[2]] ELSE out[c]]
    /\ pc' = "forward"
    /\ layer' = 2
    /\ UNCHANGED <<settings, w, b, data, in, delta, gradients, moments, sample, batch>>

\* The input layer takes the sample, and in is cleaned up.
Load ==
    /\ pc = "load"
    /\ sample <= Len(data)
    /\ out' = [c \in NeuronCells |-> IF c[1] = 1 THEN data[sample].x[c[2]] ELSE out[c]]
    /\ in' = Zeroes(NeuronCells)
    /\ pc' = "forward"
    /\ layer' = 2
    /\ UNCHANGED <<settings, w, b, data, delta, gradients, moments, sample, batch>>

\* One layer: the bias and the weighted sum are added to what in holds.  (ce also
\* scales in of the last layer in place; nothing reads it before the next Load.)
Forward ==
    /\ pc = "forward"
    /\ LET terms(j) == [i \in Neurons(layer - 1) |-> out[<<layer - 1, i>>] * w[<<layer - 1, i, j>>]]
           next(j) == Num(in[<<layer, j>>] + b[<<layer - 1, j>>] + Sum(terms(j), Net[layer - 1]))
       IN  /\ in' = [c \in NeuronCells |-> IF c[1] = layer THEN next(c[2]) ELSE in[c]]
           /\ out' = [c \in NeuronCells |->
                         IF c[1] # layer THEN out[c]
                         ELSE IF layer = Last
                         THEN Output([j \in Neurons(Last) |-> next(j)], c[2])
                         ELSE Act(next(c[2]))]
    /\ IF layer < Last
       THEN layer' = layer + 1 /\ UNCHANGED pc
       ELSE pc' = "output" /\ UNCHANGED layer
    /\ UNCHANGED <<settings, w, b, data, delta, gradients, moments, sample, batch>>

-----------------------------------------------------------------------------
(* back_propagation_accumulate and, in the serial build, back_propagation  *)

\* The error of the last layer.
OutputDelta ==
    /\ pc = "output"
    /\ LET error(i) == out[<<Last, i>>] - Target(sample, i)
       IN  delta' = [c \in NeuronCells |->
                        IF c[1] # Last THEN delta[c]
                        ELSE IF loss = "mse" THEN Num(error(c[2]) * OutputD(out[c]))
                        ELSE Num(error(c[2]))]
    /\ pc' = "hidden"
    /\ layer' = Last - 1
    /\ UNCHANGED <<settings, w, b, data, in, out, gradients, moments, sample, batch>>

\* The weighted sum of the next layer's errors, for neuron i.
Backward(i) == Sum([j \in Neurons(layer + 1) |-> w[<<layer, i, j>>] * delta[<<layer + 1, j>>]], Net[layer + 1])

\* The biases of the next layer, weighted with its errors.
BiasTerm == Sum([j \in Neurons(layer + 1) |-> b[<<layer, j>>] * delta[<<layer + 1, j>>]], Net[layer + 1])

\* Mutants of HiddenSum and EndHidden: the serial build's term in both builds; a
\* loop down to the input layer and beyond.
HiddenSumBiased(i) == Backward(i) + BiasTerm
EndHiddenLate == layer = 0

\* The serial build adds the biases of the next layer ("it might be wrong").
HiddenSum(i) == Backward(i) + IF build = "serial" THEN BiasTerm ELSE 0
EndHidden == layer = 1

\* One hidden layer, from the last to the first: the derivative of the activation
\* function is taken of the neuron's output.
HiddenDelta ==
    /\ pc = "hidden"
    /\ IF EndHidden
       THEN pc' = "accumulate" /\ UNCHANGED <<delta, layer>>
       ELSE /\ delta' = [c \in NeuronCells |->
                            IF c[1] = layer THEN Num(ActD(out[c]) * Num(HiddenSum(c[2]))) ELSE delta[c]]
            /\ layer' = layer - 1
            /\ UNCHANGED pc
    /\ UNCHANGED <<settings, w, b, data, in, out, gradients, moments, sample, batch>>

\* The serial build takes every sample for a batch of its own.
Batch == IF build = "serial" THEN 1 ELSE BatchSize

\* The gradients of the sample are added to those of the batch.
Accumulate ==
    /\ pc = "accumulate"
    /\ db' = [c \in BiasCells |-> Num(db[c] + delta[<<c[1] + 1, c[2]>>])]
    /\ dw' = [e \in WeightCells |-> Num(dw[e] + delta[<<e[1] + 1, e[3]>>] * out[<<e[1], e[2]>>])]
    /\ batch' = batch + 1
    /\ sample' = sample + 1
    /\ pc' = IF batch' = Batch \/ sample' > Len(data) THEN "update" ELSE "load"
    /\ UNCHANGED <<settings, w, b, data, neurons, moments, layer>>

-----------------------------------------------------------------------------
(* update_weights_batch, and the last part of back_propagation             *)

\* Mutant of Gradient: the mean is taken over a full batch.
GradientOfFullBatch(c) == Quotient(IF c \in BiasCells THEN db[c] ELSE dw[c], Batch)

\* The mean over the samples of this batch.
Gradient(c) == Quotient(IF c \in BiasCells THEN db[c] ELSE dw[c], batch)

\* The parallel build knows two optimizers, the serial one four; the others do
\* nothing.
Optimizer ==
    IF opt \in {"sgd", "adam"} \/ (build = "serial" /\ opt \in {"momentum", "rmsprop"})
    THEN opt ELSE "none"

\* A moving average that takes in the number g.
Mix(k, m, g) == Num(k * m + Num((1 - k) * g))

Moment(c) ==
    LET g == Gradient(c) IN
    CASE Optimizer = "momentum" -> Mix(beta, momentum[c], Num(g * rate))
      [] Optimizer = "rmsprop" -> Mix(beta, momentum[c], Num(g * g))
      [] Optimizer = "adam" -> Mix(beta_1, momentum[c], g)
      [] OTHER -> momentum[c]
Moment2(c) ==
    IF Optimizer = "adam" THEN Mix(beta_2, momentum2[c], Num(Gradient(c) * Gradient(c)))
                          ELSE momentum2[c]

\* What is taken off a cell of gradient g, with the moments m and v it has now.
Step(g, m, v) ==
    CASE Optimizer = "sgd" -> Num(rate * g)
      [] Optimizer = "momentum" -> m
      [] Optimizer = "rmsprop" -> Quotient(rate * g, Root(m))
      [] Optimizer = "adam" ->
            LET m_cap == Quotient(m, 1 - Power(beta_1, itr))
                v_cap == Quotient(v, 1 - Power(beta_2, itr))
            IN  Quotient(rate * m_cap, Root(v_cap))
      [] OTHER -> 0

\* Every cell takes its step, and the gradients are zeroed, whether the optimizer
\* is known or not.
Update ==
    /\ pc = "update"
    /\ LET step(c) == Step(Gradient(c), Moment(c), Moment2(c))
       IN  /\ b' = [c \in BiasCells |-> Num(b[c] - step(c))]
           /\ w' = [e \in WeightCells |-> Num(w[e] - step(e))]
    /\ momentum' = [c \in Cells |-> Moment(c)]
    /\ momentum2' = [c \in Cells |-> Moment2(c)]
    /\ db' = Zeroes(BiasCells)
    /\ dw' = Zeroes(WeightCells)
    /\ batch' = 0
    /\ pc' = "load"
    /\ UNCHANGED <<settings, data, neurons, sample, layer>>

-----------------------------------------------------------------------------
Next == Load \/ Forward \/ OutputDelta \/ HiddenDelta \/ Accumulate \/ Update

Spec == Init /\ [][Next]_vars

-----------------------------------------------------------------------------
(* The reference: the network as a function, its error's gradient as a sum *)
(* over paths.                                                             *)

\* What goes into the neurons of a layer, and what each layer puts out for x.
NetIn(weights, biases, outs, l) == [j \in Neurons(l) |->
    Num(biases[<<l - 1, j>>] + Total([i \in Neurons(l - 1) |-> outs[i] * weights[<<l - 1, i, j>>]]))]
NetOut(weights, biases, x) ==
    LET f[l \in 1 .. Last] ==
          IF l = 1 THEN x
          ELSE LET ins == NetIn(weights, biases, f[l - 1], l)
               IN  [j \in Neurons(l) |-> IF l = Last THEN Output(ins, j) ELSE Act(ins[j])]
    IN  f

RefOut(s) == NetOut(w, b, data[s].x)

\* The error of the last layer's neuron j for sample s.
RefError(s, j) ==
    LET o == RefOut(s)[Last][j]
    IN  Num((o - Target(s, j)) * IF loss = "mse" THEN OutputD(o) ELSE 1)

\* The paths from neuron i of layer l to the last layer.
Paths(l, i) ==
    {p \in [l .. Last -> UNION {Neurons(m) : m \in l .. Last}] :
        p[l] = i /\ \A m \in l .. Last : p[m] \in Neurons(m)}

\* How the error depends on what goes into neuron i of layer l: over every path,
\* the slopes and the edges along it times the error at its end.
Along(l, p, error, slope, edge) ==
    LET from[m \in l .. Last] ==
          IF m = Last THEN error[p[m]]
          ELSE Num(Num(slope[<<m, p[m]>>] * edge[<<m, p[m], p[m + 1]>>]) * from[m + 1])
    IN  from[l]
PathSum(l, i, error, slope, edge) ==
    Num(Total([p \in Paths(l, i) |-> Along(l, p, error, slope, edge)]))

ErrorsOf(s) == [j \in Neurons(Last) |-> RefError(s, j)]
HiddenCells == {c \in NeuronCells : c[1] > 1 /\ c[1] < Last}

\* The slope the code uses, of the output, and the derivative, of the input.
SlopesOfOutput(s) == [c \in HiddenCells |-> ActD(RefOut(s)[c[1]][c[2]])]
SlopesOfInput(s) == [c \in HiddenCells |-> Slope(NetIn(w, b, RefOut(s)[c[1] - 1], c[1])[c[2]])]

\* The edge is the weight; in the serial build the bias counts as part of it.
Edges == [e \in WeightCells |-> w[e] + IF build = "serial" THEN b[<<e[1], e[3]>>] ELSE 0]

RefDelta(s, l, j) ==
    IF l = Last THEN RefError(s, j)
    ELSE PathSum(l, j, ErrorsOf(s), SlopesOfOutput(s), Edges)

\* The samples of the batch that the step is taken for, and their mean gradient.
BatchSamples == sample - batch .. sample - 1
RefTerm(s, c) == IF c \in BiasCells THEN RefDelta(s, c[1] + 1, c[2])
                 ELSE RefDelta(s, c[1] + 1, c[3]) * RefOut(s)[c[1]][c[2]]
RefGradient(c) ==
    Quotient(Total([s \in BatchSamples |-> RefTerm(s, c)]), Cardinality(BatchSamples))

-----------------------------------------------------------------------------
(* Properties.                                                             *)

\* The loops stay within the layers and the samples of a batch, and every value
\* is a number.
TypeOK ==
    /\ w \in [WeightCells -> Int] /\ b \in [BiasCells -> Int]
    /\ in \in [NeuronCells -> Int] /\ out \in [NeuronCells -> Int]
    /\ delta \in [NeuronCells -> Int]
    /\ dw \in [WeightCells -> Int] /\ db \in [BiasCells -> Int]
    /\ momentum \in [Cells -> Int] /\ momentum2 \in [Cells -> Int]
    /\ sample \in 1 .. Len(data) + 1
    /\ batch \in 0 .. Batch
    /\ pc \in {"load", "forward", "output", "hidden", "accumulate", "update"}
    /\ layer \in 1 .. Last

\* What the network puts out is a function of its weights and the sample: nothing
\* that earlier samples left in in, out or delta reaches it.
ForwardIsFunction ==
    pc = "output" => \A c \in NeuronCells : out[c] = RefOut(sample)[c[1]][c[2]]

\* The error of every hidden neuron is the sum over all paths to the output: the
\* layer by layer recursion forgets no path and counts none twice.
DeltasArePathSums ==
    pc = "accumulate" =>
        \A c \in HiddenCells : delta[c] = RefDelta(sample, c[1], c[2])

-----------------------------------------------------------------------------
(* What the documentation says, and the program does not do.               *)

\* "calculates the gradient of the error function": the slopes along a path are
\* the derivatives of the activation function where it was evaluated.
GradientOfError ==
    pc = "accumulate" =>
        \A c \in HiddenCells :
            delta[c] = PathSum(c[1], c[2], ErrorsOf(sample), SlopesOfInput(sample), Edges)

\* "weighted sum of deltas of next layer": the edges along a path are weights.
EdgesAreWeights ==
    pc = "accumulate" =>
        \A c \in HiddenCells :
            delta[c] = PathSum(c[1], c[2], ErrorsOf(sample), SlopesOfOutput(sample), w)
=============================================================================
