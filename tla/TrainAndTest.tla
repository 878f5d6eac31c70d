---------------------------- MODULE TrainAndTest ----------------------------
(***************************************************************************)
(* main on one process, for its numbers: the data sets are read; then, an  *)
(* epoch at a time, the samples are shuffled, the network is trained on    *)
(* the first of them and tested, and the learning rate decays.             *)
(*                                                                         *)
(* The serial build does all of it on one network.  In the NUMA build the  *)
(* training is a worker's: it is forked for the epoch, finds rand() where  *)
(* the parent left it, and works in a workspace of its own that starts     *)
(* from zeroes; the parent tests the weights it leaves.                    *)
(***************************************************************************)
EXTENDS Backprop, Dataset

CONSTANTS
    Trained,                \* num_samples_to_train
    Epochs, RandMax,
    InitLR, Decay(_),       \* init_lr, exp(-0.1 * n)
    Log(_)                  \* log

ASSUME TrainAssumption ==
    /\ Trained \in 0 .. NSamples
    /\ Epochs \in Nat /\ RandMax \in Nat
    /\ NDims = Net[1] /\ NClasses = Net[Last]
    /\ InitLR \in Int /\ \A n \in 1 .. Epochs : Decay(n) \in Int
    /\ \A x \in Values : Log(x) \in Int
    \* pow(beta, itr) is below 1, so the correction of the bias divides by no zero.
    /\ "adam" \in Optimizers =>
          \A n \in 1 .. Epochs, k \in {beta_1, beta_2} : (1 - Power(k, n)) % Prime # 0

VARIABLES
    phase,                  \* "read", then "epoch", "shuffle", "train" or "test"
    arr, place,             \* Shuffle's
    drawn, next,            \* what rand() returned so far, and how much of it this
                            \* process has seen
    idle,                   \* the parent's neurons, while a worker uses its own
    loss_val, correct,      \* the sums of the epoch so far
    seen,                   \* which samples were loaded, and what was put out for them
    past                    \* the gradients since the momenta were zero, with the rate

Order == INSTANCE Shuffle WITH N <- NSamples, i <- place

order == <<arr, place, drawn, next>>
tally == <<loss_val, correct>>
history == <<seen, past>>
trainVars == <<vars, datasetVars, phase, order, idle, tally, history>>

TrainInit ==
    /\ InitNet
    /\ DatasetInit
    /\ data = <<>>
    /\ phase = "read"
    /\ Order!ShuffleInit
    /\ drawn = <<>>
    /\ next = 0
    /\ idle = neurons
    /\ loss_val = 0
    /\ correct = 0
    /\ seen = <<>>
    /\ past = <<>>

ReadData ==
    /\ phase = "read"
    /\ DatasetNext
    /\ phase' = IF stage' = "ready" THEN "epoch" ELSE "read"
    /\ UNCHANGED <<vars, order, idle, tally, history>>

\* Sample i of a set, as the loops load it.
SampleOf(s, i) == [x |-> X[s][i], y |-> y[s][i], label |-> y_temp[s][i]]

-----------------------------------------------------------------------------
(* The start of an epoch.                                                  *)

\* Mutant of NewWorkspace: the momenta of the last epoch's worker live on.
NewWorkspaceWithMomenta ==
    /\ next' = 0
    /\ idle' = neurons
    /\ in' = Zeroes(NeuronCells) /\ out' = Zeroes(NeuronCells) /\ delta' = Zeroes(NeuronCells)
    /\ dw' = Zeroes(WeightCells) /\ db' = Zeroes(BiasCells)
    /\ UNCHANGED moments
    /\ past' = <<>>

\* fork and init_private_workspace: a copy of the parent's state of rand(), and
\* fresh pages for everything but the weights.
NewWorkspace ==
    /\ next' = 0
    /\ idle' = neurons
    /\ in' = Zeroes(NeuronCells) /\ out' = Zeroes(NeuronCells) /\ delta' = Zeroes(NeuronCells)
    /\ dw' = Zeroes(WeightCells) /\ db' = Zeroes(BiasCells)
    /\ momentum' = Zeroes(Cells) /\ momentum2' = Zeroes(Cells)
    /\ past' = <<>>

\* model_train begins.
StartEpoch ==
    /\ phase = "epoch"
    /\ itr <= Epochs
    /\ phase' = "shuffle"
    /\ arr' = Order!InOrder
    /\ place' = 0
    /\ IF build = "numa" THEN NewWorkspace
                         ELSE UNCHANGED <<next, idle, neurons, gradients, moments, past>>
    /\ UNCHANGED <<settings, w, b, data, sample, batch, pc, layer,
                   datasetVars, drawn, tally, seen>>

\* rand() repeats for a worker what it returned to the workers before it.
Draw(r) ==
    /\ next < Len(drawn) => r = drawn[next + 1]
    /\ drawn' = IF next < Len(drawn) THEN drawn ELSE Append(drawn, r)
    /\ next' = next + 1

Exchange(r) ==
    /\ phase = "shuffle"
    /\ Draw(r)
    /\ Order!Swap(r)
    /\ UNCHANGED <<vars, datasetVars, phase, idle, tally, history>>

\* The first of the shuffled samples are those of the epoch.
StartTraining ==
    /\ phase = "shuffle"
    /\ Order!Shuffled
    /\ phase' = "train"
    /\ data' = [n \in 1 .. Trained |-> SampleOf("train", arr[n - 1] + 1)]
    /\ sample' = 1
    /\ loss_val' = 0
    /\ correct' = 0
    /\ seen' = <<>>
    /\ UNCHANGED <<settings, w, b, neurons, gradients, moments, batch, pc, layer,
                   datasetVars, order, idle, past>>

-----------------------------------------------------------------------------
(* The metrics.                                                            *)

\* What one output adds to the loss, for the targets t: calc_loss, in halves.
ErrorOf(o, t) ==
    Sum([j \in Neurons(Last) |-> IF loss = "mse" THEN (o[j] - t[j]) * (o[j] - t[j])
                                 ELSE 0 - t[j] * Log(o[j])], Net[Last])

\* Mutant of Predicted: the last of several.
PredictedLast(o) ==
    (CHOOSE j \in Neurons(Last) : \A k \in Neurons(Last) :
        o[k] <= o[j] /\ (j < k => o[k] < o[j])) - 1

\* The class with the largest output, and the first of several; classes count
\* from 0.  (Outputs are positive, and above what the search starts from.)
Predicted(o) ==
    (CHOOSE j \in Neurons(Last) : \A k \in Neurons(Last) :
        o[k] <= o[j] /\ (k < j => o[k] < o[j])) - 1

OutOfNet == [j \in Neurons(Last) |-> out[<<Last, j>>]]

\* Sample s is counted, with what the network has put out.
Tally(s) ==
    /\ loss_val' = loss_val + ErrorOf(OutOfNet, data[s].y)
    /\ correct' = correct + IF Predicted(OutOfNet) = data[s].label THEN 1 ELSE 0

-----------------------------------------------------------------------------
(* Training: new_model_train counts a sample before its errors are sent    *)
(* back, model_train after the weights have taken their step.              *)

epochVars == <<datasetVars, phase, order, idle>>

TrainLoad ==
    /\ phase = "train"
    /\ Load
    /\ seen' = Append(seen, [index |-> arr[sample - 1], out |-> RefOut(sample)[Last]])
    /\ UNCHANGED <<epochVars, tally, past>>

TrainOutput ==
    /\ phase = "train"
    /\ OutputDelta
    /\ IF build = "numa" THEN Tally(sample) ELSE UNCHANGED tally
    /\ UNCHANGED <<epochVars, history>>

TrainUpdate ==
    /\ phase = "train"
    /\ Update
    /\ IF build = "serial" THEN Tally(sample - 1) ELSE UNCHANGED tally
    /\ past' = Append(past, [g |-> [c \in Cells |-> RefGradient(c)], rate |-> rate])
    /\ UNCHANGED <<epochVars, seen>>

TrainOther ==
    /\ phase = "train"
    /\ Forward \/ HiddenDelta \/ Accumulate
    /\ UNCHANGED <<epochVars, tally, history>>

-----------------------------------------------------------------------------
(* model_test                                                              *)

AllTaken == pc = "load" /\ sample > Len(data)

\* The metrics are returned; the parent goes on with its own neurons.
StartTest ==
    /\ phase = "train"
    /\ AllTaken
    /\ phase' = "test"
    /\ data' = [n \in Rows("test") |-> SampleOf("test", n)]
    /\ sample' = 1
    /\ loss_val' = 0
    /\ correct' = 0
    /\ IF build = "numa" THEN in' = idle[1] /\ out' = idle[2] /\ delta' = idle[3]
                         ELSE UNCHANGED neurons
    /\ UNCHANGED <<settings, w, b, gradients, moments, batch, pc, layer,
                   datasetVars, order, idle, history>>

TestStep ==
    /\ phase = "test"
    /\ Load \/ Forward
    /\ UNCHANGED <<epochVars, tally, history>>

TestCount ==
    /\ phase = "test"
    /\ pc = "output"
    /\ Tally(sample)
    /\ sample' = sample + 1
    /\ pc' = "load"
    /\ UNCHANGED <<settings, w, b, data, neurons, gradients, moments, batch, layer,
                   epochVars, history>>

\* The learning rate of the next epoch: the first one was given apart.
EndEpoch ==
    /\ phase = "test"
    /\ AllTaken
    /\ phase' = "epoch"
    /\ itr' = itr + 1
    /\ rate' = Num(InitLR * Decay(itr))
    /\ UNCHANGED <<build, opt, loss, w, b, data, neurons, gradients, moments, sample, batch, pc, layer,
                   datasetVars, order, idle, tally, history>>

-----------------------------------------------------------------------------
TrainNext ==
    \/ ReadData
    \/ StartEpoch \/ StartTraining \/ StartTest \/ EndEpoch
    \/ \E r \in 0 .. RandMax : Exchange(r)
    \/ TrainLoad \/ TrainOutput \/ TrainOther \/ TrainUpdate
    \/ TestStep \/ TestCount

TrainSpec == TrainInit /\ [][TrainNext]_trainVars

-----------------------------------------------------------------------------
(* Properties.                                                             *)

\* The loops stay in their ranges, the order is a permutation of the samples
\* whatever rand() returns, and the bias correction never divides by zero: itr
\* begins at 1.
TrainTypeOK ==
    /\ TypeOK
    /\ Order!IsPermutation
    /\ itr \in 1 .. Epochs + 1
    /\ phase \in {"shuffle", "train", "test"} => itr <= Epochs
    /\ phase \in {"read", "epoch", "shuffle", "train", "test"}
    /\ next <= Len(drawn) /\ correct \in 0 .. Len(data)

\* The mean of the past gradients that a moving average with the factor k stands
\* for, without the correction: the older, the less they count.
Averaged(k, terms) ==
    Num(Total([n \in DOMAIN terms |-> Num((1 - k) * Power(k, Len(terms) - n)) * Num(terms[n])]))

Firsts(h, c) == [n \in DOMAIN h |-> h[n].g[c]]
Squares(h, c) == [n \in DOMAIN h |-> h[n].g[c] * h[n].g[c]]
Rated(h, c) == [n \in DOMAIN h |-> h[n].g[c] * h[n].rate]

RefMoment(h, c) ==
    CASE Optimizer = "momentum" -> Averaged(beta, Rated(h, c))
      [] Optimizer = "rmsprop" -> Averaged(beta, Squares(h, c))
      [] Optimizer = "adam" -> Averaged(beta_1, Firsts(h, c))
      [] OTHER -> 0
RefMoment2(h, c) == IF Optimizer = "adam" THEN Averaged(beta_2, Squares(h, c)) ELSE 0

\* The momenta are the weighted means of all the gradients that were computed
\* since they were zeroed - since the network was made in the serial build, since
\* the epoch began in a worker - each one counted once, as it was when its batch
\* ended: no gradient of an earlier batch or of another worker's life is left in
\* what the next one adds.
MomentsFollowGradients ==
    pc = "load" => \A c \in Cells :
        momentum[c] = RefMoment(past, c) /\ momentum2[c] = RefMoment2(past, c)

\* A batch is one step of the optimizer: every cell moves by what the mean
\* gradient of just the samples of this batch, all of them taken at the weights the
\* batch began with, and the means of the gradients before it call for.
BatchIsOneStep ==
    [][phase = "train" /\ pc = "update" =>
        \A c \in Cells :
            LET before == IF c \in BiasCells THEN b[c] ELSE w[c]
                after  == IF c \in BiasCells THEN b'[c] ELSE w'[c]
            IN  Num(before - after) =
                Step(RefGradient(c), RefMoment(past', c), RefMoment2(past', c))]_trainVars

\* The metrics of an epoch: the training loss and hits are those of every sample of
\* the epoch once, each for the network as it was when the sample was loaded; the
\* test's are those of the trained network.
MetricsOfEpoch ==
    AllTaken /\ phase \in {"train", "test"} =>
        LET outs == IF phase = "train" THEN [n \in DOMAIN seen |-> seen[n].out]
                                       ELSE [n \in Rows("test") |-> RefOut(n)[Last]]
            source(n) == IF phase = "train" THEN SampleOf("train", seen[n].index + 1)
                                            ELSE SampleOf("test", n)
        IN  /\ phase = "train" =>
                   Cardinality({seen[n].index : n \in DOMAIN seen}) = Trained
            /\ Len(outs) = Len(data)
            /\ loss_val = Total([n \in DOMAIN outs |-> ErrorOf(outs[n], source(n).y)])
            /\ correct = Cardinality({n \in DOMAIN outs : \E k \in Neurons(Last) :
                   /\ source(n).label = k - 1
                   /\ \A j \in Neurons(Last) \ {k} :
                         outs[n][j] < outs[n][k] \/ (outs[n][j] = outs[n][k] /\ k < j)})
=============================================================================
