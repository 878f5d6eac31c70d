--------------------------- MODULE MCTrainAndTest ---------------------------
(* Instances of TrainAndTest for TLC.                                      *)
EXTENDS MCBackprop, TrainAndTest

\* Two dimensions and two classes; two hidden layers, and several paths through
\* them.
MCNet == <<2, 2, 2, 2>>
MCWeights == {[c \in WeightCells |-> IF c[1] = 1 THEN s * c[2] ELSE IF c[2] = c[3] THEN 1 ELSE 2] :
                  s \in {-1, 1}}
MCOptimizers == {"sgd", "adam", "momentum", "rmsprop"}

\* Files that are absent, empty, one line short, just right and one line long; the
\* second dimension does not vary, or hardly does.
Image(n, m, label) == [pixels |-> <<n, m>>, label |-> label]
HeaderRow == [pixels |-> <<0, 0>>, label |-> 0]
TrainFile == <<HeaderRow, Image(1, 2, 0), Image(4, 2, 1), Image(9, 2, 0)>>
TestFile == <<HeaderRow, Image(2, 2, 0), Image(7, 2, 1)>>
LongFile == <<HeaderRow, Image(1, 2, 0), Image(4, 3, 1), Image(9, 2, 0), Image(5, 2, 1)>>

MCFiles == {[train |-> NoFile, test |-> TestFile],
            [train |-> TrainFile, test |-> <<>>],
            [train |-> TrainFile, test |-> TestFile],
            [train |-> SubSeq(TrainFile, 1, 3), test |-> SubSeq(TestFile, 1, 2)],
            [train |-> LongFile, test |-> Append(TestFile, Image(3, 4, 1))]}
HardlyVaries == Variance([i \in 1 .. NSamples |-> Quotient(LongFile[i + 1].pixels[2], 255)])
MCVaries(v) == v \notin {0, HardlyVaries}
\* Garbage that is no class.
MCGarbage == {[pixel |-> 6, label |-> 5]}

MCDecay(n) == n + 1
MCLog(x) == x - 3
=============================================================================
