----------------------------- MODULE MCBackprop -----------------------------
(* Instances of Backprop for TLC.                                          *)
EXTENDS Backprop

\* One hidden layer, one output, and weights of either sign.
MCSmallNet == <<2, 2, 1>>
MCAnyWeights == [WeightCells -> {-1, 1}]
MCTwoSamples == {<<[x |-> <<u, 1>>, y |-> <<c>>, label |-> c], [x |-> <<v, 1>>, y |-> <<d>>, label |-> d]>> :
                     u, v \in {-1, 1}, c, d \in {0, 1}}

\* relu and relu_d.
Relu(x) == IF x < 0 THEN 0 ELSE x
ReluD(x) == IF x < 0 THEN 0 ELSE 1

\* Stand-ins for the functions that have no algebraic values: any will do that
\* tell their arguments apart, as long as outputs and roots are positive.
Own(v, j) == v[j]
AllOf(v, j) == 1 + ((v[j] + 2 * v[1]) % 5)
SomeD(x) == 1 + (x % 2)
One(x) == 1
MCRoot(x) == 1 + (x % 7)
=============================================================================
