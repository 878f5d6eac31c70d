------------------------------- MODULE Shuffle -------------------------------
(***************************************************************************)
(* shuffle: the order in which an epoch takes its samples.  The array is   *)
(* walked from the front, and every place but the last is exchanged with   *)
(* one from there on, chosen by dividing what rand() returns.              *)
(***************************************************************************)
EXTENDS Integers

CONSTANTS
    N,                      \* n: N_SAMPLES
    RandMax                 \* RAND_MAX

VARIABLES
    arr,                    \* the indexes of the samples
    i                       \* the place in work

shuffleVars == <<arr, i>>

Indexes == 0 .. N - 1
InOrder == [n \in Indexes |-> n]

ShuffleInit == arr = InOrder /\ i = 0

\* The place to exchange with, for the random number r.
Partner(r) == i + r \div (RandMax \div (N - i) + 1)

Shuffled == i >= N - 1

Swap(r) ==
    /\ ~Shuffled
    /\ arr' = [arr EXCEPT ![i] = arr[Partner(r)], ![Partner(r)] = arr[i]]
    /\ i' = i + 1

ShuffleNext == \E r \in 0 .. RandMax : Swap(r)

ShuffleSpec == ShuffleInit /\ [][ShuffleNext]_shuffleVars

-----------------------------------------------------------------------------
(* Properties.                                                             *)

\* No sample is lost and none comes twice, whatever rand() returns: the
\* exchanges stay within the array and compose to a permutation.
IsPermutation ==
    /\ arr \in [Indexes -> Indexes]
    /\ \A n, k \in Indexes : arr[n] = arr[k] => n = k
=============================================================================
