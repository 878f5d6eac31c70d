---------------------------- MODULE ShuffleProofs ----------------------------
(* Theorems about Shuffle.                                                 *)
EXTENDS Shuffle, TLAPS

\* What is known of the constants: n is an int, and so is RAND_MAX.
ShuffleAssumption == N \in Nat /\ RandMax \in Nat

\* Integer division: the quotient and what is left below the divisor.
LEMMA Division ==
    ASSUME NEW a \in Nat, NEW d \in Nat, d >= 1
    PROVE  /\ a \div d \in Nat
           /\ d * (a \div d) <= a
           /\ a < d * (a \div d) + d
  BY SMT

\* A product grows with its factor.
LEMMA ProductGrows ==
    ASSUME NEW d \in Nat, NEW u \in Nat, NEW v \in Nat, u <= v
    PROVE  d * u <= d * v
  BY SMT

\* A quotient by more than a k-th of RandMax is below k.
LEMMA QuotientBound ==
    ASSUME ShuffleAssumption, NEW k \in Nat, k >= 1, NEW r \in 0 .. RandMax
    PROVE  r \div (RandMax \div k + 1) \in 0 .. k - 1
  <1> DEFINE q == RandMax \div k
             d == q + 1
             j == r \div d
  <1>1. q \in Nat /\ RandMax < k * q + k
    BY Division DEF ShuffleAssumption
  <1> HIDE DEF q
  <1>2. d \in Nat /\ d >= 1 /\ k * d = k * q + k /\ k * d = d * k
    BY <1>1, SMT
  <1>3. r \in Nat /\ r <= RandMax /\ RandMax \in Nat
    BY SMT DEF ShuffleAssumption
  <1> HIDE DEF d
  <1>4. j \in Nat /\ d * j <= r
    BY <1>2, <1>3, Division
  <1> HIDE DEF j
  <1>5. d * j < d * k
    BY <1>1, <1>2, <1>3, <1>4, SMT
  <1>6. ~(k <= j)
    <2>1. k <= j => d * k <= d * j
      BY <1>2, <1>4, ProductGrows
    <2> QED BY <2>1, <1>5, <1>2, <1>4, SMT
  <1> QED BY <1>4, <1>6, SMT DEF j, d, q

\* The exchange is with a place of the array, not before the one in work.
LEMMA PartnerInArray ==
    ASSUME ShuffleAssumption, i \in Nat, ~Shuffled, NEW r \in 0 .. RandMax
    PROVE  Partner(r) \in i .. N - 1
  <1> DEFINE k == N - i
  <1>1. k \in Nat /\ k >= 1
    BY SMT DEF Shuffled, ShuffleAssumption
  <1>2. r \div (RandMax \div k + 1) \in 0 .. k - 1
    BY <1>1, QuotientBound
  <1> QED BY <1>2, SMT DEF Partner, ShuffleAssumption

\* Exchanging two places of a permutation leaves a permutation.
LEMMA ExchangeKeeps ==
    ASSUME IsPermutation, NEW p \in Indexes, NEW q \in Indexes,
           arr' = [arr EXCEPT ![p] = arr[q], ![q] = arr[p]]
    PROVE  IsPermutation'
  <1> USE DEF IsPermutation
  <1>1. arr' \in [Indexes -> Indexes]
    OBVIOUS
  <1>2. \A n \in Indexes : arr'[n] = IF n = q THEN arr[p] ELSE IF n = p THEN arr[q] ELSE arr[n]
    OBVIOUS
  <1>3. \A n, m \in Indexes : arr'[n] = arr'[m] => n = m
    BY <1>2
  <1>4. Indexes' = Indexes
    BY DEF Indexes
  <1> QED BY <1>1, <1>3, <1>4

ShuffleInv == IsPermutation /\ i \in Nat

\* shuffle keeps every index exactly once, for every length of the array and
\* every random number.
THEOREM ShufflePermutes ==
    ASSUME ShuffleAssumption
    PROVE  ShuffleSpec => []IsPermutation
  <1>1. ShuffleInit => ShuffleInv
    BY DEF ShuffleInit, ShuffleInv, IsPermutation, InOrder
  <1>2. ShuffleInv /\ [ShuffleNext]_shuffleVars => ShuffleInv'
    <2> SUFFICES ASSUME ShuffleInv, [ShuffleNext]_shuffleVars
                 PROVE  ShuffleInv'
      OBVIOUS
    <2>1. CASE ShuffleNext
      <3>1. PICK r \in 0 .. RandMax : Swap(r)
        BY <2>1 DEF ShuffleNext
      <3>2. i \in Indexes /\ Partner(r) \in Indexes
        <4>1. i \in Nat /\ ~Shuffled
          BY <3>1 DEF ShuffleInv, Swap
        <4>2. Partner(r) \in i .. N - 1
          BY <4>1, PartnerInArray
        <4> QED BY <4>1, <4>2, SMT DEF Indexes, Shuffled, ShuffleAssumption
      <3>3. IsPermutation'
        BY <3>1, <3>2, ExchangeKeeps DEF ShuffleInv, Swap
      <3>4. i' \in Nat
        BY <3>1, SMT DEF ShuffleInv, Swap
      <3> QED BY <3>3, <3>4 DEF ShuffleInv
    <2>2. CASE UNCHANGED shuffleVars
      BY <2>2 DEF ShuffleInv, IsPermutation, shuffleVars
    <2> QED BY <2>1, <2>2
  <1>3. ShuffleInv => IsPermutation
    BY DEF ShuffleInv
  <1> QED BY <1>1, <1>2, <1>3, PTL DEF ShuffleSpec
=============================================================================
