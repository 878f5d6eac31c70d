--------------------------- MODULE BackpropProofs ---------------------------
(***************************************************************************)
(* What the operators of Backprop compute, for every network, every prime  *)
(* and all functions in place of the parameters.                           *)
(***************************************************************************)
EXTENDS Backprop, SumProofs

-----------------------------------------------------------------------------
(* Residues.                                                               *)

LEMMA Division == ASSUME NEW a \in Int
                  PROVE  /\ a \div Prime \in Int /\ a % Prime \in 0 .. Prime - 1
                         /\ a = Prime * (a \div Prime) + (a % Prime)
  BY PrimeAssumption

\* The remainder is what is left, uniquely.
LEMMA SmallMultiple == ASSUME NEW d \in Nat, d > 0, NEW k \in Int, d * k < d, 0 - d < d * k
                       PROVE  k = 0
<1>1. CASE k >= 1
  <2>1. d * k >= d
    BY <1>1
  <2> QED
    BY <2>1
<1>2. CASE k <= 0 - 1
  <2>1. d * k <= 0 - d
    BY <1>2
  <2> QED
    BY <2>1
<1> QED
  BY <1>1, <1>2

LEMMA RemainderIsUnique ==
    ASSUME NEW a \in Int, NEW k \in Int, NEW r \in 0 .. Prime - 1, a = Prime * k + r
    PROVE  a % Prime = r
<1> DEFINE q == a \div Prime
           s == a % Prime
<1>1. q \in Int /\ s \in 0 .. Prime - 1 /\ a = Prime * q + s
  BY Division
<1> HIDE DEF q, s
<1>2. Prime * (k - q) = s - r /\ k - q \in Int /\ Prime \in Nat /\ Prime > 0
  BY <1>1, PrimeAssumption
<1>3. k - q = 0
  BY <1>1, <1>2, SmallMultiple
<1>4. k = q
  BY <1>1, <1>3
<1>5. s = r
  BY <1>1, <1>4, PrimeAssumption
<1> QED
  BY <1>5 DEF s

LEMMA NumType == ASSUME NEW a \in Int
                 PROVE  Num(a) \in Values /\ Num(a) \in Int
<1>1. Prime \div 2 \in Int /\ a + Prime \div 2 \in Int
  BY PrimeAssumption
<1>2. (a + Prime \div 2) % Prime \in 0 .. Prime - 1
  BY <1>1, Division
<1> QED
  BY <1>1, <1>2, PrimeAssumption DEF Num, Values

\* Numbers are the same when they differ by a multiple of the prime.
LEMMA NumShift == ASSUME NEW a \in Int, NEW k \in Int
                  PROVE  Num(a + Prime * k) = Num(a)
<1> DEFINE h == Prime \div 2
           q == (a + h) \div Prime
           r == (a + h) % Prime
<1>1. h \in Int /\ Prime \in Int
  BY PrimeAssumption
<1>2. q \in Int /\ r \in 0 .. Prime - 1 /\ a + h = Prime * q + r
  BY <1>1, Division
<1> HIDE DEF q, h, r
<1>3. (a + Prime * k) + h = Prime * (q + k) + r /\ (a + Prime * k) + h \in Int /\ q + k \in Int
  BY <1>1, <1>2
<1>4. ((a + Prime * k) + h) % Prime = r
  BY <1>2, <1>3, RemainderIsUnique
<1> QED
  BY <1>4 DEF Num, h, r

LEMMA NumDiffers == ASSUME NEW a \in Int
                    PROVE  \E k \in Int : Num(a) = a + Prime * k
<1> DEFINE h == Prime \div 2
           q == (a + h) \div Prime
           r == (a + h) % Prime
<1>1. h \in Int /\ Prime \in Int
  BY PrimeAssumption
<1>2. q \in Int /\ r \in 0 .. Prime - 1 /\ a + h = Prime * q + r
  BY <1>1, Division
<1>3. Num(a) = r - h
  BY DEF Num
<1> HIDE DEF q, h, r
<1>4. r - h = a + Prime * (0 - q) /\ 0 - q \in Int
  BY <1>1, <1>2
<1> QED
  BY <1>3, <1>4

LEMMA NumSame == ASSUME NEW x \in Int, NEW y \in Int, Num(x) = Num(y)
                 PROVE  \E k \in Int : x = y + Prime * k
<1>1. PICK m \in Int : Num(x) = x + Prime * m
  BY NumDiffers
<1>2. PICK n \in Int : Num(y) = y + Prime * n
  BY NumDiffers
<1>3. Prime \in Int
  BY PrimeAssumption
<1>4. x = y + Prime * (n - m) /\ n - m \in Int
  <2>1. x + Prime * m = y + Prime * n
    BY <1>1, <1>2
  <2>2. Prime * (n - m) = Prime * n - Prime * m
    BY <1>3
  <2> QED
    BY <2>1, <2>2, <1>3
<1> QED
  BY <1>4

LEMMA NumPlus == ASSUME NEW x \in Int, NEW y \in Int, NEW u \in Int, NEW v \in Int,
                        Num(x) = Num(y), Num(u) = Num(v)
                 PROVE  Num(x + u) = Num(y + v) /\ Num(x - u) = Num(y - v)
<1>1. PICK k \in Int : x = y + Prime * k
  BY NumSame
<1>2. PICK l \in Int : u = v + Prime * l
  BY NumSame
<1>3. Prime \in Int
  BY PrimeAssumption
<1>4. /\ x + u = (y + v) + Prime * (k + l) /\ k + l \in Int /\ y + v \in Int
      /\ x - u = (y - v) + Prime * (k - l) /\ k - l \in Int /\ y - v \in Int
  BY <1>1, <1>2, <1>3
<1> QED
  BY <1>4, NumShift

LEMMA NumTimes == ASSUME NEW x \in Int, NEW y \in Int, NEW u \in Int, NEW v \in Int,
                         Num(x) = Num(y), Num(u) = Num(v)
                  PROVE  Num(x * u) = Num(y * v)
<1>1. PICK k \in Int : x = y + Prime * k
  BY NumSame
<1>2. PICK l \in Int : u = v + Prime * l
  BY NumSame
<1>3. Prime \in Int
  BY PrimeAssumption
<1> DEFINE m == (y * l + k * v) + Prime * (k * l)
<1>4. x * u = y * v + Prime * m /\ m \in Int /\ y * v \in Int
  <2>1. x * u = (y + Prime * k) * (v + Prime * l)
    BY <1>1, <1>2
  <2>2. (y + Prime * k) * (v + Prime * l) = y * v + Prime * m
    BY <1>3
  <2>3. m \in Int /\ y * v \in Int
    BY <1>3
  <2> QED
    BY <2>1, <2>2, <2>3
<1> HIDE DEF m
<1> QED
  BY <1>4, NumShift

LEMMA NumOfValue == ASSUME NEW v \in Values
                    PROVE  Num(v) = v /\ v \in Int
<1> DEFINE h == Prime \div 2
<1>1. h \in Int /\ Prime \in Int
  BY PrimeAssumption
<1>2. v \in Int /\ v + h \in 0 .. Prime - 1
  BY <1>1, PrimeAssumption DEF Values
<1> HIDE DEF h
<1>3. v + h = Prime * 0 + (v + h) /\ v + h \in Int
  BY <1>1, <1>2
<1>4. (v + h) % Prime = v + h
  BY <1>2, <1>3, RemainderIsUnique
<1>5. Num(v) = (v + h) - h
  BY <1>4 DEF Num, h
<1> QED
  BY <1>1, <1>2, <1>5

LEMMA NumOfNum == ASSUME NEW a \in Int
                  PROVE  Num(Num(a)) = Num(a)
  BY NumType, NumOfValue

\* Arithmetic with one number on both sides.
LEMMA ZeroIsNum == 0 \in Values /\ Num(0) = 0
<1>1. 0 \in Values
  BY PrimeAssumption DEF Values
<1> QED
  BY <1>1, NumOfValue

LEMMA NumTimesSame == ASSUME NEW x \in Int, NEW y \in Int, NEW z \in Int, Num(x) = Num(y)
                      PROVE  Num(x * z) = Num(y * z)
  BY NumTimes

LEMMA NumMinusSame == ASSUME NEW x \in Int, NEW y \in Int, NEW z \in Int, Num(x) = Num(y)
                      PROVE  Num(x - z) = Num(y - z)
  BY NumPlus

LEMMA NumOfNoDifference == ASSUME NEW x \in Int, NEW y \in Int, Num(x) = Num(y)
                           PROVE  Num(x - y) = 0
<1>1. Num(x - y) = Num(y - y)
  BY NumMinusSame, Zenon
<1>2. y - y = 0
  OBVIOUS
<1> QED
  BY <1>1, <1>2, ZeroIsNum

LEMMA NumInProduct == ASSUME NEW x \in Int, NEW z \in Int
                      PROVE  Num(Num(x) * z) = Num(x * z) /\ Num(z * Num(x)) = Num(z * x)
<1>1. Num(x) \in Int /\ Num(Num(x)) = Num(x)
  BY NumType, NumOfNum
<1>2. Num(Num(x) * z) = Num(x * z)
  BY <1>1, NumTimes
<1>3. Num(z * Num(x)) = Num(z * x)
  BY <1>1, NumTimes
<1> QED
  BY <1>2, <1>3

-----------------------------------------------------------------------------
(* Quotients.                                                              *)

LEMMA DivisionBy == ASSUME NEW a \in Nat, NEW d \in Nat, d > 0
                    PROVE  /\ a \div d \in Int /\ a % d \in 0 .. d - 1
                           /\ a = d * (a \div d) + (a % d)
  OBVIOUS

\* The least number that a multiple of n leaves divides the prime.
LEMMA LeastMultiple ==
    ASSUME NEW n \in 1 .. Prime - 1
    PROVE  \E x, k \in Int : n * x = 1 + Prime * k
<1> DEFINE S == {m \in 1 .. Prime - 1 : \E x, k \in Int : n * x = m + Prime * k}
<1>0. Prime \in Nat /\ Prime > 2 /\ n \in Int
  BY PrimeAssumption
<1>1. n \in S
  <2>1. n * 1 = n + Prime * 0 /\ 1 \in Int /\ 0 \in Int
    BY <1>0
  <2> QED
    BY <2>1
<1>2. PICK m \in S : \A l \in S : m <= l
  <2>1. S \subseteq 1 .. Prime - 1
    OBVIOUS
  <2> HIDE DEF S
  <2>2. S \subseteq Nat /\ S # {}
    BY <1>0, <1>1, <2>1
  <2> QED
    BY <2>2, NatMinimum
<1>3. PICK x \in Int, k \in Int : n * x = m + Prime * k
  BY <1>2
<1>4. m \in Nat /\ m > 0 /\ m \in 1 .. Prime - 1
  BY <1>0, <1>2
<1> DEFINE q == Prime \div m
           r == Prime % m
<1>5. q \in Int /\ r \in 0 .. m - 1 /\ Prime = m * q + r
  BY <1>0, <1>4, DivisionBy
<1>6. r = 0 => m = 1
  BY <1>4, PrimeAssumption
<1> HIDE DEF q, r
<1>7. r = 0
  <2> SUFFICES ASSUME r # 0
               PROVE  FALSE
    OBVIOUS
  <2>1. r \in 1 .. Prime - 1 /\ r < m
    BY <1>0, <1>4, <1>5
  <2>2. n * (x * (0 - q)) = r + Prime * (0 - (1 + k * q))
    <3>1. n * (x * (0 - q)) = (n * x) * (0 - q)
      BY <1>0, <1>3, <1>5
    <3>2. (n * x) * (0 - q) = (m + Prime * k) * (0 - q)
      BY <1>3
    <3>3. (m + Prime * k) * (0 - q) = (0 - m * q) + Prime * (0 - k * q)
      BY <1>0, <1>3, <1>4, <1>5
    <3>4. 0 - m * q = r - Prime
      BY <1>0, <1>4, <1>5
    <3>5. (r - Prime) + Prime * (0 - k * q) = r + Prime * (0 - (1 + k * q))
      BY <1>0, <1>3, <1>5
    <3> QED
      BY <3>1, <3>2, <3>3, <3>4, <3>5
  <2>3. x * (0 - q) \in Int /\ 0 - (1 + k * q) \in Int
    BY <1>3, <1>5
  <2>4. r \in S
    BY <2>1, <2>2, <2>3
  <2> HIDE DEF S
  <2>5. m <= r
    BY <1>2, <2>4
  <2> QED
    BY <1>4, <2>1, <2>5
<1> QED
  BY <1>3, <1>6, <1>7

\* Every number but zero has an inverse.
LEMMA InverseFacts ==
    ASSUME NEW n \in 1 .. Prime - 1
    PROVE  Inverses[n] \in 1 .. Prime - 1 /\ (n * Inverses[n]) % Prime = 1
<1>0. Prime \in Nat /\ Prime > 2 /\ n \in Int
  BY PrimeAssumption
<1>1. PICK x \in Int, k \in Int : n * x = 1 + Prime * k
  BY LeastMultiple
<1> DEFINE q == x \div Prime
           v == x % Prime
<1>2. q \in Int /\ v \in 0 .. Prime - 1 /\ x = Prime * q + v
  BY Division
<1> HIDE DEF q, v
<1>3. n * v = Prime * (k - n * q) + 1 /\ k - n * q \in Int /\ n * v \in Int
  <2>1. n * x = n * (Prime * q) + n * v
    BY <1>0, <1>2
  <2>2. n * (Prime * q) = Prime * (n * q)
    BY <1>0, <1>2
  <2>3. Prime * (k - n * q) = Prime * k - Prime * (n * q)
    BY <1>0, <1>1, <1>2
  <2>4. n * q \in Int /\ n * v \in Int /\ Prime * k \in Int /\ Prime * (n * q) \in Int
    BY <1>0, <1>1, <1>2
  <2> DEFINE nv == n * v
             pk == Prime * k
             pn == Prime * (n * q)
  <2>5. 1 + pk = pn + nv /\ Prime * (k - n * q) = pk - pn /\ {nv, pk, pn} \subseteq Int
    BY <1>1, <2>1, <2>2, <2>3, <2>4
  <2>6. k - n * q \in Int
    BY <2>4
  <2> HIDE DEF nv, pk, pn
  <2>7. nv = (pk - pn) + 1
    BY <2>5
  <2> QED
    BY <2>5, <2>6, <2>7 DEF nv
<1>4. (n * v) % Prime = 1
  BY <1>0, <1>3, RemainderIsUnique
<1>5. v # 0
  <2>1. v = 0 => n * v = Prime * 0 + 0
    BY <1>0
  <2>2. v = 0 => (n * v) % Prime = 0
    BY <1>0, <1>3, <2>1, RemainderIsUnique
  <2> QED
    BY <1>4, <2>2
<1>6. v \in 1 .. Prime - 1
  BY <1>0, <1>2, <1>5
<1>7. Inverses[n] = CHOOSE l \in 1 .. Prime - 1 : (n * l) % Prime = 1
  BY DEF Inverses
<1> QED
  BY <1>4, <1>6, <1>7

\* A quotient by a number that is not zero is what gives the dividend back.
LEMMA QuotientFacts ==
    ASSUME NEW n \in Int, NEW d \in Int, d % Prime # 0
    PROVE  /\ Quotient(n, d) \in Values /\ Quotient(n, d) \in Int
           /\ Inverses[d % Prime] \in Int
           /\ Num(d * Inverses[d % Prime]) = Num(1)
<1> DEFINE q == d \div Prime
           r == d % Prime
           v == Inverses[r]
<1>0. Prime \in Nat /\ Prime > 2
  BY PrimeAssumption
<1>1. q \in Int /\ r \in 0 .. Prime - 1 /\ d = Prime * q + r
  BY Division
<1>2. r \in 1 .. Prime - 1
  BY <1>0, <1>1
<1> HIDE DEF r
<1>3. v \in 1 .. Prime - 1 /\ (r * v) % Prime = 1
  BY <1>2, InverseFacts
<1> HIDE DEF q, v
<1>4. v \in Int /\ r \in Int /\ n * v \in Int /\ r * v \in Int
  BY <1>2, <1>3
<1>5. Num(n * v) \in Values /\ Num(n * v) \in Int
  BY <1>4, NumType
<1>6. Num(d * v) = Num(1)
  <2> DEFINE u == (r * v) \div Prime
  <2>1. u \in Int /\ r * v = Prime * u + 1
    BY <1>3, <1>4, Division
  <2> HIDE DEF u
  <2>2. d * v = 1 + Prime * (q * v + u) /\ q * v + u \in Int
    <3>1. d * v = (Prime * q + r) * v
      BY <1>1
    <3>2. (Prime * q + r) * v = Prime * (q * v) + r * v
      BY <1>0, <1>1, <1>4
    <3>3. Prime * (q * v + u) = Prime * (q * v) + Prime * u /\ q * v \in Int
      BY <1>0, <1>1, <1>4, <2>1
    <3>4. Prime * (q * v) \in Int /\ Prime * u \in Int
      BY <1>0, <2>1, <3>3
    <3> QED
      BY <2>1, <3>1, <3>2, <3>3, <3>4
  <2> QED
    BY <2>2, NumShift
<1> QED
  BY <1>4, <1>5, <1>6 DEF Quotient, v, r

\* Powers, multiplied up from 1.
PowersUpTo(k, n, p) == p = [m \in 0 .. n |-> IF m = 0 THEN 1 ELSE k * p[m - 1]]

LEMMA PowersExist == ASSUME NEW k \in Int, NEW n \in Nat
                     PROVE  \E p : PowersUpTo(k, n, p) /\ Power(k, n) = p[n]
<1> DEFINE T == {m \in Nat : \E p : PowersUpTo(k, m, p)}
<1>1. 0 \in T
  <2>1. PowersUpTo(k, 0, [m \in 0 .. 0 |-> 1])
    BY DEF PowersUpTo
  <2> QED
    BY <2>1
<1>2. ASSUME NEW m \in Nat, m \in T
      PROVE  m + 1 \in T
  <2>1. PICK p : PowersUpTo(k, m, p)
    BY <1>2
  <2> DEFINE t == [l \in 0 .. m + 1 |-> IF l = m + 1 THEN k * p[m] ELSE p[l]]
  <2>2. \A l \in 0 .. m + 1 : t[l] = IF l = 0 THEN 1 ELSE k * t[l - 1]
    <3> SUFFICES ASSUME NEW l \in 0 .. m + 1
                 PROVE  t[l] = IF l = 0 THEN 1 ELSE k * t[l - 1]
      OBVIOUS
    <3>1. CASE l = m + 1
      <4>1. l # 0 /\ l - 1 = m /\ t[l - 1] = p[m]
        BY <3>1
      <4> QED
        BY <3>1, <4>1
    <3>2. CASE l # m + 1
      <4>1. l \in 0 .. m /\ t[l] = p[l] /\ (l # 0 => t[l - 1] = p[l - 1])
        BY <3>2
      <4>2. p[l] = IF l = 0 THEN 1 ELSE k * p[l - 1]
        BY <2>1, <4>1 DEF PowersUpTo
      <4> QED
        BY <4>1, <4>2
    <3> QED
      BY <3>1, <3>2
  <2>3. PowersUpTo(k, m + 1, t)
    BY <2>2 DEF PowersUpTo
  <2> QED
    BY <2>3
<1>3. n \in T
  <2> HIDE DEF T
  <2> QED
    BY <1>1, <1>2, SetInduction
<1>4. PowersUpTo(k, n, CHOOSE p : PowersUpTo(k, n, p))
  BY <1>3
<1> QED
  BY <1>4 DEF Power, PowersUpTo

LEMMA PowersAgree == ASSUME NEW k \in Int, NEW n \in Nat, NEW s, NEW t,
                            PowersUpTo(k, n, s), PowersUpTo(k, n + 1, t)
                     PROVE  s[n] = t[n] /\ s[n] \in Int
<1> DEFINE T == {m \in Nat : m <= n => s[m] = t[m] /\ s[m] \in Int}
<1>1. 0 \in T
  BY DEF PowersUpTo
<1>2. \A m \in Nat : m \in T => m + 1 \in T
  <2> SUFFICES ASSUME NEW m \in Nat, m \in T, m + 1 <= n
               PROVE  s[m + 1] = t[m + 1] /\ s[m + 1] \in Int
    OBVIOUS
  <2>1. s[m] = t[m] /\ s[m] \in Int /\ m + 1 \in 0 .. n /\ m + 1 \in 0 .. n + 1 /\ m + 1 # 0 /\ (m + 1) - 1 = m
    OBVIOUS
  <2>2. s[m + 1] = k * s[m] /\ t[m + 1] = k * t[m]
    BY <2>1 DEF PowersUpTo
  <2>3. k * s[m] \in Int
    BY <2>1
  <2> QED
    BY <2>1, <2>2, <2>3
<1>3. n \in T
  <2> HIDE DEF T
  <2> QED
    BY <1>1, <1>2, SetInduction
<1> QED
  BY <1>3

LEMMA PowerFacts == ASSUME NEW k \in Int
                    PROVE  /\ Power(k, 0) = 1
                           /\ \A n \in Nat : Power(k, n) \in Int /\ Power(k, n + 1) = k * Power(k, n)
<1>1. Power(k, 0) = 1
  BY PowersExist DEF PowersUpTo
<1>2. ASSUME NEW n \in Nat
      PROVE  Power(k, n) \in Int /\ Power(k, n + 1) = k * Power(k, n)
  <2>1. PICK s : PowersUpTo(k, n, s) /\ Power(k, n) = s[n]
    BY PowersExist
  <2>2. PICK t : PowersUpTo(k, n + 1, t) /\ Power(k, n + 1) = t[n + 1]
    <3>1. n + 1 \in Nat
      OBVIOUS
    <3> QED
      BY <3>1, PowersExist
  <2>3. t[n + 1] = k * t[n]
    <3>1. n + 1 \in 0 .. n + 1 /\ n + 1 # 0 /\ (n + 1) - 1 = n
      OBVIOUS
    <3> QED
      BY <2>2, <3>1 DEF PowersUpTo
  <2> QED
    BY <2>1, <2>2, <2>3, PowersAgree
<1> QED
  BY <1>1, <1>2

-----------------------------------------------------------------------------
(* The network.                                                            *)

LEMMA NetFacts ==
    /\ Last \in Nat /\ Last >= 2
    /\ \A l \in 1 .. Last : Net[l] \in Nat /\ Net[l] >= 1 /\ Neurons(l) = 1 .. Net[l] /\ IsFiniteSet(Neurons(l))
<1>1. Last \in Nat /\ Last >= 2 /\ \A l \in 1 .. Last : Net[l] \in Nat /\ Net[l] >= 1
  BY BackpropAssumption DEF Last
<1>2. \A l \in 1 .. Last : IsFiniteSet(Neurons(l))
  BY <1>1, FS_Interval DEF Neurons
<1> QED
  BY <1>1, <1>2 DEF Neurons

\* What the cells are.
LEMMA NeuronFacts ==
    /\ \A l \in 1 .. Last : \A i \in Neurons(l) : <<l, i>> \in NeuronCells
    /\ \A c \in NeuronCells : c = <<c[1], c[2]>> /\ c[1] \in 1 .. Last /\ c[2] \in Neurons(c[1])
  BY DEF NeuronCells

LEMMA WeightFacts ==
    /\ \A k \in Layers : \A i \in Neurons(k), j \in Neurons(k + 1) : <<k, i, j>> \in WeightCells
    /\ \A e \in WeightCells : /\ e = <<e[1], e[2], e[3]>> /\ e[1] \in Layers
                              /\ e[2] \in Neurons(e[1]) /\ e[3] \in Neurons(e[1] + 1)
  BY DEF WeightCells

LEMMA BiasFacts ==
    /\ \A k \in Layers : \A j \in Neurons(k + 1) : <<k, j>> \in BiasCells
    /\ \A c \in BiasCells : c = <<c[1], c[2]>> /\ c[1] \in Layers /\ c[2] \in Neurons(c[1] + 1)
  BY DEF BiasCells

\* Sums over a layer's neurons.
LEMMA LayerSum ==
    ASSUME NEW l \in 1 .. Last, NEW f, \A i \in Neurons(l) : f[i] \in Int
    PROVE  Sum(f, Net[l]) \in Int /\ Sum(f, Net[l]) = Over(f, Neurons(l))
  BY NetFacts, SumIsInt, SumIsTotal

-----------------------------------------------------------------------------
(* The network as a function.                                              *)

Numbers(weights, biases) == weights \in [WeightCells -> Int] /\ biases \in [BiasCells -> Int]

LEMMA NetInType ==
    ASSUME NEW weights, NEW biases, Numbers(weights, biases), NEW l \in 2 .. Last,
           NEW outs \in [Neurons(l - 1) -> Int]
    PROVE  NetIn(weights, biases, outs, l) \in [Neurons(l) -> Values]
<1>1. l - 1 \in Layers /\ l - 1 \in 1 .. Last /\ (l - 1) + 1 = l
  BY NetFacts DEF Layers
<1>2. ASSUME NEW j \in Neurons(l)
      PROVE  Num(biases[<<l - 1, j>>] + Total([i \in Neurons(l - 1) |-> outs[i] * weights[<<l - 1, i, j>>]])) \in Values
  <2> DEFINE terms == [i \in Neurons(l - 1) |-> outs[i] * weights[<<l - 1, i, j>>]]
  <2>1. biases[<<l - 1, j>>] \in Int
    BY <1>1, BiasFacts DEF Numbers
  <2>2. terms \in [Neurons(l - 1) -> Int]
    BY <1>1, WeightFacts DEF Numbers
  <2>3. IsFiniteSet(Neurons(l - 1))
    BY <1>1, NetFacts
  <2> HIDE DEF terms
  <2>4. Total(terms) \in Int
    BY <2>2, <2>3, TotalFacts
  <2>5. biases[<<l - 1, j>>] + Total(terms) \in Int
    BY <2>1, <2>4
  <2> QED
    BY <2>5, NumType DEF terms
<1> QED
  BY <1>2 DEF NetIn

\* One layer's outputs from those of the layer before it.
LayerOut(weights, biases, outs, l) ==
    LET ins == NetIn(weights, biases, outs, l)
    IN  [j \in Neurons(l) |-> IF l = Last THEN Output(ins, j) ELSE Act(ins[j])]

LEMMA LayerOutType ==
    ASSUME NEW weights, NEW biases, Numbers(weights, biases), NEW l \in 2 .. Last,
           NEW outs \in [Neurons(l - 1) -> Int]
    PROVE  LayerOut(weights, biases, outs, l) \in [Neurons(l) -> Values]
<1> DEFINE ins == NetIn(weights, biases, outs, l)
<1>1. ins \in [Neurons(l) -> Values]
  BY NetInType
<1> HIDE DEF ins
<1>2. ASSUME NEW j \in Neurons(l)
      PROVE  (IF l = Last THEN Output(ins, j) ELSE Act(ins[j])) \in Values
  BY <1>1, FunctionAssumption
<1> QED
  BY <1>2 DEF LayerOut, ins

OutsUpTo(weights, biases, x, n, f) ==
    f = [l \in 1 .. n |-> IF l = 1 THEN x ELSE LayerOut(weights, biases, f[l - 1], l)]

LEMMA NetOutExists ==
    ASSUME NEW weights, NEW biases, NEW x
    PROVE  OutsUpTo(weights, biases, x, Last, NetOut(weights, biases, x))
<1> DEFINE T == {m \in Nat : \E f : OutsUpTo(weights, biases, x, m, f)}
<1>1. 0 \in T
  <2>1. OutsUpTo(weights, biases, x, 0, [l \in 1 .. 0 |-> x])
    BY DEF OutsUpTo
  <2> QED
    BY <2>1
<1>2. \A m \in Nat : m \in T => m + 1 \in T
  <2> SUFFICES ASSUME NEW m \in Nat, m \in T
               PROVE  m + 1 \in T
    OBVIOUS
  <2>1. PICK f : OutsUpTo(weights, biases, x, m, f)
    OBVIOUS
  <2> DEFINE top == IF m = 0 THEN x ELSE LayerOut(weights, biases, f[m], m + 1)
             g == [l \in 1 .. m + 1 |-> IF l = m + 1 THEN top ELSE f[l]]
  <2>2. ASSUME NEW l \in 1 .. m + 1
        PROVE  g[l] = IF l = 1 THEN x ELSE LayerOut(weights, biases, g[l - 1], l)
    <3>1. CASE l = m + 1
      <4>1. l # 1 => l - 1 = m /\ g[l - 1] = f[m]
        BY <3>1
      <4> QED
        BY <3>1, <4>1
    <3>2. CASE l # m + 1
      <4>1. l \in 1 .. m /\ g[l] = f[l] /\ (l # 1 => g[l - 1] = f[l - 1])
        BY <3>2
      <4> QED
        BY <2>1, <4>1 DEF OutsUpTo
    <3> QED
      BY <3>1, <3>2
  <2>3. OutsUpTo(weights, biases, x, m + 1, g)
    BY <2>2 DEF OutsUpTo
  <2> QED
    BY <2>3
<1>3. Last \in T
  <2> HIDE DEF T
  <2> QED
    BY <1>1, <1>2, NetFacts, SetInduction
<1>4. OutsUpTo(weights, biases, x, Last, CHOOSE f : OutsUpTo(weights, biases, x, Last, f))
  BY <1>3
<1> QED
  BY <1>4 DEF OutsUpTo, NetOut, LayerOut

\* The outputs of each layer are those of one more step.
LEMMA NetOutFacts ==
    ASSUME NEW weights, NEW biases, NEW x
    PROVE  /\ NetOut(weights, biases, x)[1] = x
           /\ \A l \in 2 .. Last :
                  NetOut(weights, biases, x)[l] = LayerOut(weights, biases, NetOut(weights, biases, x)[l - 1], l)
<1> DEFINE f == NetOut(weights, biases, x)
<1>1. f = [l \in 1 .. Last |-> IF l = 1 THEN x ELSE LayerOut(weights, biases, f[l - 1], l)]
  BY NetOutExists DEF OutsUpTo
<1> HIDE DEF f
<1>2. f[1] = x /\ \A l \in 2 .. Last : f[l] = LayerOut(weights, biases, f[l - 1], l)
  BY <1>1, NetFacts
<1> QED
  BY <1>2 DEF f

LEMMA NetOutType ==
    ASSUME NEW weights, NEW biases, NEW x \in [Neurons(1) -> Int], Numbers(weights, biases)
    PROVE  /\ \A l \in 1 .. Last : NetOut(weights, biases, x)[l] \in [Neurons(l) -> Int]
           /\ \A l \in 2 .. Last : NetOut(weights, biases, x)[l] \in [Neurons(l) -> Values]
<1> DEFINE f == NetOut(weights, biases, x)
           T == {m \in Nat : m \in 1 .. Last => f[m] \in [Neurons(m) -> Int]
                                          /\ (m > 1 => f[m] \in [Neurons(m) -> Values])}
<1>0. f[1] = x /\ \A l \in 2 .. Last : f[l] = LayerOut(weights, biases, f[l - 1], l)
  BY NetOutFacts
<1> HIDE DEF f
<1>1. 0 \in T
  OBVIOUS
<1>2. \A m \in Nat : m \in T => m + 1 \in T
  <2> SUFFICES ASSUME NEW m \in Nat, m \in T, m + 1 \in 1 .. Last
               PROVE  f[m + 1] \in [Neurons(m + 1) -> Int]
                      /\ (m + 1 > 1 => f[m + 1] \in [Neurons(m + 1) -> Values])
    OBVIOUS
  <2>1. CASE m = 0
    BY <1>0, <2>1
  <2>2. CASE m > 0
    <3>1. m \in 1 .. Last /\ m + 1 \in 2 .. Last /\ (m + 1) - 1 = m
      BY <2>2, NetFacts
    <3>4. f[m] \in [Neurons(m) -> Int]
      BY <3>1
    <3>2. f[m + 1] \in [Neurons(m + 1) -> Values]
      BY <1>0, <3>1, <3>4, LayerOutType
    <3>3. Values \subseteq Int
      BY NumOfValue
    <3> QED
      BY <3>2, <3>3
  <2> QED
    BY <2>1, <2>2
<1>3. \A m \in Nat : m \in T
  <2> HIDE DEF T
  <2> QED
    BY <1>1, <1>2, SetInduction
<1>4. ASSUME NEW l \in 1 .. Last
      PROVE  f[l] \in [Neurons(l) -> Int] /\ (l > 1 => f[l] \in [Neurons(l) -> Values])
  BY <1>3, NetFacts
<1> QED
  BY <1>4, NetFacts DEF f

-----------------------------------------------------------------------------
(* What holds of the loops of one process at every step: the numbers are   *)
(* numbers, the loops are in their ranges, and the outputs that are        *)
(* computed so far are those of the function.                              *)

NeuronsOK(ins, outs, deltas) ==
    /\ ins \in [NeuronCells -> Int]
    /\ outs \in [NeuronCells -> Int]
    /\ deltas \in [NeuronCells -> Int]

SettingsOK ==
    /\ build \in Builds /\ opt \in Optimizers /\ loss \in Losses
    /\ itr \in Nat /\ rate \in Int

\* The bias correction of this epoch divides by no zero.
CorrectionOK ==
    opt = "adam" => \A k \in {beta_1, beta_2} :
        Power(k, itr) \in Int /\ (1 - Power(k, itr)) % Prime # 0

NumbersOK ==
    /\ Numbers(w, b)
    /\ NeuronsOK(in, out, delta)
    /\ dw \in [WeightCells -> Int] /\ db \in [BiasCells -> Int]
    /\ momentum \in [Cells -> Int] /\ momentum2 \in [Cells -> Int]

Sample == [x : [Neurons(1) -> Int], y : [Neurons(Last) -> Int], label : Int]
DataOK == data \in Seq(Sample)

PlaceOK ==
    /\ sample \in 1 .. Len(data) + 1
    /\ batch \in 0 .. Batch /\ batch < sample
    /\ pc \in {"load", "forward", "output", "hidden", "accumulate", "update"}
    /\ layer \in 1 .. Last
    /\ pc = "load" => batch < Batch /\ (batch > 0 => sample <= Len(data))
    /\ pc \in {"forward", "output", "hidden", "accumulate"} => sample <= Len(data) /\ batch < Batch
    /\ pc = "forward" => layer >= 2
    /\ pc = "hidden" => layer < Last
    /\ pc = "update" => batch >= 1

OutOK ==
    /\ pc = "forward" => \A c \in NeuronCells :
           IF c[1] < layer THEN out[c] = RefOut(sample)[c[1]][c[2]] ELSE in[c] = 0
    /\ pc \in {"output", "hidden", "accumulate"} => \A c \in NeuronCells :
           out[c] = RefOut(sample)[c[1]][c[2]]

BackInv == SettingsOK /\ NumbersOK /\ DataOK /\ PlaceOK /\ OutOK

LEMMA BatchFacts == ASSUME SettingsOK
                    PROVE  Batch \in 1 .. Prime - 1 /\ Batch \in Nat
  BY BackpropAssumption, PrimeAssumption DEF SettingsOK, Batch

LEMMA DataFacts == ASSUME DataOK
                   PROVE  /\ Len(data) \in Nat
                          /\ \A s \in 1 .. Len(data) : /\ data[s].x \in [Neurons(1) -> Int]
                                                       /\ data[s].y \in [Neurons(Last) -> Int]
                                                       /\ data[s].label \in Int
<1>1. Len(data) \in Nat /\ \A s \in 1 .. Len(data) : data[s] \in Sample
  BY DEF DataOK
<1> QED
  BY <1>1 DEF Sample

\* What the function puts out for a sample.
LEMMA RefOutFacts ==
    ASSUME DataOK, Numbers(w, b), NEW s \in 1 .. Len(data)
    PROVE  /\ RefOut(s)[1] = data[s].x
           /\ \A l \in 2 .. Last : RefOut(s)[l] = LayerOut(w, b, RefOut(s)[l - 1], l)
           /\ \A l \in 1 .. Last : RefOut(s)[l] \in [Neurons(l) -> Int]
           /\ \A l \in 2 .. Last : RefOut(s)[l] \in [Neurons(l) -> Values]
<1>1. data[s].x \in [Neurons(1) -> Int]
  BY DataFacts
<1> DEFINE x == data[s].x
<1>2. RefOut(s) = NetOut(w, b, x)
  BY DEF RefOut
<1>3. x \in [Neurons(1) -> Int]
  BY <1>1
<1> HIDE DEF x
<1>4. /\ NetOut(w, b, x)[1] = x
      /\ \A l \in 2 .. Last : NetOut(w, b, x)[l] = LayerOut(w, b, NetOut(w, b, x)[l - 1], l)
  BY NetOutFacts
<1>5. /\ \A l \in 1 .. Last : NetOut(w, b, x)[l] \in [Neurons(l) -> Int]
      /\ \A l \in 2 .. Last : NetOut(w, b, x)[l] \in [Neurons(l) -> Values]
  BY <1>3, NetOutType
<1> QED
  BY <1>2, <1>4, <1>5 DEF x

LEMMA LoadKeeps == ASSUME BackInv, Load
                   PROVE  NumbersOK' /\ PlaceOK' /\ OutOK'
<1> USE DEF BackInv
<1>1. sample \in 1 .. Len(data) /\ Len(data) \in Nat
  BY DataFacts DEF Load, PlaceOK
<1>2. data[sample].x \in [Neurons(1) -> Int] /\ RefOut(sample)[1] = data[sample].x
  BY <1>1, DataFacts, RefOutFacts DEF NumbersOK
<1>3. \A c \in NeuronCells : (IF c[1] = 1 THEN data[sample].x[c[2]] ELSE out[c]) \in Int
  BY <1>2, NeuronFacts DEF NumbersOK, NeuronsOK
<1>4. NumbersOK'
  BY <1>3 DEF Load, NumbersOK, NeuronsOK, Numbers, Zeroes, settings, gradients, moments
<1>5. PlaceOK'
  BY <1>1, NetFacts DEF Load, PlaceOK, Batch, settings
<1>6. OutOK'
  <2>1. \A c \in NeuronCells : in'[c] = 0 /\ (c[1] < 2 => out'[c] = data[sample].x[c[2]])
    BY NeuronFacts, NetFacts DEF Load, Zeroes
  <2>2. RefOut(sample)' = RefOut(sample)
    BY DEF Load, RefOut, settings
  <2>3. \A c \in NeuronCells : c[1] < 2 => c[1] = 1
    BY NeuronFacts, NetFacts
  <2>4. pc' = "forward" /\ layer' = 2
    BY DEF Load
  <2> QED
    BY <1>2, <2>1, <2>2, <2>3, <2>4 DEF OutOK
<1> QED
  BY <1>4, <1>5, <1>6

\* What goes into neuron j of the layer in work.
LayerIn(j) ==
    Num(in[<<layer, j>>] + b[<<layer - 1, j>>]
        + Sum([i \in Neurons(layer - 1) |-> out[<<layer - 1, i>>] * w[<<layer - 1, i, j>>]], Net[layer - 1]))

LEMMA LayerInIsNetIn ==
    ASSUME BackInv, pc = "forward"
    PROVE  [j \in Neurons(layer) |-> LayerIn(j)] = NetIn(w, b, RefOut(sample)[layer - 1], layer)
<1> USE DEF BackInv
<1> DEFINE outs == RefOut(sample)[layer - 1]
<1>1. /\ layer \in 2 .. Last /\ layer - 1 \in 1 .. Last /\ layer - 1 \in Layers
      /\ (layer - 1) + 1 = layer /\ sample \in 1 .. Len(data)
  BY NetFacts, DataFacts DEF PlaceOK, Layers
<1>2. outs \in [Neurons(layer - 1) -> Int]
  BY <1>1, RefOutFacts DEF NumbersOK
<1>3. \A i \in Neurons(layer - 1) : out[<<layer - 1, i>>] = outs[i]
  BY <1>1, NeuronFacts DEF OutOK
<1> HIDE DEF outs
<1>4. ASSUME NEW j \in Neurons(layer)
      PROVE  LayerIn(j) = Num(b[<<layer - 1, j>>] + Total([i \in Neurons(layer - 1) |-> outs[i] * w[<<layer - 1, i, j>>]]))
  <2> DEFINE terms == [i \in Neurons(layer - 1) |-> outs[i] * w[<<layer - 1, i, j>>]]
             bias == b[<<layer - 1, j>>]
  <2>1. [i \in Neurons(layer - 1) |-> out[<<layer - 1, i>>] * w[<<layer - 1, i, j>>]] = terms
    BY <1>3
  <2>2. in[<<layer, j>>] = 0
    BY <1>1, NeuronFacts DEF OutOK, PlaceOK
  <2>3. bias \in Int
    BY <1>1, BiasFacts DEF NumbersOK, Numbers
  <2>4. terms \in [Neurons(layer - 1) -> Int]
    BY <1>1, <1>2, WeightFacts DEF NumbersOK, Numbers
  <2>5. LayerIn(j) = Num(0 + bias + Sum(terms, Net[layer - 1]))
    BY <2>1, <2>2 DEF LayerIn
  <2> HIDE DEF terms, bias
  <2>6. Sum(terms, Net[layer - 1]) = Total(terms) /\ Sum(terms, Net[layer - 1]) \in Int
    BY <1>1, <2>4, LayerSum, OverAll
  <2>7. LayerIn(j) = Num(bias + Total(terms))
    BY <2>3, <2>5, <2>6
  <2> QED
    BY <2>7 DEF terms, bias
<1> QED
  BY <1>4 DEF NetIn, outs

LEMMA ForwardKeeps == ASSUME BackInv, Forward
                      PROVE  NumbersOK' /\ PlaceOK' /\ OutOK'
<1> USE DEF BackInv
<1> DEFINE ins == [j \in Neurons(layer) |-> LayerIn(j)]
           outs == RefOut(sample)[layer - 1]
           put == RefOut(sample)[layer]
<1>1. /\ pc = "forward" /\ layer \in 2 .. Last /\ layer - 1 \in 1 .. Last
      /\ sample \in 1 .. Len(data) /\ Len(data) \in Nat /\ Last \in Nat
  BY NetFacts, DataFacts DEF Forward, PlaceOK
<1>2. ins = NetIn(w, b, outs, layer)
  BY <1>1, LayerInIsNetIn
<1>3. outs \in [Neurons(layer - 1) -> Int] /\ put \in [Neurons(layer) -> Int] /\ put = LayerOut(w, b, outs, layer)
  BY <1>1, RefOutFacts DEF NumbersOK
<1>4. in' = [c \in NeuronCells |-> IF c[1] = layer THEN LayerIn(c[2]) ELSE in[c]]
  BY DEF Forward, LayerIn
<1>5. out' = [c \in NeuronCells |-> IF c[1] # layer THEN out[c]
                                    ELSE IF layer = Last THEN Output([j \in Neurons(Last) |-> LayerIn(j)], c[2])
                                    ELSE Act(LayerIn(c[2]))]
  BY DEF Forward, LayerIn
<1>6. ins \in [Neurons(layer) -> Values]
  BY <1>1, <1>2, <1>3, NetInType DEF NumbersOK
<1>7. \A c \in NeuronCells : c[1] = layer => LayerIn(c[2]) \in Int
  <2>1. \A j \in Neurons(layer) : LayerIn(j) \in Values
    BY <1>6
  <2> QED
    BY <2>1, NeuronFacts, NumOfValue
<1>8. \A c \in NeuronCells : c[1] = layer => out'[c] = put[c[2]]
  <2> SUFFICES ASSUME NEW c \in NeuronCells, c[1] = layer
               PROVE  out'[c] = put[c[2]]
    OBVIOUS
  <2>1. c[2] \in Neurons(layer)
    BY NeuronFacts
  <2>2. put[c[2]] = IF layer = Last THEN Output(ins, c[2]) ELSE Act(ins[c[2]])
    BY <1>2, <1>3, <2>1 DEF LayerOut
  <2>3. ins[c[2]] = LayerIn(c[2])
    BY <2>1
  <2>4. layer = Last => ins = [j \in Neurons(Last) |-> LayerIn(j)]
    OBVIOUS
  <2>5. out'[c] = IF layer = Last THEN Output([j \in Neurons(Last) |-> LayerIn(j)], c[2]) ELSE Act(LayerIn(c[2]))
    BY <1>5
  <2> HIDE DEF ins, put
  <2>6. CASE layer = Last
    <3>1. Output(ins, c[2]) = Output([j \in Neurons(Last) |-> LayerIn(j)], c[2])
      BY <2>4, <2>6, Zenon
    <3> QED
      BY <2>2, <2>5, <2>6, <3>1
  <2>7. CASE layer # Last
    BY <2>2, <2>3, <2>5, <2>7
  <2> QED
    BY <2>6, <2>7
<1> HIDE DEF ins, outs, put
<1>9. \A c \in NeuronCells : out'[c] \in Int /\ (c[1] # layer => out'[c] = out[c])
  BY <1>3, <1>5, <1>8, NeuronFacts DEF NumbersOK, NeuronsOK
<1>10. NumbersOK'
  <2>1. in' \in [NeuronCells -> Int]
    BY <1>4, <1>7 DEF NumbersOK, NeuronsOK
  <2>2. out' \in [NeuronCells -> Int]
    BY <1>5, <1>9
  <2> QED
    BY <2>1, <2>2 DEF Forward, NumbersOK, NeuronsOK, gradients, moments
<1>11. PlaceOK'
  BY <1>1 DEF Forward, PlaceOK, Batch, settings
<1>12. OutOK'
  <2>1. RefOut(sample)' = RefOut(sample)
    BY DEF Forward, RefOut
  <2>2. \A c \in NeuronCells : c[1] <= layer => out'[c] = RefOut(sample)[c[1]][c[2]]
    BY <1>1, <1>8, <1>9, NeuronFacts DEF OutOK, put
  <2>3. \A c \in NeuronCells : c[1] > layer => in'[c] = 0
    BY <1>1, <1>4, NeuronFacts DEF OutOK
  <2>4. CASE layer < Last
    <3>1. layer' = layer + 1 /\ pc' = "forward"
      BY <1>1, <2>4 DEF Forward
    <3>2. \A c \in NeuronCells : (c[1] < layer + 1 => c[1] <= layer) /\ (~(c[1] < layer + 1) => c[1] > layer)
      BY <1>1, NeuronFacts
    <3> QED
      BY <2>1, <2>2, <2>3, <3>1, <3>2 DEF OutOK
  <2>5. CASE layer = Last
    <3>1. pc' = "output" /\ \A c \in NeuronCells : c[1] <= layer
      BY <1>1, <2>5, NeuronFacts DEF Forward
    <3> QED
      BY <2>1, <2>2, <3>1 DEF OutOK
  <2> QED
    BY <1>1, <2>4, <2>5
<1> QED
  BY <1>10, <1>11, <1>12

\* Outputs behind the input layer are values.
LEMMA OutValues ==
    ASSUME BackInv, pc \in {"output", "hidden", "accumulate"}
    PROVE  \A c \in NeuronCells : c[1] > 1 => out[c] \in Values
<1>1. sample \in 1 .. Len(data)
  BY DataFacts DEF BackInv, PlaceOK
<1>2. \A l \in 2 .. Last : RefOut(sample)[l] \in [Neurons(l) -> Values]
  BY <1>1, RefOutFacts DEF BackInv, NumbersOK
<1>3. \A c \in NeuronCells : out[c] = RefOut(sample)[c[1]][c[2]]
  BY DEF BackInv, OutOK
<1>4. \A c \in NeuronCells : c[1] > 1 => c[1] \in 2 .. Last /\ c[2] \in Neurons(c[1])
  BY NeuronFacts, NetFacts
<1> QED
  BY <1>2, <1>3, <1>4

LEMMA OutputDeltaKeeps == ASSUME BackInv, OutputDelta
                          PROVE  NumbersOK' /\ PlaceOK' /\ OutOK'
<1> USE DEF BackInv
<1>1. pc = "output" /\ sample \in 1 .. Len(data) /\ Len(data) \in Nat /\ Last \in Nat /\ Last >= 2
  BY NetFacts, DataFacts DEF OutputDelta, PlaceOK
<1> DEFINE error(j) == out[<<Last, j>>] - Target(sample, j)
<1>2. \A j \in Neurons(Last) : error(j) \in Int
  BY <1>1, NeuronFacts, DataFacts DEF Target, NumbersOK, NeuronsOK
<1>3. \A c \in NeuronCells : c[1] = Last => OutputD(out[c]) \in Int
  BY <1>1, OutValues, FunctionAssumption
<1>4. \A c \in NeuronCells : c[1] = Last =>
          Num(error(c[2]) * OutputD(out[c])) \in Int /\ Num(error(c[2])) \in Int
  <2> SUFFICES ASSUME NEW c \in NeuronCells, c[1] = Last
               PROVE  Num(error(c[2]) * OutputD(out[c])) \in Int /\ Num(error(c[2])) \in Int
    OBVIOUS
  <2>1. error(c[2]) \in Int /\ OutputD(out[c]) \in Int
    BY <1>2, <1>3, NeuronFacts
  <2> HIDE DEF error
  <2>2. error(c[2]) * OutputD(out[c]) \in Int
    BY <2>1
  <2> QED
    BY <2>1, <2>2, NumType
<1>5. NumbersOK'
  <2>1. delta' \in [NeuronCells -> Int]
    BY <1>4 DEF OutputDelta, NumbersOK, NeuronsOK
  <2> QED
    BY <2>1 DEF OutputDelta, NumbersOK, NeuronsOK, gradients, moments
<1>6. PlaceOK'
  BY <1>1 DEF OutputDelta, PlaceOK, Batch, settings
<1>7. OutOK'
  <2>1. RefOut(sample)' = RefOut(sample) /\ pc' = "hidden" /\ out' = out
    BY DEF OutputDelta, RefOut
  <2> QED
    BY <1>1, <2>1 DEF OutOK
<1> QED
  BY <1>5, <1>6, <1>7

LEMMA HiddenSumIsInt ==
    ASSUME BackInv, pc = "hidden", NEW i \in Neurons(layer)
    PROVE  Backward(i) \in Int /\ BiasTerm \in Int /\ HiddenSum(i) \in Int
<1> USE DEF BackInv
<1>1. layer \in Layers /\ layer + 1 \in 1 .. Last
  BY NetFacts DEF PlaceOK, Layers
<1>2. \A j \in Neurons(layer + 1) : /\ w[<<layer, i, j>>] \in Int
                                    /\ b[<<layer, j>>] \in Int
                                    /\ delta[<<layer + 1, j>>] \in Int
  BY <1>1, WeightFacts, BiasFacts, NeuronFacts DEF NumbersOK, Numbers, NeuronsOK
<1> DEFINE f == [j \in Neurons(layer + 1) |-> w[<<layer, i, j>>] * delta[<<layer + 1, j>>]]
           g == [j \in Neurons(layer + 1) |-> b[<<layer, j>>] * delta[<<layer + 1, j>>]]
<1>3. \A j \in Neurons(layer + 1) : f[j] \in Int /\ g[j] \in Int
  BY <1>2
<1> HIDE DEF f, g
<1>4. Sum(f, Net[layer + 1]) \in Int /\ Sum(g, Net[layer + 1]) \in Int
  BY <1>1, <1>3, LayerSum
<1>5. Backward(i) \in Int /\ BiasTerm \in Int
  BY <1>4 DEF Backward, BiasTerm, f, g
<1> QED
  BY <1>5 DEF HiddenSum

LEMMA HiddenDeltaKeeps == ASSUME BackInv, HiddenDelta
                          PROVE  NumbersOK' /\ PlaceOK' /\ OutOK'
<1> USE DEF BackInv
<1>1. pc = "hidden" /\ sample \in 1 .. Len(data) /\ Last \in Nat /\ layer \in 1 .. Last - 1
  BY NetFacts, DataFacts DEF HiddenDelta, PlaceOK
<1>2. OutOK'
  <2>1. RefOut(sample)' = RefOut(sample) /\ pc' \in {"hidden", "accumulate"} /\ out' = out
    BY <1>1 DEF HiddenDelta, RefOut
  <2> QED
    BY <1>1, <2>1 DEF OutOK
<1>3. NumbersOK'
  <2>1. ASSUME ~EndHidden, NEW c \in NeuronCells, c[1] = layer
        PROVE  Num(ActD(out[c]) * Num(HiddenSum(c[2]))) \in Int
    <3> DEFINE m == ActD(out[c])
               n == Num(HiddenSum(c[2]))
    <3>1. layer > 1
      BY <1>1, <2>1 DEF EndHidden
    <3>2. m \in Int
      BY <1>1, <2>1, <3>1, OutValues, FunctionAssumption
    <3>3. n \in Int
      BY <1>1, <2>1, HiddenSumIsInt, NumType, NeuronFacts
    <3> HIDE DEF m, n
    <3>4. m * n \in Int
      BY <3>2, <3>3
    <3> QED
      BY <3>4, NumType DEF m, n
  <2>2. delta' \in [NeuronCells -> Int]
    BY <2>1 DEF HiddenDelta, NumbersOK, NeuronsOK
  <2> QED
    BY <2>2 DEF HiddenDelta, NumbersOK, NeuronsOK, gradients, moments
<1>4. PlaceOK'
  BY <1>1 DEF HiddenDelta, EndHidden, PlaceOK, Batch, settings
<1> QED
  BY <1>2, <1>3, <1>4

LEMMA AccumulateKeeps == ASSUME BackInv, Accumulate
                         PROVE  NumbersOK' /\ PlaceOK' /\ OutOK'
<1> USE DEF BackInv
<1>1. /\ pc = "accumulate" /\ sample \in 1 .. Len(data) /\ Len(data) \in Nat
      /\ Batch \in Nat /\ batch \in 0 .. Batch - 1 /\ batch < sample
  BY BatchFacts, DataFacts DEF Accumulate, PlaceOK
<1>2. \A c \in BiasCells : c[1] + 1 \in 1 .. Last /\ delta[<<c[1] + 1, c[2]>>] \in Int
  BY BiasFacts, NeuronFacts, NetFacts DEF NumbersOK, NeuronsOK, Layers
<1>3. \A e \in WeightCells : delta[<<e[1] + 1, e[3]>>] \in Int /\ out[<<e[1], e[2]>>] \in Int
  <2>1. \A e \in WeightCells : /\ e[1] \in 1 .. Last /\ e[1] + 1 \in 1 .. Last
                               /\ e[2] \in Neurons(e[1]) /\ e[3] \in Neurons(e[1] + 1)
    BY WeightFacts, NetFacts DEF Layers
  <2> QED
    BY <2>1, NeuronFacts DEF NumbersOK, NeuronsOK
<1>4. ASSUME NEW c \in BiasCells
      PROVE  Num(db[c] + delta[<<c[1] + 1, c[2]>>]) \in Int
  <2> DEFINE m == db[c]
             n == delta[<<c[1] + 1, c[2]>>]
  <2>1. m \in Int /\ n \in Int
    BY <1>2 DEF NumbersOK
  <2> HIDE DEF m, n
  <2>2. m + n \in Int
    BY <2>1
  <2> QED
    BY <2>2, NumType DEF m, n
<1>5. ASSUME NEW e \in WeightCells
      PROVE  Num(dw[e] + delta[<<e[1] + 1, e[3]>>] * out[<<e[1], e[2]>>]) \in Int
  <2> DEFINE m == dw[e]
             n == delta[<<e[1] + 1, e[3]>>]
             k == out[<<e[1], e[2]>>]
  <2>1. m \in Int /\ n \in Int /\ k \in Int
    BY <1>3 DEF NumbersOK
  <2> HIDE DEF m, n, k
  <2>2. m + n * k \in Int
    BY <2>1
  <2> QED
    BY <2>2, NumType DEF m, n, k
<1>6. NumbersOK'
  <2>1. db' \in [BiasCells -> Int] /\ dw' \in [WeightCells -> Int]
    BY <1>4, <1>5 DEF Accumulate
  <2> QED
    BY <2>1 DEF Accumulate, NumbersOK, NeuronsOK, neurons, moments
<1>7. PlaceOK'
  <2>1. Batch' = Batch /\ data' = data /\ layer' = layer /\ batch' = batch + 1 /\ sample' = sample + 1
    BY DEF Accumulate, Batch, settings
  <2>2. pc' = IF batch + 1 = Batch \/ sample + 1 > Len(data) THEN "update" ELSE "load"
    BY <2>1 DEF Accumulate
  <2>3. layer \in 1 .. Last
    BY DEF PlaceOK
  <2> QED
    BY <1>1, <2>1, <2>2, <2>3 DEF PlaceOK
<1>8. OutOK'
  BY DEF Accumulate, OutOK
<1> QED
  BY <1>6, <1>7, <1>8

\* The mean gradient of a cell, what it makes of the momenta and the step it calls
\* for are numbers.
LEMMA GradientIsInt ==
    ASSUME BackInv, pc = "update", NEW c \in Cells
    PROVE  Gradient(c) \in Int
<1> DEFINE m == IF c \in BiasCells THEN db[c] ELSE dw[c]
<1>1. m \in Int
  BY DEF BackInv, NumbersOK, Cells
<1>2. batch \in 1 .. Prime - 1
  BY BatchFacts, PrimeAssumption DEF BackInv, PlaceOK
<1>3. batch % Prime = batch /\ batch \in Int /\ batch # 0
  BY <1>2, PrimeAssumption
<1> HIDE DEF m
<1>4. Quotient(m, batch) \in Int
  BY <1>1, <1>3, QuotientFacts
<1> QED
  BY <1>4 DEF Gradient, m

LEMMA MixIsValue == ASSUME NEW k \in Int, NEW m \in Int, NEW g \in Int
                    PROVE  Mix(k, m, g) \in Values /\ Mix(k, m, g) \in Int
<1>1. (1 - k) * g \in Int /\ k * m \in Int
  OBVIOUS
<1>2. Num((1 - k) * g) \in Int
  BY <1>1, NumType
<1>3. k * m + Num((1 - k) * g) \in Int
  BY <1>1, <1>2
<1> QED
  BY <1>3, NumType DEF Mix

LEMMA MomentIsInt ==
    ASSUME BackInv, pc = "update", NEW c \in Cells
    PROVE  /\ Moment(c) \in Int /\ Moment2(c) \in Int
           /\ Optimizer \in {"momentum", "rmsprop"} => Moment(c) \in Values
<1> DEFINE g == Gradient(c)
           m == momentum[c]
           v == momentum2[c]
<1>1. g \in Int /\ m \in Int /\ v \in Int /\ rate \in Int
  BY GradientIsInt DEF BackInv, NumbersOK, SettingsOK
<1>2. beta \in Int /\ beta_1 \in Int /\ beta_2 \in Int
  BY BackpropAssumption
<1>3. Moment(c) = CASE Optimizer = "momentum" -> Mix(beta, m, Num(g * rate))
                    [] Optimizer = "rmsprop" -> Mix(beta, m, Num(g * g))
                    [] Optimizer = "adam" -> Mix(beta_1, m, g)
                    [] OTHER -> m
  BY DEF Moment
<1>4. Moment2(c) = IF Optimizer = "adam" THEN Mix(beta_2, v, Num(g * g)) ELSE v
  BY DEF Moment2
<1> HIDE DEF g, m, v
<1>5. Num(g * rate) \in Int /\ Num(g * g) \in Int
  <2>1. g * rate \in Int /\ g * g \in Int
    BY <1>1
  <2> QED
    BY <2>1, NumType
<1>6. /\ Mix(beta, m, Num(g * rate)) \in Values /\ Mix(beta, m, Num(g * rate)) \in Int
      /\ Mix(beta_1, m, g) \in Int
      /\ Mix(beta, m, Num(g * g)) \in Values /\ Mix(beta, m, Num(g * g)) \in Int
      /\ Mix(beta_2, v, Num(g * g)) \in Int
  BY <1>1, <1>2, <1>5, MixIsValue
<1> QED
  BY <1>1, <1>3, <1>4, <1>6

LEMMA StepIsValue ==
    ASSUME SettingsOK, CorrectionOK, NEW g \in Int, NEW m \in Int, NEW v \in Int,
           Optimizer \in {"momentum", "rmsprop"} => m \in Values
    PROVE  Step(g, m, v) \in Values /\ Step(g, m, v) \in Int
<1>1. rate \in Int
  BY DEF SettingsOK
<1>2. rate * g \in Int /\ Num(rate * g) \in Values
  <2>1. rate * g \in Int
    BY <1>1
  <2> QED
    BY <2>1, NumType
<1>3. Optimizer = "rmsprop" => Step(g, m, v) \in Values
  <2> SUFFICES ASSUME Optimizer = "rmsprop"
               PROVE  Step(g, m, v) \in Values
    OBVIOUS
  <2>1. Root(m) \in Int /\ Root(m) % Prime # 0
    BY FunctionAssumption
  <2>2. Quotient(rate * g, Root(m)) \in Values
    BY <1>2, <2>1, QuotientFacts
  <2> QED
    BY <2>2 DEF Step
<1>4. Optimizer = "adam" => Step(g, m, v) \in Values
  <2> SUFFICES ASSUME Optimizer = "adam"
               PROVE  Step(g, m, v) \in Values
    OBVIOUS
  <2> DEFINE p == Power(beta_1, itr)
             q == Power(beta_2, itr)
             m_cap == Quotient(m, 1 - p)
             v_cap == Quotient(v, 1 - q)
  <2>1. opt = "adam"
    BY DEF Optimizer
  <2>2. p \in Int /\ q \in Int /\ (1 - p) % Prime # 0 /\ (1 - q) % Prime # 0
    BY <2>1 DEF CorrectionOK
  <2>3. Step(g, m, v) = Quotient(rate * m_cap, Root(v_cap))
    BY DEF Step
  <2> HIDE DEF p, q
  <2>4. 1 - p \in Int /\ 1 - q \in Int
    BY <2>2
  <2>5. m_cap \in Int /\ v_cap \in Values
    BY <2>2, <2>4, QuotientFacts
  <2> HIDE DEF m_cap, v_cap
  <2>6. Root(v_cap) \in Int /\ Root(v_cap) % Prime # 0
    BY <2>5, FunctionAssumption
  <2>7. rate * m_cap \in Int
    BY <1>1, <2>5
  <2>8. Quotient(rate * m_cap, Root(v_cap)) \in Values
    BY <2>6, <2>7, QuotientFacts
  <2> QED
    BY <2>3, <2>8
<1>5. Optimizer \notin {"rmsprop", "adam"} => Step(g, m, v) \in Values
  <2> SUFFICES ASSUME Optimizer \notin {"rmsprop", "adam"}
               PROVE  Step(g, m, v) \in Values
    OBVIOUS
  <2>1. 0 \in Values
    BY PrimeAssumption DEF Values
  <2> QED
    BY <1>2, <2>1 DEF Step
<1>6. Step(g, m, v) \in Values
  BY <1>3, <1>4, <1>5
<1> QED
  BY <1>6, NumOfValue

LEMMA UpdateKeeps == ASSUME BackInv, CorrectionOK, Update
                     PROVE  NumbersOK' /\ PlaceOK' /\ OutOK'
<1> USE DEF BackInv
<1> DEFINE step(c) == Step(Gradient(c), Moment(c), Moment2(c))
<1>1. pc = "update"
  BY DEF Update
<1>2. ASSUME NEW c \in Cells
      PROVE  step(c) \in Int /\ Moment(c) \in Int /\ Moment2(c) \in Int
  <2>1. /\ Gradient(c) \in Int /\ Moment(c) \in Int /\ Moment2(c) \in Int
        /\ Optimizer \in {"momentum", "rmsprop"} => Moment(c) \in Values
    BY <1>1, GradientIsInt, MomentIsInt
  <2>2. Step(Gradient(c), Moment(c), Moment2(c)) \in Int
    BY <2>1, StepIsValue
  <2> QED
    BY <2>1, <2>2
<1>3. /\ b' = [c \in BiasCells |-> Num(b[c] - step(c))]
      /\ w' = [e \in WeightCells |-> Num(w[e] - step(e))]
      /\ momentum' = [c \in Cells |-> Moment(c)]
      /\ momentum2' = [c \in Cells |-> Moment2(c)]
  BY DEF Update
<1> HIDE DEF step
<1>4. ASSUME NEW c \in BiasCells
      PROVE  Num(b[c] - step(c)) \in Int
  <2>1. b[c] \in Int /\ step(c) \in Int
    BY <1>2 DEF Cells, NumbersOK, Numbers
  <2>2. b[c] - step(c) \in Int
    BY <2>1
  <2> QED
    BY <2>2, NumType
<1>5. ASSUME NEW e \in WeightCells
      PROVE  Num(w[e] - step(e)) \in Int
  <2>1. w[e] \in Int /\ step(e) \in Int
    BY <1>2 DEF Cells, NumbersOK, Numbers
  <2>2. w[e] - step(e) \in Int
    BY <2>1
  <2> QED
    BY <2>2, NumType
<1>6. NumbersOK'
  <2>1. b' \in [BiasCells -> Int] /\ w' \in [WeightCells -> Int]
    BY <1>3, <1>4, <1>5
  <2>2. momentum' \in [Cells -> Int] /\ momentum2' \in [Cells -> Int]
    BY <1>2, <1>3
  <2>3. NeuronsOK(in, out, delta)'
    BY DEF Update, NumbersOK, NeuronsOK, neurons
  <2>4. dw' \in [WeightCells -> Int] /\ db' \in [BiasCells -> Int]
    BY DEF Update, Zeroes
  <2> QED
    BY <2>1, <2>2, <2>3, <2>4 DEF NumbersOK, Numbers
<1>7. PlaceOK'
  <2>1. /\ Batch' = Batch /\ data' = data /\ layer' = layer /\ batch' = 0 /\ sample' = sample
        /\ pc' = "load"
    BY DEF Update, Batch, settings
  <2>2. sample \in 1 .. Len(data) + 1 /\ layer \in 1 .. Last
    BY DEF PlaceOK
  <2>3. Len(data) \in Nat /\ Batch \in Nat /\ Batch > 0
    BY BatchFacts, DataFacts
  <2> QED
    BY <2>1, <2>2, <2>3 DEF PlaceOK
<1>8. OutOK'
  BY DEF Update, OutOK
<1> QED
  BY <1>6, <1>7, <1>8

-----------------------------------------------------------------------------
(* Paths, and what goes along them.                                        *)

\* Numbers that differ by multiples of the prime add up to such numbers.
LEMMA NumOver ==
    ASSUME NEW f, NEW g, NEW D, IsFiniteSet(D),
           \A x \in D : f[x] \in Int /\ g[x] \in Int /\ Num(f[x]) = Num(g[x])
    PROVE  Num(Over(f, D)) = Num(Over(g, D))
<1> DEFINE T == {S \in SUBSET D : Num(Over(f, S)) = Num(Over(g, S))}
<1>1. ASSUME NEW S \in SUBSET D, \A x \in S : S \ {x} \in T
      PROVE  Num(Over(f, S)) = Num(Over(g, S))
  <2>1. IsFiniteSet(S) /\ \A x \in S : f[x] \in Int /\ g[x] \in Int
    BY FS_Subset
  <2>2. CASE S = {}
    <3>1. Over(f, S) = 0 /\ Over(g, S) = 0
      BY <2>1, <2>2, OverFacts
    <3> QED
      BY <3>1
  <2>3. CASE S # {}
    <3>1. PICK x : x \in S
      BY <2>3
    <3>2. IsFiniteSet(S \ {x}) /\ \A z \in S \ {x} : f[z] \in Int /\ g[z] \in Int
      BY <2>1, FS_RemoveElement
    <3> DEFINE m == f[x]
               n == Over(f, S \ {x})
               k == g[x]
               l == Over(g, S \ {x})
    <3>3. m \in Int /\ n \in Int /\ k \in Int /\ l \in Int
      BY <2>1, <3>1, <3>2, OverFacts
    <3>4. Over(f, S) = m + n /\ Over(g, S) = k + l
      BY <2>1, <3>1, OverFacts
    <3>5. Num(m) = Num(k) /\ Num(n) = Num(l)
      BY <1>1, <3>1
    <3> HIDE DEF m, n, k, l
    <3>6. Num(m + n) = Num(k + l)
      BY <3>3, <3>5, NumPlus
    <3> QED
      BY <3>4, <3>6
  <2> QED
    BY <2>2, <2>3
<1>2. SUBSET D \subseteq T
  <2>1. \A S \in SUBSET D : (\A x \in S : S \ {x} \in T) => S \in T
    BY <1>1
  <2> HIDE DEF T
  <2> QED
    BY <2>1, SubsetInduction
<1> QED
  BY <1>2

AlongFrom(l, p, error, slope, edge, f) ==
    f = [m \in l .. Last |->
            IF m = Last THEN error[p[m]]
            ELSE Num(Num(slope[<<m, p[m]>>] * edge[<<m, p[m], p[m + 1]>>]) * f[m + 1])]

LEMMA AlongExists ==
    ASSUME NEW l \in 1 .. Last, NEW p, NEW error, NEW slope, NEW edge
    PROVE  \E f : AlongFrom(l, p, error, slope, edge, f) /\ Along(l, p, error, slope, edge) = f[l]
<1> DEFINE T == {n \in Nat : n < Last => \E f : AlongFrom(Last - n, p, error, slope, edge, f)}
           pass(m, z) == Num(Num(slope[<<m, p[m]>>] * edge[<<m, p[m], p[m + 1]>>]) * z)
<1>0. Last \in Nat /\ Last >= 2
  BY NetFacts
<1>1. 0 \in T
  <2>1. AlongFrom(Last, p, error, slope, edge, [m \in Last .. Last |-> error[p[m]]])
    BY <1>0 DEF AlongFrom
  <2>2. Last - 0 = Last
    BY <1>0
  <2> QED
    BY <2>1, <2>2
<1>2. \A n \in Nat : n \in T => n + 1 \in T
  <2> SUFFICES ASSUME NEW n \in Nat, n \in T, n + 1 < Last
               PROVE  \E f : AlongFrom(Last - (n + 1), p, error, slope, edge, f)
    OBVIOUS
  <2>1. PICK f : AlongFrom(Last - n, p, error, slope, edge, f)
    BY <1>0
  <2> DEFINE k == Last - (n + 1)
             g == [m \in k .. Last |-> IF m = k THEN pass(k, f[k + 1]) ELSE f[m]]
  <2>2. k \in Int /\ k + 1 = Last - n /\ k < Last
    BY <1>0
  <2> HIDE DEF k
  <2>3. f = [m \in k + 1 .. Last |-> IF m = Last THEN error[p[m]] ELSE pass(m, f[m + 1])]
    BY <2>1, <2>2 DEF AlongFrom
  <2> HIDE DEF pass
  <2>4. \A m \in k .. Last : g[m] = IF m = Last THEN error[p[m]] ELSE pass(m, g[m + 1])
    <3> SUFFICES ASSUME NEW m \in k .. Last
                 PROVE  g[m] = IF m = Last THEN error[p[m]] ELSE pass(m, g[m + 1])
      OBVIOUS
    <3>1. CASE m = k
      <4>1. m # Last /\ g[m + 1] = f[k + 1] /\ g[m] = pass(k, f[k + 1])
        BY <1>0, <2>2, <3>1
      <4> QED
        BY <3>1, <4>1
    <3>2. CASE m # k
      <4>1. m \in k + 1 .. Last /\ g[m] = f[m] /\ (m # Last => g[m + 1] = f[m + 1])
        BY <1>0, <2>2, <3>2
      <4>2. f[m] = IF m = Last THEN error[p[m]] ELSE pass(m, f[m + 1])
        BY <2>3, <4>1
      <4> QED
        BY <4>1, <4>2
    <3> QED
      BY <3>1, <3>2
  <2>5. AlongFrom(k, p, error, slope, edge, g)
    <3>1. g = [m \in k .. Last |-> IF m = Last THEN error[p[m]] ELSE pass(m, g[m + 1])]
      BY <2>4
    <3> HIDE DEF g
    <3> QED
      BY <3>1 DEF AlongFrom, pass
  <2> QED
    BY <2>5 DEF k
<1>3. \A n \in Nat : n \in T
  <2> HIDE DEF T
  <2> QED
    BY <1>1, <1>2, SetInduction
<1>4. \E f : AlongFrom(l, p, error, slope, edge, f)
  <2>1. Last - l \in Nat /\ Last - l < Last /\ Last - (Last - l) = l
    BY <1>0
  <2> QED
    BY <1>3, <2>1
<1>5. AlongFrom(l, p, error, slope, edge, CHOOSE f : AlongFrom(l, p, error, slope, edge, f))
  BY <1>4
<1> QED
  BY <1>5 DEF Along, AlongFrom

\* What follows on a path does not depend on where it comes from.
LEMMA AlongAgree ==
    ASSUME NEW k \in 1 .. Last, NEW l \in k .. Last, NEW p, NEW q, NEW error, NEW slope, NEW edge,
           NEW f, NEW g,
           AlongFrom(l, p, error, slope, edge, f), AlongFrom(k, q, error, slope, edge, g),
           \A m \in l .. Last : p[m] = q[m]
    PROVE  \A m \in l .. Last : f[m] = g[m]
<1> DEFINE T == {n \in Nat : Last - n >= l => f[Last - n] = g[Last - n]}
           pass(m, z) == Num(Num(slope[<<m, p[m]>>] * edge[<<m, p[m], p[m + 1]>>]) * z)
<1>0. Last \in Nat /\ k \in Int /\ l \in Int
  BY NetFacts
<1>1. \A m \in l .. Last : f[m] = IF m = Last THEN error[p[m]] ELSE pass(m, f[m + 1])
  BY DEF AlongFrom
<1>2. \A m \in l .. Last : g[m] = IF m = Last THEN error[p[m]] ELSE pass(m, g[m + 1])
  <2> SUFFICES ASSUME NEW m \in l .. Last
               PROVE  g[m] = IF m = Last THEN error[p[m]] ELSE pass(m, g[m + 1])
    OBVIOUS
  <2>1. m \in k .. Last /\ p[m] = q[m] /\ (m # Last => p[m + 1] = q[m + 1])
    BY <1>0
  <2> QED
    BY <2>1 DEF AlongFrom
<1> HIDE DEF pass
<1>3. 0 \in T
  <2>1. Last - 0 = Last /\ Last \in l .. Last
    BY <1>0
  <2> QED
    BY <1>1, <1>2, <2>1
<1>4. \A n \in Nat : n \in T => n + 1 \in T
  <2> SUFFICES ASSUME NEW n \in Nat, n \in T, Last - (n + 1) >= l
               PROVE  f[Last - (n + 1)] = g[Last - (n + 1)]
    OBVIOUS
  <2> DEFINE m == Last - (n + 1)
  <2>1. m \in l .. Last /\ m # Last /\ m + 1 = Last - n /\ Last - n >= l
    BY <1>0
  <2>2. f[m + 1] = g[m + 1]
    BY <2>1
  <2> HIDE DEF m
  <2>3. f[m] = g[m]
    BY <1>1, <1>2, <2>1, <2>2
  <2> QED
    BY <2>3 DEF m
<1>5. \A n \in Nat : n \in T
  <2> HIDE DEF T
  <2> QED
    BY <1>3, <1>4, SetInduction
<1> QED
  <2> SUFFICES ASSUME NEW m \in l .. Last
               PROVE  f[m] = g[m]
    OBVIOUS
  <2>1. Last - m \in Nat /\ Last - (Last - m) = m /\ m >= l
    BY <1>0
  <2> QED
    BY <1>5, <2>1

LEMMA AlongFacts ==
    ASSUME NEW l \in 1 .. Last, NEW p, NEW error, NEW slope, NEW edge
    PROVE  /\ l = Last => Along(l, p, error, slope, edge) = error[p[l]]
           /\ l < Last => Along(l, p, error, slope, edge) =
                  Num(Num(slope[<<l, p[l]>>] * edge[<<l, p[l], p[l + 1]>>]) * Along(l + 1, p, error, slope, edge))
<1>0. Last \in Nat
  BY NetFacts
<1>1. PICK f : AlongFrom(l, p, error, slope, edge, f) /\ Along(l, p, error, slope, edge) = f[l]
  BY AlongExists
<1>2. f[l] = IF l = Last THEN error[p[l]]
             ELSE Num(Num(slope[<<l, p[l]>>] * edge[<<l, p[l], p[l + 1]>>]) * f[l + 1])
  <2>1. l \in l .. Last
    BY <1>0
  <2> QED
    BY <1>1, <2>1 DEF AlongFrom
<1>3. ASSUME l < Last
      PROVE  f[l + 1] = Along(l + 1, p, error, slope, edge)
  <2>1. l + 1 \in 1 .. Last /\ l + 1 \in l .. Last /\ l + 1 \in l + 1 .. Last
    BY <1>0, <1>3
  <2>2. PICK g : AlongFrom(l + 1, p, error, slope, edge, g) /\ Along(l + 1, p, error, slope, edge) = g[l + 1]
    BY <2>1, AlongExists
  <2>3. g[l + 1] = f[l + 1]
    BY <1>1, <2>1, <2>2, AlongAgree
  <2> QED
    BY <2>2, <2>3
<1> QED
  BY <1>0, <1>1, <1>2, <1>3

LEMMA AlongSame ==
    ASSUME NEW l \in 1 .. Last, NEW p, NEW q, NEW error, NEW slope, NEW edge,
           \A m \in l .. Last : p[m] = q[m]
    PROVE  Along(l, p, error, slope, edge) = Along(l, q, error, slope, edge)
<1>0. l \in l .. Last
  BY NetFacts
<1>1. PICK f : AlongFrom(l, p, error, slope, edge, f) /\ Along(l, p, error, slope, edge) = f[l]
  BY AlongExists
<1>2. PICK g : AlongFrom(l, q, error, slope, edge, g) /\ Along(l, q, error, slope, edge) = g[l]
  BY AlongExists
<1> QED
  BY <1>0, <1>1, <1>2, AlongAgree

\* A path goes through one neuron of every layer from its own to the last.
LEMMA PathFacts ==
    ASSUME NEW l \in 1 .. Last, NEW i
    PROVE  \A p : p \in Paths(l, i) <=> /\ p = [m \in l .. Last |-> p[m]]
                                        /\ p[l] = i
                                        /\ \A m \in l .. Last : p[m] \in Neurons(m)
<1> DEFINE All == UNION {Neurons(m) : m \in l .. Last}
<1>1. \A m \in l .. Last : Neurons(m) \subseteq All
  OBVIOUS
<1>2. Paths(l, i) = {p \in [l .. Last -> All] : p[l] = i /\ \A m \in l .. Last : p[m] \in Neurons(m)}
  BY DEF Paths
<1> HIDE DEF All
<1>3. ASSUME NEW p, p = [m \in l .. Last |-> p[m]], \A m \in l .. Last : p[m] \in Neurons(m)
      PROVE  p \in [l .. Last -> All]
  BY <1>1, <1>3
<1>4. ASSUME NEW p \in [l .. Last -> All]
      PROVE  p = [m \in l .. Last |-> p[m]]
  BY <1>4
<1> QED
  BY <1>2, <1>3, <1>4

\* What a path runs through after its first edge; the paths that take one edge.
RestOf(l, i) == [p \in Paths(l, i) |-> [m \in l + 1 .. Last |-> p[m]]]
Turn(l, i) == [p \in Paths(l, i) |-> p[l + 1]]
Through(l, i, j) == Class(Paths(l, i), Turn(l, i), j)

LEMMA TurnFacts ==
    ASSUME NEW l \in 1 .. Last - 1, NEW i
    PROVE  /\ \A p \in Paths(l, i) : Turn(l, i)[p] \in Neurons(l + 1)
           /\ \A j : Through(l, i, j) = {p \in Paths(l, i) : p[l + 1] = j}
<1>1. l \in 1 .. Last /\ l + 1 \in l .. Last
  BY NetFacts
<1>2. \A p \in Paths(l, i) : Turn(l, i)[p] = p[l + 1]
  BY DEF Turn
<1> QED
  BY <1>1, <1>2, PathFacts DEF Through, Class

\* The paths through j are the paths from j, each with one edge before it.
LEMMA RestFacts ==
    ASSUME NEW l \in 1 .. Last - 1, NEW i \in Neurons(l), NEW j \in Neurons(l + 1)
    PROVE  /\ \A p \in Through(l, i, j) :
                 /\ p \in Paths(l, i) /\ p[l + 1] = j
                 /\ RestOf(l, i)[p] \in Paths(l + 1, j)
                 /\ \A m \in l + 1 .. Last : RestOf(l, i)[p][m] = p[m]
           /\ \A p, q \in Through(l, i, j) : RestOf(l, i)[p] = RestOf(l, i)[q] => p = q
           /\ \A q \in Paths(l + 1, j) : \E p \in Through(l, i, j) : RestOf(l, i)[p] = q
<1>0. /\ l \in 1 .. Last /\ l + 1 \in 1 .. Last /\ l + 1 \in l .. Last /\ l \in l .. Last
      /\ l + 1 \in l + 1 .. Last /\ l \notin l + 1 .. Last
      /\ \A m : m \in l .. Last <=> m = l \/ m \in l + 1 .. Last
  BY NetFacts
<1> DEFINE From == l .. Last
           Later == l + 1 .. Last
<1>1. \A p : p \in Paths(l, i) <=> /\ p = [m \in From |-> p[m]] /\ p[l] = i
                                   /\ \A m \in From : p[m] \in Neurons(m)
  BY <1>0, PathFacts
<1>2. \A p : p \in Paths(l + 1, j) <=> /\ p = [m \in Later |-> p[m]] /\ p[l + 1] = j
                                       /\ \A m \in Later : p[m] \in Neurons(m)
  BY <1>0, PathFacts
<1>3. /\ l + 1 \in From /\ l \in From /\ l + 1 \in Later /\ l \notin Later
      /\ \A m : m \in From <=> m = l \/ m \in Later
  BY <1>0
<1>4. \A p : p \in Through(l, i, j) <=> p \in Paths(l, i) /\ p[l + 1] = j
  BY TurnFacts
<1>5. \A p \in Paths(l, i) : RestOf(l, i)[p] = [m \in Later |-> p[m]]
  BY DEF RestOf
<1> HIDE DEF From, Later
<1>6. ASSUME NEW p \in Through(l, i, j)
      PROVE  /\ RestOf(l, i)[p] \in Paths(l + 1, j)
             /\ \A m \in Later : RestOf(l, i)[p][m] = p[m]
  <2> DEFINE q == [m \in Later |-> p[m]]
  <2>1. p \in Paths(l, i) /\ p[l + 1] = j /\ RestOf(l, i)[p] = q
    BY <1>4, <1>5
  <2>2. \A m \in Later : q[m] = p[m]
    OBVIOUS
  <2>3. q = [m \in Later |-> q[m]]
    OBVIOUS
  <2> HIDE DEF q
  <2>4. q[l + 1] = j /\ \A m \in Later : q[m] \in Neurons(m)
    BY <1>1, <1>3, <2>1, <2>2
  <2>5. q \in Paths(l + 1, j)
    BY <1>2, <2>3, <2>4
  <2> QED
    BY <2>1, <2>2, <2>5
<1>7. ASSUME NEW p \in Through(l, i, j), NEW q \in Through(l, i, j), RestOf(l, i)[p] = RestOf(l, i)[q]
      PROVE  p = q
  <2>1. p[l] = q[l] /\ \A m \in Later : p[m] = q[m]
    BY <1>1, <1>4, <1>6, <1>7
  <2>2. \A m \in From : p[m] = q[m]
    BY <1>3, <2>1
  <2>3. p = [m \in From |-> p[m]] /\ q = [m \in From |-> q[m]]
    BY <1>1, <1>4
  <2>4. [m \in From |-> p[m]] = [m \in From |-> q[m]]
    BY <2>2
  <2> QED
    BY <2>3, <2>4, Zenon
<1>8. ASSUME NEW q \in Paths(l + 1, j)
      PROVE  \E p \in Through(l, i, j) : RestOf(l, i)[p] = q
  <2> DEFINE p == [m \in From |-> IF m = l THEN i ELSE q[m]]
  <2>1. p[l] = i /\ \A m \in Later : p[m] = q[m]
    BY <1>3
  <2>2. p = [m \in From |-> p[m]] /\ \A m \in From : p[m] \in Neurons(m)
    BY <1>2, <1>3, <2>1
  <2> HIDE DEF p
  <2>3. p \in Paths(l, i) /\ p[l + 1] = j
    BY <1>1, <1>2, <1>3, <2>1, <2>2
  <2>4. p \in Through(l, i, j)
    BY <1>4, <2>3
  <2>5. [m \in Later |-> p[m]] = [m \in Later |-> q[m]]
    BY <2>1
  <2>6. q = [m \in Later |-> q[m]]
    BY <1>2
  <2>7. RestOf(l, i)[p] = q
    BY <1>5, <2>3, <2>5, <2>6
  <2> QED
    BY <2>4, <2>7
<1> QED
  BY <1>4, <1>6, <1>7, <1>8 DEF Later

\* The last layer's neurons are paths of their own.
LEMMA LastPath ==
    ASSUME NEW j \in Neurons(Last)
    PROVE  Paths(Last, j) = {[m \in Last .. Last |-> j]}
<1>0. Last \in 1 .. Last /\ \A m : m \in Last .. Last <=> m = Last
  BY NetFacts
<1> DEFINE p == [m \in Last .. Last |-> j]
<1>1. p \in Paths(Last, j)
  BY <1>0, PathFacts
<1>2. ASSUME NEW q \in Paths(Last, j)
      PROVE  q = p
  <2>1. q = [m \in Last .. Last |-> q[m]] /\ q[Last] = j
    <3>1. \A r : r \in Paths(Last, j) <=> /\ r = [m \in Last .. Last |-> r[m]]
                                          /\ r[Last] = j
                                          /\ \A m \in Last .. Last : r[m] \in Neurons(m)
      BY <1>0, PathFacts, Zenon
    <3> QED
      BY <3>1
  <2>2. [m \in Last .. Last |-> q[m]] = p
    BY <1>0, <2>1
  <2> QED
    BY <2>1, <2>2
<1> QED
  BY <1>1, <1>2

\* There are finitely many paths.
LEMMA PathsAreFinite ==
    ASSUME NEW l \in 1 .. Last, NEW i \in Neurons(l)
    PROVE  IsFiniteSet(Paths(l, i))
<1> DEFINE T == {n \in Nat : n < Last => \A k \in Neurons(Last - n) : IsFiniteSet(Paths(Last - n, k))}
<1>0. Last \in Nat /\ Last >= 2
  BY NetFacts
<1>1. 0 \in T
  <2>1. \A k \in Neurons(Last) : IsFiniteSet(Paths(Last, k))
    <3> TAKE k \in Neurons(Last)
    <3>1. Paths(Last, k) = {[m \in Last .. Last |-> k]}
      BY LastPath
    <3> QED
      BY <3>1, FS_Singleton
  <2>2. Last - 0 = Last
    BY <1>0
  <2> QED
    BY <2>1, <2>2
<1>2. \A n \in Nat : n \in T => n + 1 \in T
  <2> SUFFICES ASSUME NEW n \in Nat, n \in T, n + 1 < Last, NEW k \in Neurons(Last - (n + 1))
               PROVE  IsFiniteSet(Paths(Last - (n + 1), k))
    OBVIOUS
  <2> DEFINE m == Last - (n + 1)
  <2>1. m \in 1 .. Last - 1 /\ m + 1 = Last - n /\ m + 1 \in 1 .. Last
    BY <1>0
  <2>2. \A j \in Neurons(m + 1) : IsFiniteSet(Paths(m + 1, j))
    BY <1>0, <2>1
  <2>3. k \in Neurons(m)
    OBVIOUS
  <2> HIDE DEF m
  <2>4. ASSUME NEW j \in Neurons(m + 1)
        PROVE  IsFiniteSet(Through(m, k, j))
    <3> DEFINE h == [p \in Through(m, k, j) |-> RestOf(m, k)[p]]
    <3>1. h \in [Through(m, k, j) -> Paths(m + 1, j)] /\ \A p, q \in Through(m, k, j) : h[p] = h[q] => p = q
      BY <2>1, <2>3, RestFacts
    <3>2. h \in Injection(Through(m, k, j), Paths(m + 1, j))
      BY <3>1 DEF Injection, IsInjective
    <3> QED
      BY <2>2, <3>2, FS_Injection
  <2>5. IsFiniteSet(Neurons(m + 1)) /\ \A p \in Paths(m, k) : Turn(m, k)[p] \in Neurons(m + 1)
    BY <2>1, NetFacts, TurnFacts
  <2>6. IsFiniteSet(Paths(m, k))
    BY <2>4, <2>5, ClassesAreFinite DEF Through
  <2> QED
    BY <2>6 DEF m
<1>3. \A n \in Nat : n \in T
  <2> HIDE DEF T
  <2> QED
    BY <1>1, <1>2, SetInduction
<1>4. Last - l \in Nat /\ Last - l < Last /\ Last - (Last - l) = l
  BY <1>0
<1> QED
  BY <1>3, <1>4

\* What a sum over paths is taken of.
PathNumbers(error, slope, edge) ==
    /\ error \in [Neurons(Last) -> Int]
    /\ slope \in [HiddenCells -> Int]
    /\ edge \in [WeightCells -> Int]

LEMMA HiddenFacts ==
    /\ \A l \in 2 .. Last - 1 : \A i \in Neurons(l) : <<l, i>> \in HiddenCells
    /\ \A c \in HiddenCells : c = <<c[1], c[2]>> /\ c[1] \in 2 .. Last - 1 /\ c[2] \in Neurons(c[1])
<1>1. ASSUME NEW l \in 2 .. Last - 1, NEW i \in Neurons(l)
      PROVE  <<l, i>> \in HiddenCells
  <2>1. l \in 1 .. Last /\ l > 1 /\ l < Last
    BY NetFacts
  <2>2. <<l, i>> \in NeuronCells /\ <<l, i>>[1] = l
    BY <2>1, NeuronFacts
  <2> QED
    BY <2>1, <2>2 DEF HiddenCells
<1> QED
  BY <1>1, NetFacts, NeuronFacts DEF HiddenCells

LEMMA AlongType ==
    ASSUME NEW error, NEW slope, NEW edge, PathNumbers(error, slope, edge),
           NEW l \in 2 .. Last, NEW i \in Neurons(l), NEW p \in Paths(l, i)
    PROVE  Along(l, p, error, slope, edge) \in Int
<1> DEFINE T == {n \in Nat : n < Last - 1 => \A k \in Neurons(Last - n) : \A q \in Paths(Last - n, k) :
                                Along(Last - n, q, error, slope, edge) \in Int}
<1>0. Last \in Nat /\ Last >= 2
  BY NetFacts
<1>1. 0 \in T
  <2>1. ASSUME NEW k \in Neurons(Last), NEW q \in Paths(Last, k)
        PROVE  Along(Last, q, error, slope, edge) \in Int
    <3>1. Last \in 1 .. Last
      BY <1>0
    <3>2. q[Last] = k
      BY <3>1, PathFacts
    <3>3. Along(Last, q, error, slope, edge) = error[q[Last]]
      BY <3>1, AlongFacts, Zenon
    <3> QED
      BY <3>2, <3>3 DEF PathNumbers
  <2>2. Last - 0 = Last
    BY <1>0
  <2> QED
    BY <2>1, <2>2
<1>2. \A n \in Nat : n \in T => n + 1 \in T
  <2> SUFFICES ASSUME NEW n \in Nat, n \in T, n + 1 < Last - 1, NEW k \in Neurons(Last - (n + 1)),
                      NEW q \in Paths(Last - (n + 1), k)
               PROVE  Along(Last - (n + 1), q, error, slope, edge) \in Int
    OBVIOUS
  <2> DEFINE m == Last - (n + 1)
  <2>1. /\ m \in 2 .. Last - 1 /\ m \in 1 .. Last - 1 /\ m \in 1 .. Last /\ m \in Layers
        /\ m + 1 = Last - n /\ m + 1 \in 1 .. Last /\ m < Last
    BY <1>0 DEF Layers
  <2>2. \A j \in Neurons(m + 1) : \A r \in Paths(m + 1, j) : Along(m + 1, r, error, slope, edge) \in Int
    BY <1>0, <2>1
  <2>3. k \in Neurons(m) /\ q \in Paths(m, k)
    OBVIOUS
  <2> HIDE DEF m
  <2> DEFINE j == q[m + 1]
             r == RestOf(m, k)[q]
  <2>4. j \in Neurons(m + 1) /\ q \in Through(m, k, j) /\ q[m] = k
    <3>1. Turn(m, k)[q] = j
      BY <2>3 DEF Turn
    <3> QED
      BY <2>1, <2>3, <3>1, TurnFacts, PathFacts
  <2> HIDE DEF j
  <2>5. r \in Paths(m + 1, j) /\ \A o \in m + 1 .. Last : q[o] = r[o]
    BY <2>1, <2>3, <2>4, RestFacts
  <2> HIDE DEF r
  <2>6. Along(m + 1, q, error, slope, edge) \in Int
    BY <2>1, <2>2, <2>4, <2>5, AlongSame
  <2>7. slope[<<m, k>>] \in Int /\ edge[<<m, k, j>>] \in Int
    BY <2>1, <2>3, <2>4, HiddenFacts, WeightFacts DEF PathNumbers
  <2>8. Along(m, q, error, slope, edge) =
            Num(Num(slope[<<m, k>>] * edge[<<m, k, j>>]) * Along(m + 1, q, error, slope, edge))
    BY <2>1, <2>4, AlongFacts DEF j
  <2> DEFINE u == slope[<<m, k>>]
             v == edge[<<m, k, j>>]
             x == Along(m + 1, q, error, slope, edge)
  <2>9. u \in Int /\ v \in Int /\ x \in Int /\ Along(m, q, error, slope, edge) = Num(Num(u * v) * x)
    BY <2>6, <2>7, <2>8
  <2> HIDE DEF u, v, x
  <2>10. u * v \in Int
    BY <2>9
  <2>11. Num(u * v) * x \in Int
    BY <2>9, <2>10, NumType
  <2>12. Num(Num(u * v) * x) \in Int
    BY <2>11, NumType
  <2> QED
    BY <2>9, <2>12 DEF m
<1>3. \A n \in Nat : n \in T
  <2> HIDE DEF T
  <2> QED
    BY <1>1, <1>2, SetInduction
<1>4. Last - l \in Nat /\ Last - l < Last - 1 /\ Last - (Last - l) = l
  BY <1>0
<1> QED
  BY <1>3, <1>4

\* The sum over the paths of a neuron of the last layer, and of a layer before it.
LEMMA PathSumLast ==
    ASSUME NEW error, NEW slope, NEW edge, PathNumbers(error, slope, edge), NEW j \in Neurons(Last)
    PROVE  PathSum(Last, j, error, slope, edge) = Num(error[j])
<1> DEFINE D == Paths(Last, j)
           f == [p \in D |-> Along(Last, p, error, slope, edge)]
           o == [m \in Last .. Last |-> j]
<1>0. Last \in 1 .. Last /\ Last \in Last .. Last
  BY NetFacts
<1>1. D = {o} /\ IsFiniteSet(D)
  BY LastPath, FS_Singleton
<1>2. f[o] = error[j]
  <2>1. Along(Last, o, error, slope, edge) = error[o[Last]]
    <3> HIDE DEF o
    <3> QED
      BY <1>0, AlongFacts, Zenon
  <2> QED
    BY <1>0, <1>1, <2>1
<1>3. error[j] \in Int
  BY DEF PathNumbers
<1>4. PathSum(Last, j, error, slope, edge) = Num(Total(f))
  BY DEF PathSum
<1>5. f \in [D -> Int]
  BY <1>1, <1>2, <1>3
<1> HIDE DEF f, o, D
<1>6. Total(f) = Over(f, D)
  BY <1>5, OverAll
<1>7. Over(f, D) = f[o] + Over(f, D \ {o})
  BY <1>1, <1>5, OverFacts
<1>8. D \ {o} = {} /\ IsFiniteSet({})
  BY <1>1, FS_EmptySet
<1>9. Over(f, D \ {o}) = 0
  BY <1>8, OverFacts
<1> QED
  BY <1>2, <1>3, <1>4, <1>6, <1>7, <1>9

LEMMA PathSumType ==
    ASSUME NEW error, NEW slope, NEW edge, PathNumbers(error, slope, edge),
           NEW l \in 2 .. Last, NEW i \in Neurons(l)
    PROVE  /\ [p \in Paths(l, i) |-> Along(l, p, error, slope, edge)] \in [Paths(l, i) -> Int]
           /\ Total([p \in Paths(l, i) |-> Along(l, p, error, slope, edge)]) \in Int
           /\ PathSum(l, i, error, slope, edge) \in Values
<1> DEFINE f == [p \in Paths(l, i) |-> Along(l, p, error, slope, edge)]
<1>1. f \in [Paths(l, i) -> Int]
  BY AlongType
<1>2. l \in 1 .. Last
  BY NetFacts
<1>3. IsFiniteSet(Paths(l, i))
  BY <1>2, PathsAreFinite
<1>4. PathSum(l, i, error, slope, edge) = Num(Total(f))
  BY DEF PathSum
<1> HIDE DEF f
<1>5. Total(f) \in Int
  BY <1>1, <1>3, TotalFacts
<1> QED
  BY <1>1, <1>4, <1>5, NumType DEF f

\* One layer of the recursion: the paths from a neuron are sorted by their first
\* edge, and what lies behind an edge is taken out of the sum.
LEMMA PathSumStep ==
    ASSUME NEW error, NEW slope, NEW edge, PathNumbers(error, slope, edge),
           NEW l \in 2 .. Last - 1, NEW i \in Neurons(l), NEW next,
           \A j \in Neurons(l + 1) : next[j] = edge[<<l, i, j>>] * PathSum(l + 1, j, error, slope, edge)
    PROVE  /\ \A j \in Neurons(l + 1) : next[j] \in Int
           /\ PathSum(l, i, error, slope, edge) = Num(slope[<<l, i>>] * Over(next, Neurons(l + 1)))
<1> DEFINE D == Paths(l, i)
           N == Neurons(l + 1)
           f == [p \in D |-> Along(l, p, error, slope, edge)]
           u == slope[<<l, i>>]
           g == [j \in N |-> Over(f, Through(l, i, j))]
           t == [j \in N |-> u * next[j]]
<1>0. /\ l \in 1 .. Last /\ l + 1 \in 1 .. Last /\ l + 1 \in 2 .. Last /\ l < Last
      /\ l \in 1 .. Last - 1 /\ l \in Layers /\ l \in 2 .. Last
  BY NetFacts DEF Layers
<1>1. u \in Int /\ \A j \in N : edge[<<l, i, j>>] \in Int
  BY <1>0, HiddenFacts, WeightFacts DEF PathNumbers
<1>2. \A j \in N : PathSum(l + 1, j, error, slope, edge) \in Int
  BY <1>0, PathSumType, NumOfValue
<1>3. ASSUME NEW j \in N
      PROVE  next[j] \in Int
  <2> DEFINE x == edge[<<l, i, j>>]
             z == PathSum(l + 1, j, error, slope, edge)
  <2>1. x \in Int /\ z \in Int /\ next[j] = x * z
    BY <1>1, <1>2
  <2> HIDE DEF x, z
  <2> QED
    BY <2>1
<1>4. IsFiniteSet(D) /\ IsFiniteSet(N) /\ f \in [D -> Int]
  <2>1. IsFiniteSet(D) /\ IsFiniteSet(N)
    BY <1>0, PathsAreFinite, NetFacts
  <2>2. f \in [D -> Int]
    <3>1. \A p \in D : Along(l, p, error, slope, edge) \in Int
      BY <1>0, AlongType
    <3> QED
      BY <3>1
  <2> QED
    BY <2>1, <2>2
<1>5. PathSum(l, i, error, slope, edge) = Num(Over(f, D))
  <2>1. PathSum(l, i, error, slope, edge) = Num(Total(f))
    BY DEF PathSum
  <2> HIDE DEF f
  <2>2. Over(f, D) = Total(f)
    BY <1>4, OverAll
  <2> QED
    BY <2>1, <2>2
<1>6. Over(f, D) = Over(g, N)
  <2>1. \A p \in D : Turn(l, i)[p] \in N /\ f[p] \in Int
    BY <1>0, <1>4, TurnFacts
  <2>2. \A j \in N : g[j] = Over(f, Class(D, Turn(l, i), j))
    BY DEF Through
  <2> HIDE DEF D, N, f, g
  <2> QED
    BY <1>4, <2>1, <2>2, OverClasses
<1>7. ASSUME NEW j \in N
      PROVE  g[j] \in Int /\ t[j] \in Int /\ Num(g[j]) = Num(t[j])
  <2> DEFINE C == Through(l, i, j)
             E == Paths(l + 1, j)
             v == edge[<<l, i, j>>]
             a == [q \in E |-> Along(l + 1, q, error, slope, edge)]
             h == RestOf(l, i)
             n == [p \in C |-> a[h[p]]]
             k == [p \in C |-> (u * v) * n[p]]
  <2>1. v \in Int /\ u * v \in Int
    BY <1>1
  <2>2. IsFiniteSet(C) /\ IsFiniteSet(E) /\ C \subseteq D
    <3>1. C \subseteq D
      BY DEF Through, Class
    <3>2. IsFiniteSet(C)
      BY <1>4, <3>1, FS_Subset
    <3> QED
      BY <1>0, <3>1, <3>2, PathsAreFinite
  <2>3. /\ \A p \in C : p \in D /\ p[l + 1] = j /\ h[p] \in E /\ \A m \in l + 1 .. Last : h[p][m] = p[m]
        /\ \A p, q \in C : h[p] = h[q] => p = q
        /\ \A q \in E : \E p \in C : h[p] = q
    BY <1>0, RestFacts
  <2>4. a \in [E -> Int] /\ Total(a) \in Int /\ PathSum(l + 1, j, error, slope, edge) = Num(Total(a))
    BY <1>0, PathSumType DEF PathSum
  <2>5. \A p \in C : n[p] \in Int /\ k[p] = (u * v) * n[p] /\ k[p] \in Int /\ f[p] \in Int
    <3> SUFFICES ASSUME NEW p \in C
                 PROVE  n[p] \in Int /\ k[p] = (u * v) * n[p] /\ k[p] \in Int /\ f[p] \in Int
      OBVIOUS
    <3>1. n[p] = a[h[p]] /\ a[h[p]] \in Int
      BY <2>3, <2>4
    <3>2. k[p] = (u * v) * n[p] /\ f[p] \in Int
      BY <1>4, <2>2
    <3> DEFINE x == u * v
               z == n[p]
    <3>3. x \in Int /\ z \in Int /\ k[p] = x * z
      BY <2>1, <3>1, <3>2
    <3> HIDE DEF x, z
    <3>4. k[p] \in Int
      BY <3>3
    <3> QED
      BY <3>1, <3>2, <3>4
  <2>6. ASSUME NEW p \in C
        PROVE  Num(f[p]) = Num(k[p])
    <3>1. Along(l + 1, p, error, slope, edge) = Along(l + 1, h[p], error, slope, edge)
      BY <1>0, <2>3, AlongSame
    <3>2. n[p] = Along(l + 1, p, error, slope, edge)
      BY <2>3, <3>1
    <3>3. p[l] = i /\ p[l + 1] = j
      BY <1>0, <2>3, PathFacts
    <3>4. Along(l, p, error, slope, edge) =
              Num(Num(slope[<<l, p[l]>>] * edge[<<l, p[l], p[l + 1]>>]) * Along(l + 1, p, error, slope, edge))
      BY <1>0, AlongFacts
    <3>5. f[p] = Num(Num(u * v) * n[p])
      BY <2>3, <3>2, <3>3, <3>4
    <3> DEFINE x == u * v
               z == n[p]
    <3>6. x \in Int /\ z \in Int /\ k[p] = x * z /\ f[p] = Num(Num(x) * z)
      BY <2>1, <2>5, <3>5
    <3> HIDE DEF x, z
    <3>7. Num(x) \in Int /\ Num(Num(x)) = Num(x) /\ Num(Num(x) * z) = Num(x * z)
      BY <3>6, NumType, NumOfNum, NumTimes
    <3>8. Num(x) * z \in Int
      BY <3>6, <3>7
    <3>9. Num(Num(Num(x) * z)) = Num(Num(x) * z)
      BY <3>8, NumOfNum
    <3> QED
      BY <3>6, <3>7, <3>9
  <2>7. g[j] = Over(f, C)
    OBVIOUS
  <2>8. t[j] = u * next[j] /\ next[j] = v * PathSum(l + 1, j, error, slope, edge)
    OBVIOUS
  <2> HIDE DEF C, E, a, h, n, k, f, g, D, N, v, u, t
  <2>9. Num(Over(f, C)) = Num(Over(k, C))
    BY <2>2, <2>5, <2>6, NumOver
  <2>10. Over(k, C) = (u * v) * Over(n, C)
    BY <2>1, <2>2, <2>5, OverScale
  <2>11. Over(n, C) = Over(a, E)
    <3>1. \A p \in C : h[p] \in E /\ n[p] = a[h[p]]
      BY <2>3 DEF n
    <3>2. \A q \in E : a[q] \in Int
      BY <2>4
    <3> QED
      BY <2>2, <2>3, <3>1, <3>2, OverImage
  <2>12. Over(a, E) = Total(a)
    BY <2>4, OverAll
  <2> DEFINE s == Total(a)
             z == PathSum(l + 1, j, error, slope, edge)
  <2>13. s \in Int /\ z = Num(s) /\ u \in Int /\ v \in Int /\ t[j] = u * (v * z)
    BY <1>1, <2>1, <2>4, <2>8
  <2>14. Num(g[j]) = Num((u * v) * s)
    BY <2>7, <2>9, <2>10, <2>11, <2>12
  <2>15. g[j] \in Int
    BY <2>2, <2>5, <2>7, OverFacts
  <2> HIDE DEF s, z
  <2>16. z \in Int /\ Num(z) = Num(s)
    BY <2>13, NumType, NumOfNum
  <2>17. u * v \in Int /\ (u * v) * z = u * (v * z) /\ u * (v * z) \in Int
    BY <2>13, <2>16
  <2>18. Num((u * v) * s) = Num((u * v) * z)
    BY <2>13, <2>16, <2>17, NumTimes
  <2> QED
    BY <2>13, <2>14, <2>15, <2>17, <2>18
<1>8. Num(Over(g, N)) = Num(Over(t, N))
  <2> HIDE DEF g, t, N
  <2> QED
    BY <1>4, <1>7, NumOver
<1>9. Over(t, N) = u * Over(next, N)
  <2>1. \A j \in N : next[j] \in Int /\ t[j] = u * next[j]
    BY <1>3
  <2> HIDE DEF t, N, u
  <2> QED
    BY <1>1, <1>4, <2>1, OverScale
<1> QED
  BY <1>3, <1>5, <1>6, <1>8, <1>9

-----------------------------------------------------------------------------
(* The errors that are sent back.                                          *)

\* The errors of the layers that are done are sums over paths.
DeltasOK ==
    /\ pc = "hidden" => \A c \in NeuronCells : c[1] > layer => delta[c] = RefDelta(sample, c[1], c[2])
    /\ pc = "accumulate" => \A c \in NeuronCells : c[1] > 1 => delta[c] = RefDelta(sample, c[1], c[2])

LEMMA RefNumbers ==
    ASSUME SettingsOK, DataOK, Numbers(w, b), NEW s \in 1 .. Len(data)
    PROVE  /\ PathNumbers(ErrorsOf(s), SlopesOfOutput(s), Edges)
           /\ \A j \in Neurons(Last) : RefError(s, j) \in Values
           /\ \A l \in 2 .. Last : \A j \in Neurons(l) : RefDelta(s, l, j) \in Values
<1>1. ASSUME NEW j \in Neurons(Last)
      PROVE  RefError(s, j) \in Values
  <2> DEFINE o == RefOut(s)[Last][j]
             y == Target(s, j)
             k == IF loss = "mse" THEN OutputD(o) ELSE 1
  <2>1. o \in Values
    <3>1. Last \in 2 .. Last
      BY NetFacts
    <3> QED
      BY <3>1, RefOutFacts
  <2>2. y \in Int
    BY DataFacts DEF Target
  <2> HIDE DEF o, y
  <2>3. o \in Int /\ k \in Int
    BY <2>1, NumOfValue, FunctionAssumption
  <2>4. (o - y) * k \in Int
    <3> HIDE DEF k
    <3> QED
      BY <2>2, <2>3
  <2> QED
    BY <2>4, NumType DEF RefError, o, y
<1>2. ErrorsOf(s) \in [Neurons(Last) -> Int]
  BY <1>1, NumOfValue DEF ErrorsOf
<1>3. SlopesOfOutput(s) \in [HiddenCells -> Int]
  <2>1. ASSUME NEW c \in HiddenCells
        PROVE  ActD(RefOut(s)[c[1]][c[2]]) \in Int
    <3>1. c[1] \in 2 .. Last /\ c[2] \in Neurons(c[1])
      BY HiddenFacts, NetFacts
    <3>2. RefOut(s)[c[1]][c[2]] \in Values
      BY <3>1, RefOutFacts
    <3> QED
      BY <3>2, FunctionAssumption
  <2> QED
    BY <2>1 DEF SlopesOfOutput
<1>4. Edges \in [WeightCells -> Int]
  <2>1. ASSUME NEW e \in WeightCells
        PROVE  w[e] + (IF build = "serial" THEN b[<<e[1], e[3]>>] ELSE 0) \in Int
    <3>1. w[e] \in Int /\ b[<<e[1], e[3]>>] \in Int
      BY WeightFacts, BiasFacts DEF Numbers
    <3> QED
      BY <3>1
  <2> QED
    BY <2>1 DEF Edges
<1>5. PathNumbers(ErrorsOf(s), SlopesOfOutput(s), Edges)
  BY <1>2, <1>3, <1>4 DEF PathNumbers
<1>6. ASSUME NEW l \in 2 .. Last, NEW j \in Neurons(l)
      PROVE  RefDelta(s, l, j) \in Values
  BY <1>1, <1>5, PathSumType DEF RefDelta
<1> QED
  BY <1>1, <1>5, <1>6

\* The recursion of the errors.
LEMMA RefDeltaFacts ==
    ASSUME SettingsOK, DataOK, Numbers(w, b), NEW s \in 1 .. Len(data)
    PROVE  /\ \A l \in 2 .. Last : \A j \in Neurons(l) :
                 RefDelta(s, l, j) = PathSum(l, j, ErrorsOf(s), SlopesOfOutput(s), Edges)
           /\ \A l \in 2 .. Last - 1 : \A i \in Neurons(l) :
                 RefDelta(s, l, i) =
                     Num(ActD(RefOut(s)[l][i]) *
                         Over([j \in Neurons(l + 1) |-> Edges[<<l, i, j>>] * RefDelta(s, l + 1, j)], Neurons(l + 1)))
<1> DEFINE Of(l, j) == PathSum(l, j, ErrorsOf(s), SlopesOfOutput(s), Edges)
<1>0. Last \in 2 .. Last /\ Last \in Nat
  BY NetFacts
<1>1. ASSUME NEW l \in 2 .. Last, NEW j \in Neurons(l)
      PROVE  RefDelta(s, l, j) = Of(l, j)
  <2>1. CASE l # Last
    BY <2>1 DEF RefDelta
  <2>2. CASE l = Last
    <3>1. PathSum(Last, j, ErrorsOf(s), SlopesOfOutput(s), Edges) = Num(ErrorsOf(s)[j])
      BY <2>2, RefNumbers, PathSumLast
    <3>2. ErrorsOf(s)[j] = RefError(s, j) /\ RefError(s, j) \in Values
      BY <2>2, RefNumbers DEF ErrorsOf
    <3>3. Num(RefError(s, j)) = RefError(s, j)
      BY <3>2, NumOfValue
    <3>4. RefDelta(s, Last, j) = RefError(s, j)
      BY DEF RefDelta
    <3> QED
      BY <2>2, <3>1, <3>2, <3>3, <3>4
  <2> QED
    BY <2>1, <2>2
<1>2. ASSUME NEW l \in 2 .. Last - 1, NEW i \in Neurons(l)
      PROVE  RefDelta(s, l, i) =
                 Num(ActD(RefOut(s)[l][i]) *
                     Over([j \in Neurons(l + 1) |-> Edges[<<l, i, j>>] * RefDelta(s, l + 1, j)], Neurons(l + 1)))
  <2> DEFINE next == [j \in Neurons(l + 1) |-> Edges[<<l, i, j>>] * RefDelta(s, l + 1, j)]
  <2>1. l \in 2 .. Last /\ l + 1 \in 2 .. Last
    BY <1>0
  <2>2. \A j \in Neurons(l + 1) : next[j] = Edges[<<l, i, j>>] * Of(l + 1, j)
    BY <1>1, <2>1
  <2>3. SlopesOfOutput(s)[<<l, i>>] = ActD(RefOut(s)[l][i])
    <3>1. <<l, i>> \in HiddenCells
      BY HiddenFacts
    <3> QED
      BY <3>1 DEF SlopesOfOutput
  <2> HIDE DEF next
  <2>4. Of(l, i) = Num(SlopesOfOutput(s)[<<l, i>>] * Over(next, Neurons(l + 1)))
    BY <2>2, RefNumbers, PathSumStep
  <2> QED
    BY <1>1, <2>1, <2>3, <2>4 DEF next
<1> QED
  BY <1>1, <1>2

\* The references depend on the weights, the samples and the settings alone.
LEMMA RefStays ==
    ASSUME UNCHANGED <<w, b, data, build, loss>>
    PROVE  /\ \A s : RefOut(s)' = RefOut(s)
           /\ \A s, l, j : RefDelta(s, l, j)' = RefDelta(s, l, j)
<1>1. \A s : RefOut(s)' = RefOut(s)
  BY DEF RefOut
<1>2. \A s, j : RefError(s, j)' = RefError(s, j)
  BY <1>1 DEF RefError, Target
<1>3. \A s : ErrorsOf(s)' = ErrorsOf(s) /\ SlopesOfOutput(s)' = SlopesOfOutput(s)
  BY <1>1, <1>2 DEF ErrorsOf, SlopesOfOutput
<1>4. Edges' = Edges
  BY DEF Edges
<1> QED
  BY <1>1, <1>2, <1>3, <1>4 DEF RefDelta

LEMMA OutputDeltaIsRef == ASSUME BackInv, OutputDelta
                          PROVE  DeltasOK'
<1>1. /\ pc = "output" /\ pc' = "hidden" /\ layer' = Last - 1 /\ sample' = sample
      /\ UNCHANGED <<w, b, data, build, loss>>
  BY DEF OutputDelta, settings
<1>2. sample \in 1 .. Len(data) /\ Last \in Nat
  BY <1>1, NetFacts, DataFacts DEF BackInv, PlaceOK
<1>3. ASSUME NEW c \in NeuronCells, c[1] > Last - 1
      PROVE  delta'[c] = RefDelta(sample, c[1], c[2])
  <2>1. c[1] = Last /\ c = <<Last, c[2]>> /\ c[2] \in Neurons(Last)
    BY <1>2, <1>3, NeuronFacts
  <2>2. out[c] = RefOut(sample)[Last][c[2]] /\ out[<<Last, c[2]>>] = out[c]
    BY <1>1, <2>1 DEF BackInv, OutOK
  <2> DEFINE o == out[c]
             e == o - Target(sample, c[2])
  <2>3. o \in Int /\ Target(sample, c[2]) \in Int
    BY <1>2, <2>1, DataFacts DEF BackInv, NumbersOK, NeuronsOK, Target
  <2>4. delta'[c] = IF loss = "mse" THEN Num(e * OutputD(o)) ELSE Num(e)
    BY <2>1, <2>2 DEF OutputDelta
  <2>5. RefDelta(sample, c[1], c[2]) = Num(e * IF loss = "mse" THEN OutputD(o) ELSE 1)
    BY <2>1, <2>2 DEF RefDelta, RefError
  <2>6. e \in Int /\ e * 1 = e
    BY <2>3
  <2> HIDE DEF e, o
  <2> QED
    BY <2>4, <2>5, <2>6
<1>4. \A c \in NeuronCells : c[1] > layer' => delta'[c] = RefDelta(sample, c[1], c[2])'
  BY <1>1, <1>3, RefStays
<1> QED
  BY <1>1, <1>4 DEF DeltasOK

\* What the loop adds up for a neuron is the sum over its edges.
LEMMA HiddenSumIsEdges ==
    ASSUME BackInv, DeltasOK, pc = "hidden", NEW i \in Neurons(layer)
    PROVE  HiddenSum(i) = Over([j \in Neurons(layer + 1) |->
                                   Edges[<<layer, i, j>>] * RefDelta(sample, layer + 1, j)], Neurons(layer + 1))
<1> DEFINE N == Neurons(layer + 1)
           d(j) == delta[<<layer + 1, j>>]
           f == [j \in N |-> w[<<layer, i, j>>] * d(j)]
           g == [j \in N |-> b[<<layer, j>>] * d(j)]
           next == [j \in N |-> Edges[<<layer, i, j>>] * RefDelta(sample, layer + 1, j)]
<1>1. layer \in Layers /\ layer + 1 \in 1 .. Last /\ layer + 1 > layer
  BY NetFacts DEF BackInv, PlaceOK, Layers
<1>2. \A j \in N : /\ w[<<layer, i, j>>] \in Int /\ b[<<layer, j>>] \in Int /\ d(j) \in Int
                   /\ d(j) = RefDelta(sample, layer + 1, j)
  <2> TAKE j \in N
  <2>1. <<layer + 1, j>> \in NeuronCells
    BY <1>1, NeuronFacts
  <2>2. delta[<<layer + 1, j>>] = RefDelta(sample, layer + 1, j)
    BY <1>1, <2>1 DEF DeltasOK
  <2> QED
    BY <1>1, <2>1, <2>2, WeightFacts, BiasFacts DEF BackInv, NumbersOK, Numbers, NeuronsOK
<1>3. \A j \in N : Edges[<<layer, i, j>>] = w[<<layer, i, j>>] + IF build = "serial" THEN b[<<layer, j>>] ELSE 0
  BY <1>1, WeightFacts DEF Edges
<1>4. \A j \in N : /\ f[j] \in Int /\ g[j] \in Int
                   /\ next[j] = f[j] + IF build = "serial" THEN g[j] ELSE 0
  <2> SUFFICES ASSUME NEW j \in N
               PROVE  /\ f[j] \in Int /\ g[j] \in Int
                      /\ next[j] = f[j] + IF build = "serial" THEN g[j] ELSE 0
    OBVIOUS
  <2> DEFINE x == w[<<layer, i, j>>]
             y == b[<<layer, j>>]
             z == d(j)
  <2>1. x \in Int /\ y \in Int /\ z \in Int
    BY <1>2
  <2>2. next[j] = (x + IF build = "serial" THEN y ELSE 0) * z /\ f[j] = x * z /\ g[j] = y * z
    BY <1>2, <1>3
  <2> HIDE DEF x, y, z, f, g, next
  <2>3. f[j] \in Int /\ g[j] \in Int /\ (x + y) * z = x * z + y * z /\ (x + 0) * z = x * z + 0
    BY <2>1, <2>2
  <2> QED
    BY <2>2, <2>3
<1>5. IsFiniteSet(N)
  BY <1>1, NetFacts
<1>6. Backward(i) = Sum(f, Net[layer + 1]) /\ BiasTerm = Sum(g, Net[layer + 1])
  BY DEF Backward, BiasTerm
<1>7. next = [j \in N |-> Edges[<<layer, i, j>>] * RefDelta(sample, layer + 1, j)]
  OBVIOUS
<1> HIDE DEF f, g, next
<1>8. Backward(i) = Over(f, N) /\ BiasTerm = Over(g, N)
  BY <1>1, <1>4, <1>6, LayerSum
<1>9. HiddenSum(i) = Over(next, N)
  <2>1. CASE build = "serial"
    <3>1. \A j \in N : f[j] \in Int /\ g[j] \in Int /\ next[j] = f[j] + g[j]
      BY <1>4, <2>1
    <3>2. Over(next, N) = Over(f, N) + Over(g, N)
      BY <1>5, <3>1, OverPlus
    <3> QED
      BY <1>8, <2>1, <3>2 DEF HiddenSum
  <2>2. CASE build # "serial"
    <3>1. \A j \in N : f[j] = next[j]
      BY <1>4, <2>2
    <3>2. Over(f, N) = Over(next, N)
      BY <3>1, OverSame
    <3>3. Backward(i) \in Int
      BY HiddenSumIsInt
    <3> QED
      BY <1>8, <2>2, <3>2, <3>3 DEF HiddenSum
  <2> QED
    BY <2>1, <2>2
<1> QED
  BY <1>7, <1>9

LEMMA HiddenDeltaIsRef == ASSUME BackInv, DeltasOK, HiddenDelta
                          PROVE  DeltasOK'
<1>1. pc = "hidden" /\ sample' = sample /\ UNCHANGED <<w, b, data, build, loss>>
  BY DEF HiddenDelta, settings
<1>2. sample \in 1 .. Len(data) /\ Last \in Nat /\ layer \in 1 .. Last - 1
  BY <1>1, NetFacts, DataFacts DEF BackInv, PlaceOK
<1>3. CASE EndHidden
  <2>1. pc' = "accumulate" /\ delta' = delta /\ layer = 1
    BY <1>3 DEF HiddenDelta, EndHidden
  <2>2. \A c \in NeuronCells : c[1] > 1 => delta'[c] = RefDelta(sample, c[1], c[2])'
    BY <1>1, <2>1, RefStays DEF DeltasOK
  <2> QED
    BY <2>1, <2>2 DEF DeltasOK
<1>4. CASE ~EndHidden
  <2>1. /\ pc' = "hidden" /\ layer' = layer - 1 /\ layer \in 2 .. Last - 1
        /\ delta' = [c \in NeuronCells |->
                        IF c[1] = layer THEN Num(ActD(out[c]) * Num(HiddenSum(c[2]))) ELSE delta[c]]
    BY <1>1, <1>2, <1>4 DEF HiddenDelta, EndHidden
  <2>2. ASSUME NEW c \in NeuronCells, c[1] > layer - 1
        PROVE  delta'[c] = RefDelta(sample, c[1], c[2])
    <3>1. c[1] \in 1 .. Last /\ c[2] \in Neurons(c[1])
      BY NeuronFacts
    <3>2. CASE c[1] # layer
      <4>1. c[1] > layer
        BY <1>2, <2>2, <3>1, <3>2
      <4> QED
        BY <1>1, <2>1, <3>2, <4>1 DEF DeltasOK
    <3>3. CASE c[1] = layer
      <4> DEFINE i == c[2]
                 next == [j \in Neurons(layer + 1) |-> Edges[<<layer, i, j>>] * RefDelta(sample, layer + 1, j)]
                 x == ActD(out[c])
                 z == Over(next, Neurons(layer + 1))
      <4>1. i \in Neurons(layer)
        BY <3>1, <3>3
      <4>2. HiddenSum(i) = z /\ z \in Int
        BY <1>1, <4>1, HiddenSumIsEdges, HiddenSumIsInt
      <4>3. out[c] = RefOut(sample)[layer][i] /\ x \in Int
        BY <1>1, <2>1, <3>3, OutValues, FunctionAssumption DEF BackInv, OutOK
      <4>4. RefDelta(sample, layer, i) = Num(x * z)
        BY <1>2, <2>1, <4>1, <4>3, RefDeltaFacts DEF BackInv, NumbersOK
      <4>5. delta'[c] = Num(x * Num(z))
        BY <2>1, <3>3, <4>2
      <4> HIDE DEF x, z
      <4>6. Num(z) \in Int /\ Num(Num(z)) = Num(z)
        BY <4>2, NumType, NumOfNum
      <4>7. Num(x * Num(z)) = Num(x * z)
        BY <4>2, <4>3, <4>6, NumTimes
      <4> QED
        BY <3>3, <4>4, <4>5, <4>7
    <3> QED
      BY <3>2, <3>3
  <2>3. \A c \in NeuronCells : c[1] > layer' => delta'[c] = RefDelta(sample, c[1], c[2])'
    BY <1>1, <2>1, <2>2, RefStays
  <2> QED
    BY <2>1, <2>3 DEF DeltasOK
<1> QED
  BY <1>3, <1>4

-----------------------------------------------------------------------------
(* The gradients of a batch.                                               *)

\* What is added up is that of the samples of the batch so far.
TermsOf(c) == [s \in BatchSamples |-> RefTerm(s, c)]
GradientsOK ==
    /\ \A c \in BiasCells : db[c] = Num(Total(TermsOf(c)))
    /\ \A c \in WeightCells : dw[c] = Num(Total(TermsOf(c)))

\* No cell is both a weight and a bias.
LEMMA CellsDiffer == WeightCells \cap BiasCells = {}
<1> SUFFICES ASSUME NEW c \in WeightCells, c \in BiasCells
             PROVE  FALSE
  OBVIOUS
<1>1. c = <<c[1], c[2], c[3]>> /\ c = <<c[1], c[2]>>
  BY WeightFacts, BiasFacts
<1>2. \A x, y, z : Len(<<x, y, z>>) = 3 /\ Len(<<x, y>>) = 2
  OBVIOUS
<1>3. Len(c) = 3 /\ Len(c) = 2
  <2>1. Len(<<c[1], c[2], c[3]>>) = 3 /\ Len(<<c[1], c[2]>>) = 2
    BY <1>2, Zenon
  <2> QED
    BY <1>1, <2>1, Zenon
<1> QED
  BY <1>3

LEMMA BatchSamplesFacts ==
    ASSUME BackInv
    PROVE  /\ BatchSamples \subseteq 1 .. Len(data) /\ IsFiniteSet(BatchSamples)
           /\ Cardinality(BatchSamples) = batch
           /\ batch = 0 => BatchSamples = {}
<1>1. sample \in 1 .. Len(data) + 1 /\ batch \in Nat /\ batch < sample /\ Len(data) \in Nat
  BY DataFacts, BatchFacts DEF BackInv, PlaceOK
<1>2. sample - batch \in Int /\ sample - 1 \in Int
  BY <1>1
<1>3. /\ IsFiniteSet(sample - batch .. sample - 1)
      /\ Cardinality(sample - batch .. sample - 1) =
             IF sample - batch > sample - 1 THEN 0 ELSE (sample - 1) - (sample - batch) + 1
  BY <1>2, FS_Interval
<1> QED
  BY <1>1, <1>3 DEF BatchSamples

LEMMA RefTermType ==
    ASSUME SettingsOK, DataOK, Numbers(w, b), NEW s \in 1 .. Len(data), NEW c \in Cells
    PROVE  RefTerm(s, c) \in Int
<1>1. CASE c \in BiasCells
  <2>1. c[1] + 1 \in 2 .. Last /\ c[2] \in Neurons(c[1] + 1)
    BY <1>1, BiasFacts, NetFacts DEF Layers
  <2>2. RefDelta(s, c[1] + 1, c[2]) \in Int
    BY <2>1, RefNumbers, NumOfValue
  <2> QED
    BY <1>1, <2>2 DEF RefTerm
<1>2. CASE c \notin BiasCells
  <2> DEFINE x == RefDelta(s, c[1] + 1, c[3])
             z == RefOut(s)[c[1]][c[2]]
  <2>1. c \in WeightCells
    BY <1>2 DEF Cells
  <2>2. c[1] \in 1 .. Last /\ c[1] + 1 \in 2 .. Last /\ c[2] \in Neurons(c[1]) /\ c[3] \in Neurons(c[1] + 1)
    BY <2>1, WeightFacts, NetFacts DEF Layers
  <2>3. x \in Int
    BY <2>2, RefNumbers, NumOfValue
  <2>4. z \in Int
    BY <2>2, RefOutFacts
  <2>5. RefTerm(s, c) = x * z
    BY <1>2 DEF RefTerm
  <2> HIDE DEF x, z
  <2> QED
    BY <2>3, <2>4, <2>5
<1> QED
  BY <1>1, <1>2

\* Nothing is added up before the first sample.
LEMMA EmptyBatch == ASSUME NEW c, BatchSamples = {}
                    PROVE  Total(TermsOf(c)) = 0
<1>1. TermsOf(c) \in [{} -> Int] /\ IsFiniteSet({})
  BY FS_EmptySet DEF TermsOf
<1> QED
  BY <1>1, TotalFacts

LEMMA GradientsStay ==
    ASSUME GradientsOK, UNCHANGED <<w, b, data, build, loss, dw, db, sample, batch>>
    PROVE  GradientsOK'
<1>1. BatchSamples' = BatchSamples
  BY DEF BatchSamples
<1>2. \A s, c : RefTerm(s, c)' = RefTerm(s, c)
  BY RefStays DEF RefTerm
<1>3. \A c : TermsOf(c)' = TermsOf(c)
  BY <1>1, <1>2 DEF TermsOf
<1> QED
  BY <1>3 DEF GradientsOK

\* Between batches the gradients are zero.
LEMMA NoGradients ==
    ASSUME batch' = 0, sample' \in Int,
           \A c \in BiasCells : db'[c] = 0, \A c \in WeightCells : dw'[c] = 0
    PROVE  GradientsOK'
<1>1. BatchSamples' = {}
  <2>1. BatchSamples' = (sample' - 0) .. (sample' - 1)
    BY DEF BatchSamples
  <2>2. \A n \in Int : (n - 0) .. (n - 1) = {}
    OBVIOUS
  <2> QED
    BY <2>1, <2>2
<1>2. \A c : Total(TermsOf(c))' = 0
  <2> TAKE c
  <2>1. TermsOf(c)' \in [{} -> Int] /\ IsFiniteSet({})
    BY <1>1, FS_EmptySet DEF TermsOf
  <2>2. Total(TermsOf(c)') = 0
    BY <2>1, TotalFacts
  <2> QED
    BY <2>2
<1> QED
  BY <1>2, ZeroIsNum DEF GradientsOK

LEMMA GradientsAreZero ==
    ASSUME BackInv, GradientsOK, batch = 0
    PROVE  (\A c \in BiasCells : db[c] = 0) /\ (\A c \in WeightCells : dw[c] = 0)
<1>1. BatchSamples = {}
  BY BatchSamplesFacts
<1>2. \A c : Total(TermsOf(c)) = 0
  BY <1>1, EmptyBatch
<1> QED
  BY <1>2, ZeroIsNum DEF GradientsOK

LEMMA AccumulateIsRef == ASSUME BackInv, DeltasOK, GradientsOK, Accumulate
                         PROVE  GradientsOK'
<1>1. /\ pc = "accumulate" /\ sample' = sample + 1 /\ batch' = batch + 1
      /\ UNCHANGED <<w, b, data, build, loss>>
      /\ db' = [c \in BiasCells |-> Num(db[c] + delta[<<c[1] + 1, c[2]>>])]
      /\ dw' = [e \in WeightCells |-> Num(dw[e] + delta[<<e[1] + 1, e[3]>>] * out[<<e[1], e[2]>>])]
  BY DEF Accumulate, settings
<1>2. sample \in 1 .. Len(data) /\ batch \in Nat /\ batch < sample /\ Len(data) \in Nat
  BY <1>1, DataFacts, BatchFacts DEF BackInv, PlaceOK
<1> DEFINE S == BatchSamples
<1>3. BatchSamples' = S \cup {sample} /\ sample \notin S
  <2>1. BatchSamples' = ((sample + 1) - (batch + 1)) .. ((sample + 1) - 1)
    BY <1>1 DEF BatchSamples
  <2>2. BatchSamples = (sample - batch) .. (sample - 1)
    BY DEF BatchSamples
  <2>3. ((sample + 1) - (batch + 1)) .. ((sample + 1) - 1) = ((sample - batch) .. (sample - 1)) \cup {sample}
    BY <1>2
  <2> QED
    BY <1>2, <2>1, <2>2, <2>3
<1>4. S \subseteq 1 .. Len(data) /\ IsFiniteSet(S)
  BY BatchSamplesFacts
<1>5. IsFiniteSet(BatchSamples') /\ BatchSamples' \subseteq 1 .. Len(data)
  BY <1>2, <1>3, <1>4, FS_AddElement
<1>6. \A s, c : RefTerm(s, c)' = RefTerm(s, c)
  BY <1>1, RefStays DEF RefTerm
\* One more term.
<1>7. ASSUME NEW c \in Cells
      PROVE  /\ Total(TermsOf(c)) \in Int /\ RefTerm(sample, c) \in Int
             /\ Total(TermsOf(c))' = RefTerm(sample, c) + Total(TermsOf(c))
  <2> DEFINE E == S \cup {sample}
             f == [s \in E |-> RefTerm(s, c)]
             g == TermsOf(c)
  <2>0. BatchSamples' = E /\ IsFiniteSet(E) /\ E \subseteq 1 .. Len(data)
    BY <1>3, <1>5
  <2>1. \A s \in 1 .. Len(data) : RefTerm(s, c) \in Int
    BY RefTermType DEF BackInv, NumbersOK
  <2>2. TermsOf(c)' = f
    BY <1>6, <2>0 DEF TermsOf
  <2>3. f \in [E -> Int] /\ sample \in E /\ f[sample] = RefTerm(sample, c)
    BY <2>0, <2>1
  <2>4. [s \in E \ {sample} |-> f[s]] = g
    <3>1. E \ {sample} = S
      BY <1>3
    <3>2. \A s \in S : f[s] = RefTerm(s, c)
      BY <1>3
    <3>3. [s \in S |-> f[s]] = [s \in S |-> RefTerm(s, c)]
      BY <3>2
    <3> QED
      BY <3>1, <3>3 DEF TermsOf
  <2>5. g \in [S -> Int]
    BY <1>4, <2>1 DEF TermsOf
  <2> HIDE DEF f, g, S, E
  <2>6. Total(g) \in Int
    BY <1>4, <2>5, TotalFacts
  <2>7. Total(f) = f[sample] + Total([s \in E \ {sample} |-> f[s]])
    <3>1. \A x \in E : Total(f) = f[x] + Total([s \in E \ {x} |-> f[s]])
      BY <2>0, <2>3, TotalFacts, Zenon
    <3> QED
      BY <2>3, <3>1, Zenon
  <2>8. Total(f) = RefTerm(sample, c) + Total(g)
    BY <2>3, <2>4, <2>7
  <2>9. Total(TermsOf(c))' = Total(f)
    BY <2>2
  <2> QED
    BY <1>2, <2>1, <2>6, <2>8, <2>9 DEF g
<1>8. ASSUME NEW c \in BiasCells
      PROVE  db'[c] = Num(Total(TermsOf(c))')
  <2> DEFINE x == delta[<<c[1] + 1, c[2]>>]
             z == Total(TermsOf(c))
  <2>1. c[1] + 1 \in 2 .. Last /\ c[1] + 1 \in 1 .. Last /\ c[2] \in Neurons(c[1] + 1) /\ c \in Cells
    BY BiasFacts, NetFacts DEF Layers, Cells
  <2>2. x = RefTerm(sample, c)
    <3>1. <<c[1] + 1, c[2]>> \in NeuronCells
      BY <2>1, NeuronFacts
    <3>2. x = RefDelta(sample, c[1] + 1, c[2])
      BY <1>1, <2>1, <3>1 DEF DeltasOK
    <3> QED
      BY <3>2 DEF RefTerm
  <2>3. x \in Int /\ z \in Int /\ Total(TermsOf(c))' = x + z
    BY <1>7, <2>1, <2>2
  <2>4. db'[c] = Num(Num(z) + x)
    BY <1>1 DEF GradientsOK
  <2> HIDE DEF x, z
  <2>5. Num(z) \in Int /\ Num(Num(z)) = Num(z)
    BY <2>3, NumType, NumOfNum
  <2>6. Num(Num(z) + x) = Num(z + x) /\ z + x = x + z
    BY <2>3, <2>5, NumPlus
  <2> QED
    BY <2>3, <2>4, <2>6
<1>9. ASSUME NEW c \in WeightCells
      PROVE  dw'[c] = Num(Total(TermsOf(c))')
  <2> DEFINE x == delta[<<c[1] + 1, c[3]>>]
             o == out[<<c[1], c[2]>>]
             z == Total(TermsOf(c))
  <2>1. /\ c[1] + 1 \in 2 .. Last /\ c[1] + 1 \in 1 .. Last /\ c[3] \in Neurons(c[1] + 1)
        /\ c[1] \in 1 .. Last /\ c[2] \in Neurons(c[1]) /\ c \in Cells /\ c \notin BiasCells
    BY WeightFacts, NetFacts, CellsDiffer DEF Layers, Cells
  <2>2. x * o = RefTerm(sample, c)
    <3>1. <<c[1] + 1, c[3]>> \in NeuronCells /\ <<c[1], c[2]>> \in NeuronCells
      BY <2>1, NeuronFacts
    <3>2. x = RefDelta(sample, c[1] + 1, c[3])
      BY <1>1, <2>1, <3>1 DEF DeltasOK
    <3>3. o = RefOut(sample)[c[1]][c[2]]
      BY <1>1, <3>1 DEF BackInv, OutOK
    <3> QED
      BY <2>1, <3>2, <3>3 DEF RefTerm
  <2>3. x * o \in Int /\ z \in Int /\ Total(TermsOf(c))' = x * o + z
    BY <1>7, <2>1, <2>2
  <2>4. dw'[c] = Num(Num(z) + x * o)
    BY <1>1 DEF GradientsOK
  <2> DEFINE t == x * o
  <2>5. t \in Int /\ z \in Int /\ Total(TermsOf(c))' = t + z /\ dw'[c] = Num(Num(z) + t)
    BY <2>3, <2>4
  <2> HIDE DEF t, x, o, z
  <2>6. Num(z) \in Int /\ Num(Num(z)) = Num(z)
    BY <2>5, NumType, NumOfNum
  <2>7. Num(Num(z) + t) = Num(z + t) /\ z + t = t + z
    BY <2>5, <2>6, NumPlus
  <2> QED
    BY <2>5, <2>7
<1> QED
  BY <1>8, <1>9 DEF GradientsOK

\* When a batch is complete, the mean gradient is that of its samples.
LEMMA GradientIsRef ==
    ASSUME BackInv, GradientsOK, pc = "update", NEW c \in Cells
    PROVE  Gradient(c) = RefGradient(c)
<1> DEFINE t == Total(TermsOf(c))
           k == Inverses[batch % Prime]
<1>1. batch \in 1 .. Prime - 1 /\ Prime \in Nat
  BY BatchFacts, PrimeAssumption DEF BackInv, PlaceOK
<1>2. batch % Prime # 0 /\ batch \in Int
  BY <1>1
<1>3. Cardinality(BatchSamples) = batch
  BY BatchSamplesFacts
<1>4. t \in Int
  <2>1. \A s \in BatchSamples : RefTerm(s, c) \in Int
    BY RefTermType, BatchSamplesFacts DEF BackInv, NumbersOK
  <2>2. TermsOf(c) \in [BatchSamples -> Int] /\ IsFiniteSet(BatchSamples)
    BY <2>1, BatchSamplesFacts DEF TermsOf
  <2> QED
    BY <2>2, TotalFacts
<1>5. (IF c \in BiasCells THEN db[c] ELSE dw[c]) = Num(t)
  BY DEF GradientsOK, Cells
<1>6. RefGradient(c) = Quotient(t, batch) /\ Gradient(c) = Quotient(Num(t), batch)
  BY <1>3, <1>5 DEF RefGradient, Gradient, TermsOf
<1>7. k \in Int
  BY <1>2, QuotientFacts
<1> HIDE DEF t, k
<1>8. Num(t) \in Int /\ Num(Num(t)) = Num(t)
  BY <1>4, NumType, NumOfNum
<1>9. Num(Num(t) * k) = Num(t * k)
  BY <1>4, <1>7, <1>8, NumTimes
<1> QED
  BY <1>6, <1>9 DEF Quotient, k
=============================================================================
