------------------------------ MODULE SumProofs ------------------------------
(***************************************************************************)
(* What the sums are: induction over numbers and over finite sets, for a   *)
(* property given as the set of what has it; how a sum grows by a term;    *)
(* that the sum over a finite domain does not depend on the order.         *)
(***************************************************************************)
EXTENDS Sums, FiniteSetTheorems, WellFoundedInduction, TLAPS

\* A set of numbers has a least one.
LEMMA NatMinimum == ASSUME NEW S, S \subseteq Nat, S # {}
                    PROVE  \E m \in S : \A l \in S : m <= l
<1>1. PICK m \in S : \A l \in S : ~(<<l, m>> \in OpToRel(<, Nat))
  BY NatLessThanWellFounded, WFMin
<1>2. \A l \in S : ~(l < m)
  BY <1>1 DEF OpToRel
<1> QED
  BY <1>2

\* Induction, for a property given as the set of the numbers that have it.
LEMMA SetInduction == ASSUME NEW T, 0 \in T, \A m \in Nat : m \in T => m + 1 \in T
                      PROVE  Nat \subseteq T
<1> DEFINE Bad == Nat \ T
<1> SUFFICES ASSUME Bad # {}
             PROVE  FALSE
  OBVIOUS
<1>1. PICK x \in Bad : \A y \in Bad : x <= y
  BY NatMinimum
<1>2. x # 0 /\ x - 1 \in Nat /\ ~(x <= x - 1) /\ (x - 1) + 1 = x
  OBVIOUS
<1>3. x - 1 \in T
  BY <1>1, <1>2
<1> QED
  BY <1>2, <1>3

\* The sums up to n, which Sum defines by what they have to satisfy.
SumsUpTo(f, n, s) == s = [m \in 0 .. n |-> IF m = 0 THEN 0 ELSE s[m - 1] + f[m]]

LEMMA SumsExist == ASSUME NEW f, NEW n \in Nat
                   PROVE  \E s : SumsUpTo(f, n, s) /\ Sum(f, n) = s[n]
<1> DEFINE T == {m \in Nat : \E s : SumsUpTo(f, m, s)}
<1>1. 0 \in T
  <2>1. SumsUpTo(f, 0, [m \in 0 .. 0 |-> 0])
    BY DEF SumsUpTo
  <2> QED
    BY <2>1
<1>2. ASSUME NEW m \in Nat, m \in T
      PROVE  m + 1 \in T
  <2>1. PICK s : SumsUpTo(f, m, s)
    BY <1>2
  <2> DEFINE t == [l \in 0 .. m + 1 |-> IF l = m + 1 THEN s[m] + f[m + 1] ELSE s[l]]
  <2>2. \A l \in 0 .. m + 1 : t[l] = IF l = 0 THEN 0 ELSE t[l - 1] + f[l]
    BY <2>1 DEF SumsUpTo
  <2>3. SumsUpTo(f, m + 1, t)
    BY <2>2 DEF SumsUpTo
  <2> QED
    BY <2>3
<1>3. n \in T
  <2> HIDE DEF T
  <2> QED
    BY <1>1, <1>2, SetInduction
<1>4. SumsUpTo(f, n, CHOOSE s : SumsUpTo(f, n, s))
  BY <1>3
<1> QED
  BY <1>4 DEF Sum, SumsUpTo

LEMMA SumsAgree == ASSUME NEW f, NEW n \in Nat, NEW s, NEW t,
                          SumsUpTo(f, n, s), SumsUpTo(f, n + 1, t)
                   PROVE  s[n] = t[n]
<1> DEFINE T == {m \in Nat : m <= n => s[m] = t[m]}
<1>1. 0 \in T
  BY DEF SumsUpTo
<1>2. \A m \in Nat : m \in T => m + 1 \in T
  <2> SUFFICES ASSUME NEW m \in Nat, m \in T, m + 1 <= n
               PROVE  s[m + 1] = t[m + 1]
    OBVIOUS
  <2>1. s[m] = t[m] /\ m + 1 \in 0 .. n /\ m + 1 \in 0 .. n + 1 /\ m + 1 # 0 /\ (m + 1) - 1 = m
    OBVIOUS
  <2>2. s[m + 1] = s[m] + f[m + 1] /\ t[m + 1] = t[m] + f[m + 1]
    BY <2>1 DEF SumsUpTo
  <2> QED
    BY <2>1, <2>2
<1>3. n \in T
  <2> HIDE DEF T
  <2> QED
    BY <1>1, <1>2, SetInduction
<1> QED
  BY <1>3

\* What a sum is: a loop that adds up.
LEMMA SumFacts == ASSUME NEW f
                  PROVE  /\ Sum(f, 0) = 0
                         /\ \A n \in Nat : Sum(f, n + 1) = Sum(f, n) + f[n + 1]
<1>1. Sum(f, 0) = 0
  BY SumsExist DEF SumsUpTo
<1>2. ASSUME NEW n \in Nat
      PROVE  Sum(f, n + 1) = Sum(f, n) + f[n + 1]
  <2>1. PICK s : SumsUpTo(f, n, s) /\ Sum(f, n) = s[n]
    BY SumsExist
  <2>2. PICK t : SumsUpTo(f, n + 1, t) /\ Sum(f, n + 1) = t[n + 1]
    <3>1. n + 1 \in Nat
      OBVIOUS
    <3> QED
      BY <3>1, SumsExist
  <2>3. t[n + 1] = t[n] + f[n + 1]
    <3>1. n + 1 \in 0 .. n + 1 /\ n + 1 # 0 /\ (n + 1) - 1 = n
      OBVIOUS
    <3> QED
      BY <2>2, <3>1 DEF SumsUpTo
  <2> QED
    BY <2>1, <2>2, <2>3, SumsAgree
<1> QED
  BY <1>1, <1>2

-----------------------------------------------------------------------------
(* Sums over a finite domain.                                              *)

\* Induction over the subsets of a finite set: what all of its elements can be
\* taken from.
LEMMA SubsetInduction ==
    ASSUME NEW D, IsFiniteSet(D), NEW T,
           \A S \in SUBSET D : (\A x \in S : S \ {x} \in T) => S \in T
    PROVE  SUBSET D \subseteq T
<1> DEFINE Bad == (SUBSET D) \ T
<1> SUFFICES ASSUME Bad # {}
             PROVE  FALSE
  OBVIOUS
<1>1. IsWellFoundedOn(StrictSubsetOrdering(D), SUBSET D)
  <2>1. FiniteSubsetsOf(D) = SUBSET D
    BY FS_FiniteSubsetsOfFinite
  <2>2. IsWellFoundedOn(StrictSubsetOrdering(D), FiniteSubsetsOf(D))
    BY FS_StrictSubsetOrderingWellFounded
  <2> QED
    BY <2>1, <2>2, Zenon
<1>2. PICK S \in Bad : \A U \in Bad : ~(<<U, S>> \in StrictSubsetOrdering(D))
  BY <1>1, WFMin
<1>3. ASSUME NEW x \in S, S \ {x} \in Bad
      PROVE  FALSE
  <2>1. S \ {x} \in SUBSET D /\ S \in SUBSET D /\ S \ {x} \subseteq S /\ S \ {x} # S
    OBVIOUS
  <2>2. <<S \ {x}, S>> \in StrictSubsetOrdering(D)
    BY <2>1 DEF StrictSubsetOrdering
  <2> QED
    BY <1>2, <1>3, <2>2
<1> QED
  BY <1>2, <1>3

\* The element that Total takes first.
AnyOf(S) == CHOOSE c \in S : TRUE

LEMMA AnyIsElement == ASSUME NEW S, S # {}
                      PROVE  AnyOf(S) \in S
  BY Zenon DEF AnyOf

\* The totals over the subsets of D, which Total defines by what they satisfy.
TotalsOver(f, D, s) ==
    s = [S \in SUBSET D |-> IF S = {} THEN 0 ELSE f[AnyOf(S)] + s[S \ {AnyOf(S)}]]

LEMMA TotalsExist == ASSUME NEW f, NEW D, IsFiniteSet(D)
                     PROVE  \E s : TotalsOver(f, D, s)
<1> DEFINE Small(n) == {S \in SUBSET D : Cardinality(S) <= n}
           Fits(n, s) == s = [S \in Small(n) |-> IF S = {} THEN 0 ELSE f[AnyOf(S)] + s[S \ {AnyOf(S)}]]
           T == {n \in Nat : \E s : Fits(n, s)}
<1>0. \A S \in SUBSET D : /\ IsFiniteSet(S) /\ Cardinality(S) \in Nat /\ Cardinality(S) <= Cardinality(D)
                          /\ Cardinality(S) = 0 <=> S = {}
                          /\ S # {} => /\ S \ {AnyOf(S)} \in SUBSET D
                                       /\ Cardinality(S \ {AnyOf(S)}) = Cardinality(S) - 1
  <2> TAKE S \in SUBSET D
  <2>1. IsFiniteSet(S) /\ Cardinality(S) <= Cardinality(D)
    BY FS_Subset
  <2>2. Cardinality(S) \in Nat /\ (Cardinality(S) = 0 <=> S = {})
    BY <2>1, FS_CardinalityType, FS_EmptySet
  <2>3. S # {} => Cardinality(S \ {AnyOf(S)}) = Cardinality(S) - 1
    BY <2>1, FS_RemoveElement, AnyIsElement
  <2> QED
    BY <2>1, <2>2, <2>3
<1>1. 0 \in T
  <2> DEFINE s == [S \in Small(0) |-> 0]
  <2>1. \A S \in Small(0) : S = {}
    <3> TAKE S \in Small(0)
    <3>1. Cardinality(S) \in Nat /\ Cardinality(S) <= 0 /\ (Cardinality(S) = 0 <=> S = {})
      BY <1>0
    <3> QED
      BY <3>1
  <2>2. Fits(0, s)
    BY <2>1
  <2> QED
    BY <2>2
<1>2. \A n \in Nat : n \in T => n + 1 \in T
  <2> SUFFICES ASSUME NEW n \in Nat, n \in T
               PROVE  n + 1 \in T
    OBVIOUS
  <2>1. PICK s : Fits(n, s)
    OBVIOUS
  <2> DEFINE t == [S \in Small(n + 1) |->
                      IF S \in Small(n) THEN s[S] ELSE f[AnyOf(S)] + s[S \ {AnyOf(S)}]]
  <2>2. \A S \in Small(n + 1) : S # {} => S \ {AnyOf(S)} \in Small(n) /\ S \ {AnyOf(S)} \in Small(n + 1)
    BY <1>0
  <2>3. {} \in Small(n) /\ s[{}] = 0
    <3>1. Cardinality({}) = 0 /\ {} \in SUBSET D
      BY FS_EmptySet
    <3>2. {} \in Small(n)
      BY <3>1
    <3> QED
      BY <2>1, <3>2
  <2>4. ASSUME NEW S \in Small(n + 1)
        PROVE  t[S] = IF S = {} THEN 0 ELSE f[AnyOf(S)] + t[S \ {AnyOf(S)}]
    <3>1. CASE S = {}
      BY <2>3, <3>1
    <3>2. CASE S # {}
      <4>1. t[S \ {AnyOf(S)}] = s[S \ {AnyOf(S)}]
        BY <2>2, <3>2
      <4>2. S \in Small(n) => s[S] = f[AnyOf(S)] + s[S \ {AnyOf(S)}]
        BY <2>1, <3>2
      <4> QED
        BY <3>2, <4>1, <4>2
    <3> QED
      BY <3>1, <3>2
  <2>5. Fits(n + 1, t)
    BY <2>4
  <2> HIDE DEF t, Fits
  <2> QED
    BY <2>5
<1>3. Cardinality(D) \in T
  <2>1. Cardinality(D) \in Nat
    BY FS_CardinalityType
  <2> HIDE DEF T
  <2> QED
    BY <1>1, <1>2, <2>1, SetInduction
<1>4. Small(Cardinality(D)) = SUBSET D
  BY <1>0
<1>5. PICK s : Fits(Cardinality(D), s)
  BY <1>3
<1>6. TotalsOver(f, D, s)
  BY <1>4, <1>5 DEF TotalsOver
<1> QED
  BY <1>6

LEMMA TotalIsLast == ASSUME NEW f, IsFiniteSet(DOMAIN f)
                     PROVE  \E s : TotalsOver(f, DOMAIN f, s) /\ Total(f) = s[DOMAIN f]
<1>1. TotalsOver(f, DOMAIN f, CHOOSE s : TotalsOver(f, DOMAIN f, s))
  BY TotalsExist
<1> QED
  BY <1>1 DEF Total, TotalsOver, AnyOf

\* Where two functions agree, so do their totals.
LEMMA TotalsAgree ==
    ASSUME NEW D, IsFiniteSet(D), NEW E, NEW f, NEW g, NEW s, NEW t,
           TotalsOver(f, D, s), TotalsOver(g, E, t),
           D \subseteq E, \A c \in D : f[c] = g[c]
    PROVE  \A S \in SUBSET D : s[S] = t[S]
<1> DEFINE T == {S \in SUBSET D : s[S] = t[S]}
<1>1. \A S \in SUBSET D : (\A x \in S : S \ {x} \in T) => S \in T
  <2> SUFFICES ASSUME NEW S \in SUBSET D, \A x \in S : S \ {x} \in T
               PROVE  s[S] = t[S]
    OBVIOUS
  <2>1. CASE S = {}
    BY <2>1 DEF TotalsOver
  <2>2. CASE S # {}
    <3>1. AnyOf(S) \in S
      BY <2>2, AnyIsElement
    <3>2. s[S] = f[AnyOf(S)] + s[S \ {AnyOf(S)}] /\ t[S] = g[AnyOf(S)] + t[S \ {AnyOf(S)}]
      BY <2>2 DEF TotalsOver
    <3> QED
      BY <3>1, <3>2
  <2> QED
    BY <2>1, <2>2
<1> HIDE DEF T
<1>2. SUBSET D \subseteq T
  BY <1>1, SubsetInduction
<1> QED
  BY <1>2 DEF T

\* Any element may be taken first.
LEMMA TotalsSplit ==
    ASSUME NEW D, IsFiniteSet(D), NEW f, \A c \in D : f[c] \in Int, NEW s, TotalsOver(f, D, s)
    PROVE  \A S \in SUBSET D : s[S] \in Int /\ \A x \in S : s[S] = f[x] + s[S \ {x}]
<1> DEFINE T == {S \in SUBSET D : s[S] \in Int /\ \A x \in S : s[S] = f[x] + s[S \ {x}]}
<1>0. \A S \in SUBSET D : s[S] \in Int
  <2> DEFINE U == {S \in SUBSET D : s[S] \in Int}
  <2>1. \A S \in SUBSET D : (\A x \in S : S \ {x} \in U) => S \in U
    <3> SUFFICES ASSUME NEW S \in SUBSET D, \A x \in S : S \ {x} \in U
                 PROVE  s[S] \in Int
      OBVIOUS
    <3>1. S = {} => s[S] = 0
      BY DEF TotalsOver
    <3>2. S # {} => AnyOf(S) \in S /\ s[S] = f[AnyOf(S)] + s[S \ {AnyOf(S)}]
      BY AnyIsElement DEF TotalsOver
    <3>3. S # {} => f[AnyOf(S)] \in Int /\ s[S \ {AnyOf(S)}] \in Int
      BY <3>2
    <3> DEFINE m == f[AnyOf(S)]
               n == s[S \ {AnyOf(S)}]
    <3>4. S # {} => s[S] = m + n /\ m \in Int /\ n \in Int
      BY <3>2, <3>3
    <3> HIDE DEF m, n
    <3> QED
      BY <3>1, <3>4
  <2> HIDE DEF U
  <2>2. SUBSET D \subseteq U
    BY <2>1, SubsetInduction
  <2> QED
    BY <2>2 DEF U
<1>1. \A S \in SUBSET D : (\A x \in S : S \ {x} \in T) => S \in T
  <2> SUFFICES ASSUME NEW S \in SUBSET D, \A x \in S : S \ {x} \in T
               PROVE  s[S] \in Int /\ \A x \in S : s[S] = f[x] + s[S \ {x}]
    OBVIOUS
  <2>1. CASE S = {}
    BY <2>1 DEF TotalsOver
  <2>2. CASE S # {}
    <3> DEFINE c == AnyOf(S)
    <3>1. c \in S
      BY <2>2, AnyIsElement
    <3>2. s[S] = f[c] + s[S \ {c}]
      BY <2>2 DEF TotalsOver
    <3> HIDE DEF c
    <3>3. s[S \ {c}] \in Int /\ f[c] \in Int
      BY <3>1
    <3>4. ASSUME NEW x \in S, x # c
          PROVE  s[S] = f[x] + s[S \ {x}]
      <4>1. s[S \ {c}] = f[x] + s[(S \ {c}) \ {x}]
        BY <3>1, <3>4
      <4>2. s[S \ {x}] = f[c] + s[(S \ {x}) \ {c}]
        BY <3>1, <3>4
      <4>3. (S \ {c}) \ {x} = (S \ {x}) \ {c}
        OBVIOUS
      <4>5. s[S \ {x}] \in Int /\ f[x] \in Int /\ f[c] \in Int
        BY <3>1
      <4> DEFINE u == s[(S \ {c}) \ {x}]
      <4>6. s[S \ {c}] = f[x] + u /\ s[S \ {x}] = f[c] + u
        BY <4>1, <4>2, <4>3
      <4>7. u \in Int
        BY <1>0
      <4> HIDE DEF u
      <4> QED
        BY <3>2, <3>3, <4>5, <4>6, <4>7
    <3>5. \A x \in S : s[S] = f[x] + s[S \ {x}]
      BY <3>2, <3>4
    <3> HIDE DEF T
    <3> QED
      BY <1>0, <3>5
  <2> QED
    BY <2>1, <2>2
<1> HIDE DEF T
<1>2. SUBSET D \subseteq T
  BY <1>1, SubsetInduction
<1> QED
  BY <1>2 DEF T

\* What a total is.
LEMMA TotalFacts ==
    ASSUME NEW D, IsFiniteSet(D), NEW f \in [D -> Int]
    PROVE  /\ Total(f) \in Int
           /\ D = {} => Total(f) = 0
           /\ \A x \in D : Total(f) = f[x] + Total([y \in D \ {x} |-> f[y]])
<1>1. PICK s : TotalsOver(f, D, s) /\ Total(f) = s[D]
  BY TotalIsLast
<1>2. \A S \in SUBSET D : s[S] \in Int /\ \A x \in S : s[S] = f[x] + s[S \ {x}]
  BY <1>1, TotalsSplit
<1>3. D = {} => Total(f) = 0
  BY <1>1 DEF TotalsOver
<1>4. ASSUME NEW x \in D
      PROVE  Total(f) = f[x] + Total([y \in D \ {x} |-> f[y]])
  <2> DEFINE g == [y \in D \ {x} |-> f[y]]
  <2>1. IsFiniteSet(D \ {x}) /\ DOMAIN g = D \ {x} /\ \A c \in D \ {x} : g[c] = f[c]
    BY FS_RemoveElement
  <2> HIDE DEF g
  <2>2. PICK t : TotalsOver(g, D \ {x}, t) /\ Total(g) = t[D \ {x}]
    BY <2>1, TotalIsLast
  <2>3. t[D \ {x}] = s[D \ {x}]
    BY <1>1, <2>1, <2>2, TotalsAgree
  <2> QED
    BY <1>1, <1>2, <2>2, <2>3 DEF g
<1> QED
  BY <1>1, <1>2, <1>3, <1>4

\* The sum of f over a part of its domain.
Over(f, S) == Total([y \in S |-> f[y]])

LEMMA OverFacts ==
    ASSUME NEW f, NEW S, IsFiniteSet(S), \A x \in S : f[x] \in Int
    PROVE  /\ Over(f, S) \in Int
           /\ S = {} => Over(f, S) = 0
           /\ \A x \in S : Over(f, S) = f[x] + Over(f, S \ {x})
<1> DEFINE g == [y \in S |-> f[y]]
<1>1. g \in [S -> Int]
  OBVIOUS
<1>2. \A x \in S : g[x] = f[x] /\ [y \in S \ {x} |-> g[y]] = [y \in S \ {x} |-> f[y]]
  OBVIOUS
<1>3. Over(f, S) = Total(g) /\ \A x \in S : Over(f, S \ {x}) = Total([y \in S \ {x} |-> g[y]])
  BY <1>2 DEF Over
<1> HIDE DEF g
<1>4. /\ Total(g) \in Int
      /\ S = {} => Total(g) = 0
      /\ \A x \in S : Total(g) = g[x] + Total([y \in S \ {x} |-> g[y]])
  BY <1>1, TotalFacts
<1> QED
  BY <1>2, <1>3, <1>4

LEMMA OverAll == ASSUME NEW D, NEW R, NEW f \in [D -> R]
                 PROVE  Over(f, D) = Total(f)
<1>1. f = [y \in D |-> f[y]]
  OBVIOUS
<1> QED
  BY <1>1, Zenon DEF Over

LEMMA OverSame == ASSUME NEW f, NEW g, NEW S, \A x \in S : f[x] = g[x]
                  PROVE  Over(f, S) = Over(g, S)
<1>1. [y \in S |-> f[y]] = [y \in S |-> g[y]]
  OBVIOUS
<1> QED
  BY <1>1, Zenon DEF Over

\* Two parts of a domain.
LEMMA OverUnion ==
    ASSUME NEW f, NEW D, NEW E, IsFiniteSet(D), IsFiniteSet(E), D \cap E = {},
           \A x \in D \cup E : f[x] \in Int
    PROVE  Over(f, D \cup E) = Over(f, D) + Over(f, E)
<1> DEFINE T == {S \in SUBSET E : Over(f, D \cup S) = Over(f, D) + Over(f, S)}
<1>1. ASSUME NEW S \in SUBSET E, \A x \in S : S \ {x} \in T
      PROVE  Over(f, D \cup S) = Over(f, D) + Over(f, S)
  <2>1. IsFiniteSet(S) /\ IsFiniteSet(D \cup S) /\ \A x \in D \cup S : f[x] \in Int
    BY FS_Subset, FS_Union
  <2>2. Over(f, D) \in Int
    BY OverFacts
  <2>3. CASE S = {}
    <3>1. Over(f, S) = 0 /\ D \cup S = D
      BY <2>1, <2>3, OverFacts
    <3>2. Over(f, D \cup S) = Over(f, D)
      BY <3>1
    <3> QED
      BY <2>2, <3>1, <3>2
  <2>4. CASE S # {}
    <3>1. PICK x : x \in S
      BY <2>4
    <3>2. (D \cup S) \ {x} = D \cup (S \ {x}) /\ x \in D \cup S
      BY <3>1
    <3>3. Over(f, D \cup (S \ {x})) = Over(f, D) + Over(f, S \ {x})
      BY <1>1, <3>1
    <3>4. Over(f, D \cup S) = f[x] + Over(f, (D \cup S) \ {x}) /\ Over(f, S) = f[x] + Over(f, S \ {x})
      BY <2>1, <3>1, <3>2, OverFacts
    <3>5. f[x] \in Int /\ Over(f, S \ {x}) \in Int
      <4>1. IsFiniteSet(S \ {x}) /\ \A y \in S \ {x} : f[y] \in Int
        BY <2>1, FS_RemoveElement
      <4> QED
        BY <2>1, <3>1, <4>1, OverFacts
    <3>6. Over(f, (D \cup S) \ {x}) = Over(f, D) + Over(f, S \ {x})
      BY <3>2, <3>3
    <3> DEFINE m == Over(f, D)
               n == Over(f, S \ {x})
               k == f[x]
    <3>7. /\ m \in Int /\ n \in Int /\ k \in Int
          /\ Over(f, D \cup S) = k + (m + n) /\ Over(f, S) = k + n
      BY <2>2, <3>4, <3>5, <3>6
    <3> HIDE DEF m, n, k
    <3>8. k + (m + n) = m + (k + n)
      BY <3>7
    <3> QED
      BY <3>7, <3>8 DEF m
  <2> QED
    BY <2>3, <2>4
<1>2. SUBSET E \subseteq T
  <2>1. \A S \in SUBSET E : (\A x \in S : S \ {x} \in T) => S \in T
    BY <1>1
  <2> HIDE DEF T
  <2> QED
    BY <2>1, SubsetInduction
<1> QED
  BY <1>2

\* The terms may be named anew.
LEMMA OverImage ==
    ASSUME NEW f, NEW g, NEW h, NEW D, NEW E, IsFiniteSet(D), IsFiniteSet(E),
           \A x \in D : h[x] \in E /\ g[x] = f[h[x]],
           \A x, y \in D : h[x] = h[y] => x = y,
           \A z \in E : \E x \in D : h[x] = z,
           \A z \in E : f[z] \in Int
    PROVE  Over(g, D) = Over(f, E)
<1> DEFINE At(S) == {z \in E : \E x \in S : h[x] = z}
           T == {S \in SUBSET D : Over(g, S) = Over(f, At(S))}
<1>1. ASSUME NEW S \in SUBSET D, \A x \in S : S \ {x} \in T
      PROVE  Over(g, S) = Over(f, At(S))
  <2>1. IsFiniteSet(S) /\ IsFiniteSet(At(S)) /\ \A x \in S : g[x] \in Int
    <3>1. At(S) \in SUBSET E
      OBVIOUS
    <3> QED
      BY <3>1, FS_Subset
  <2>2. \A z \in At(S) : f[z] \in Int
    OBVIOUS
  <2>3. CASE S = {}
    <3>1. At(S) = {}
      BY <2>3
    <3>2. Over(g, S) = 0
      BY <2>1, <2>3, OverFacts
    <3>3. Over(f, At(S)) = 0
      BY <2>1, <2>2, <3>1, OverFacts
    <3> QED
      BY <3>2, <3>3
  <2>4. CASE S # {}
    <3>1. PICK x : x \in S
      BY <2>4
    <3>2. At(S) \ {h[x]} = At(S \ {x}) /\ h[x] \in At(S)
      BY <3>1
    <3>3. Over(g, S) = g[x] + Over(g, S \ {x})
      BY <2>1, <3>1, OverFacts
    <3>4. Over(f, At(S)) = f[h[x]] + Over(f, At(S) \ {h[x]})
      BY <2>1, <2>2, <3>2, OverFacts
    <3>5. Over(g, S \ {x}) = Over(f, At(S \ {x}))
      BY <1>1, <3>1
    <3> QED
      BY <3>1, <3>2, <3>3, <3>4, <3>5
  <2> QED
    BY <2>3, <2>4
<1>2. SUBSET D \subseteq T
  <2>1. \A S \in SUBSET D : (\A x \in S : S \ {x} \in T) => S \in T
    BY <1>1
  <2> HIDE DEF T
  <2> QED
    BY <2>1, SubsetInduction
<1>3. At(D) = E
  OBVIOUS
<1> HIDE DEF At
<1>4. D \in T
  BY <1>2
<1> QED
  BY <1>3, <1>4

\* A factor of all terms, and two sums at once.
LEMMA OverScale ==
    ASSUME NEW f, NEW g, NEW k \in Int, NEW D, IsFiniteSet(D),
           \A x \in D : f[x] \in Int /\ g[x] = k * f[x]
    PROVE  Over(g, D) = k * Over(f, D)
<1> DEFINE T == {S \in SUBSET D : Over(g, S) = k * Over(f, S)}
<1>1. ASSUME NEW S \in SUBSET D, \A x \in S : S \ {x} \in T
      PROVE  Over(g, S) = k * Over(f, S)
  <2>1. IsFiniteSet(S) /\ \A x \in S : f[x] \in Int /\ g[x] \in Int
    <3>1. IsFiniteSet(S)
      BY FS_Subset
    <3>2. \A x \in S : f[x] \in Int /\ g[x] = k * f[x]
      OBVIOUS
    <3> QED
      BY <3>1, <3>2
  <2>2. CASE S = {}
    <3>1. Over(f, S) = 0 /\ Over(g, S) = 0
      BY <2>1, <2>2, OverFacts
    <3> QED
      BY <3>1
  <2>3. CASE S # {}
    <3>1. PICK x : x \in S
      BY <2>3
    <3>2. IsFiniteSet(S \ {x}) /\ \A z \in S \ {x} : f[z] \in Int
      BY <2>1, FS_RemoveElement
    <3> DEFINE m == f[x]
               n == Over(f, S \ {x})
    <3>3. m \in Int /\ n \in Int /\ g[x] = k * m
      BY <2>1, <3>1, <3>2, OverFacts
    <3>4. Over(f, S) = m + n /\ Over(g, S) = g[x] + Over(g, S \ {x})
      BY <2>1, <3>1, OverFacts
    <3>5. Over(g, S \ {x}) = k * n
      BY <1>1, <3>1
    <3>6. Over(f, S) = m + n /\ Over(g, S) = k * m + k * n
      BY <3>3, <3>4, <3>5
    <3> HIDE DEF m, n
    <3>7. k * m + k * n = k * (m + n)
      BY <3>3
    <3> QED
      BY <3>6, <3>7
  <2> QED
    BY <2>2, <2>3
<1>2. SUBSET D \subseteq T
  <2>1. \A S \in SUBSET D : (\A x \in S : S \ {x} \in T) => S \in T
    BY <1>1
  <2> HIDE DEF T
  <2> QED
    BY <2>1, SubsetInduction
<1> QED
  BY <1>2

LEMMA OverPlus ==
    ASSUME NEW f, NEW g, NEW h, NEW D, IsFiniteSet(D),
           \A x \in D : f[x] \in Int /\ g[x] \in Int /\ h[x] = f[x] + g[x]
    PROVE  Over(h, D) = Over(f, D) + Over(g, D)
<1> DEFINE T == {S \in SUBSET D : Over(h, S) = Over(f, S) + Over(g, S)}
<1>1. ASSUME NEW S \in SUBSET D, \A x \in S : S \ {x} \in T
      PROVE  Over(h, S) = Over(f, S) + Over(g, S)
  <2>1. IsFiniteSet(S) /\ \A x \in S : f[x] \in Int /\ g[x] \in Int /\ h[x] \in Int
    <3>1. IsFiniteSet(S)
      BY FS_Subset
    <3>2. \A x \in S : f[x] \in Int /\ g[x] \in Int /\ h[x] = f[x] + g[x]
      OBVIOUS
    <3> QED
      BY <3>1, <3>2
  <2>2. CASE S = {}
    <3>1. Over(f, S) = 0 /\ Over(g, S) = 0 /\ Over(h, S) = 0
      BY <2>1, <2>2, OverFacts
    <3> QED
      BY <3>1
  <2>3. CASE S # {}
    <3>1. PICK x : x \in S
      BY <2>3
    <3>2. IsFiniteSet(S \ {x}) /\ \A z \in S \ {x} : f[z] \in Int /\ g[z] \in Int
      BY <2>1, FS_RemoveElement
    <3> DEFINE m == f[x]
               n == Over(f, S \ {x})
               k == g[x]
               l == Over(g, S \ {x})
    <3>3. m \in Int /\ n \in Int /\ k \in Int /\ l \in Int /\ h[x] = m + k
      BY <2>1, <3>1, <3>2, OverFacts
    <3>4. Over(f, S) = m + n /\ Over(g, S) = k + l /\ Over(h, S) = h[x] + Over(h, S \ {x})
      BY <2>1, <3>1, OverFacts
    <3>5. Over(h, S \ {x}) = n + l
      BY <1>1, <3>1
    <3>6. Over(f, S) = m + n /\ Over(g, S) = k + l /\ Over(h, S) = (m + k) + (n + l)
      BY <3>3, <3>4, <3>5
    <3> HIDE DEF m, n, k, l
    <3>7. (m + k) + (n + l) = (m + n) + (k + l)
      BY <3>3
    <3> QED
      BY <3>6, <3>7
  <2> QED
    BY <2>2, <2>3
<1>2. SUBSET D \subseteq T
  <2>1. \A S \in SUBSET D : (\A x \in S : S \ {x} \in T) => S \in T
    BY <1>1
  <2> HIDE DEF T
  <2> QED
    BY <2>1, SubsetInduction
<1> QED
  BY <1>2

\* A set whose elements are sorted into finitely many finite classes is finite.
Class(D, h, z) == {x \in D : h[x] = z}
Classes(D, h, S) == {x \in D : h[x] \in S}

LEMMA ClassesSplit == ASSUME NEW D, NEW h, NEW S, NEW z \in S
                      PROVE  /\ Classes(D, h, S) = Classes(D, h, S \ {z}) \cup Class(D, h, z)
                             /\ Classes(D, h, S \ {z}) \cap Class(D, h, z) = {}
  BY DEF Class, Classes

LEMMA ClassesAreFinite ==
    ASSUME NEW D, NEW h, NEW E, IsFiniteSet(E), \A x \in D : h[x] \in E,
           \A z \in E : IsFiniteSet(Class(D, h, z))
    PROVE  IsFiniteSet(D)
<1> DEFINE T == {S \in SUBSET E : IsFiniteSet(Classes(D, h, S))}
<1>1. ASSUME NEW S \in SUBSET E, \A x \in S : S \ {x} \in T
      PROVE  IsFiniteSet(Classes(D, h, S))
  <2>1. CASE S = {}
    <3>1. Classes(D, h, S) = {}
      BY <2>1 DEF Classes
    <3> QED
      BY <3>1, FS_EmptySet
  <2>2. CASE S # {}
    <3>1. PICK z : z \in S
      BY <2>2
    <3>2. IsFiniteSet(Classes(D, h, S \ {z})) /\ IsFiniteSet(Class(D, h, z))
      BY <1>1, <3>1
    <3>3. IsFiniteSet(Classes(D, h, S \ {z}) \cup Class(D, h, z))
      BY <3>2, FS_Union
    <3> QED
      BY <3>1, <3>3, ClassesSplit
  <2> QED
    BY <2>1, <2>2
<1>2. SUBSET E \subseteq T
  <2>1. \A S \in SUBSET E : (\A x \in S : S \ {x} \in T) => S \in T
    BY <1>1
  <2> HIDE DEF T
  <2> QED
    BY <2>1, SubsetInduction
<1>3. Classes(D, h, E) = D
  BY DEF Classes
<1> QED
  BY <1>2, <1>3

\* The sum over all is the sum of the sums over the classes.
LEMMA OverClasses ==
    ASSUME NEW f, NEW D, NEW h, NEW g, NEW E, IsFiniteSet(E), IsFiniteSet(D),
           \A x \in D : h[x] \in E /\ f[x] \in Int,
           \A z \in E : g[z] = Over(f, Class(D, h, z))
    PROVE  Over(f, D) = Over(g, E)
<1> DEFINE T == {S \in SUBSET E : Over(f, Classes(D, h, S)) = Over(g, S)}
<1>0. \A z \in E : g[z] \in Int
  <2> SUFFICES ASSUME NEW z \in E
               PROVE  g[z] \in Int
    OBVIOUS
  <2>1. IsFiniteSet(Class(D, h, z)) /\ \A x \in Class(D, h, z) : f[x] \in Int
    <3>1. Class(D, h, z) \in SUBSET D
      BY DEF Class
    <3>2. IsFiniteSet(Class(D, h, z))
      BY <3>1, FS_Subset
    <3> QED
      BY <3>1, <3>2
  <2>2. Over(f, Class(D, h, z)) \in Int
    BY <2>1, OverFacts
  <2> QED
    BY <2>2
<1>1. ASSUME NEW S \in SUBSET E, \A x \in S : S \ {x} \in T
      PROVE  Over(f, Classes(D, h, S)) = Over(g, S)
  <2>1. IsFiniteSet(S) /\ \A x \in S : g[x] \in Int
    BY <1>0, FS_Subset
  <2>2. CASE S = {}
    <3>1. Classes(D, h, S) = {} /\ IsFiniteSet({})
      BY <2>2, FS_EmptySet DEF Classes
    <3>2. Over(f, Classes(D, h, S)) = 0
      BY <3>1, OverFacts
    <3>3. Over(g, S) = 0
      BY <2>1, <2>2, OverFacts
    <3> QED
      BY <3>2, <3>3
  <2>3. CASE S # {}
    <3>1. PICK z : z \in S
      BY <2>3
    <3> DEFINE A == Classes(D, h, S \ {z})
               B == Class(D, h, z)
    <3>2. A \in SUBSET D /\ B \in SUBSET D
      BY DEF Classes, Class
    <3>3. IsFiniteSet(A) /\ IsFiniteSet(B)
      BY <3>2, FS_Subset
    <3>4. Classes(D, h, S) = A \cup B /\ A \cap B = {}
      BY <3>1, ClassesSplit
    <3>5. Over(f, A) = Over(g, S \ {z}) /\ Over(f, B) = g[z] /\ g[z] \in Int
      BY <1>0, <1>1, <3>1
    <3>6. Over(g, S) = g[z] + Over(g, S \ {z})
      BY <2>1, <3>1, OverFacts
    <3>7. Over(g, S \ {z}) \in Int
      <4>1. IsFiniteSet(S \ {z}) /\ \A x \in S \ {z} : g[x] \in Int
        BY <2>1, FS_RemoveElement
      <4> QED
        BY <4>1, OverFacts
    <3> HIDE DEF A, B
    <3>8. \A x \in A \cup B : f[x] \in Int
      BY <3>2
    <3>9. Over(f, A \cup B) = Over(f, A) + Over(f, B)
      BY <3>3, <3>4, <3>8, OverUnion
    <3>10. Over(f, Classes(D, h, S)) = Over(g, S \ {z}) + g[z]
      BY <3>4, <3>5, <3>9
    <3> DEFINE m == g[z]
               n == Over(g, S \ {z})
    <3>11. m \in Int /\ n \in Int /\ Over(f, Classes(D, h, S)) = n + m /\ Over(g, S) = m + n
      BY <3>5, <3>6, <3>7, <3>10
    <3> HIDE DEF m, n
    <3> QED
      BY <3>11
  <2> QED
    BY <2>2, <2>3
<1>2. SUBSET E \subseteq T
  <2>1. \A S \in SUBSET E : (\A x \in S : S \ {x} \in T) => S \in T
    BY <1>1
  <2> HIDE DEF T
  <2> QED
    BY <2>1, SubsetInduction
<1>3. Classes(D, h, E) = D
  BY DEF Classes
<1> QED
  BY <1>2, <1>3

-----------------------------------------------------------------------------
(* Sums over the first numbers.                                            *)

LEMMA SumIsInt == ASSUME NEW f, NEW n \in Nat, \A m \in 1 .. n : f[m] \in Int
                  PROVE  Sum(f, n) \in Int
<1> DEFINE T == {m \in Nat : m <= n => Sum(f, m) \in Int}
<1>1. 0 \in T
  BY SumFacts
<1>2. \A m \in Nat : m \in T => m + 1 \in T
  <2> SUFFICES ASSUME NEW m \in Nat, m \in T, m + 1 <= n
               PROVE  Sum(f, m + 1) \in Int
    OBVIOUS
  <2>1. Sum(f, m) \in Int /\ m + 1 \in 1 .. n
    OBVIOUS
  <2> QED
    BY <2>1, SumFacts
<1>3. n \in T
  <2> HIDE DEF T
  <2> QED
    BY <1>1, <1>2, SetInduction
<1> QED
  BY <1>3

\* A loop over all of a sequence adds up its total.
LEMMA SumIsTotal == ASSUME NEW f, NEW n \in Nat, \A m \in 1 .. n : f[m] \in Int
                    PROVE  Sum(f, n) = Over(f, 1 .. n)
<1> DEFINE T == {m \in Nat : m <= n => Sum(f, m) = Over(f, 1 .. m)}
<1>1. 0 \in T
  <2>1. IsFiniteSet(1 .. 0) /\ 1 .. 0 = {}
    BY FS_EmptySet
  <2>2. Over(f, 1 .. 0) = 0
    BY <2>1, OverFacts
  <2> QED
    BY <2>2, SumFacts
<1>2. \A m \in Nat : m \in T => m + 1 \in T
  <2> SUFFICES ASSUME NEW m \in Nat, m \in T, m + 1 <= n
               PROVE  Sum(f, m + 1) = Over(f, 1 .. m + 1)
    OBVIOUS
  <2>1. Sum(f, m) = Over(f, 1 .. m) /\ m + 1 \in 1 .. n
    OBVIOUS
  <2>2. IsFiniteSet(1 .. m + 1)
    BY FS_Interval
  <2>3. (1 .. m + 1) \ {m + 1} = 1 .. m /\ m + 1 \in 1 .. m + 1 /\ \A x \in 1 .. m + 1 : f[x] \in Int
    OBVIOUS
  <2>4. Over(f, 1 .. m + 1) = f[m + 1] + Over(f, 1 .. m)
    BY <2>2, <2>3, OverFacts
  <2>5. Sum(f, m) \in Int /\ f[m + 1] \in Int /\ Sum(f, m + 1) = Sum(f, m) + f[m + 1]
    <3>1. \A l \in 1 .. m : f[l] \in Int
      OBVIOUS
    <3> QED
      BY <2>3, <3>1, SumFacts, SumIsInt
  <2> QED
    BY <2>1, <2>4, <2>5
<1>3. n \in T
  <2> HIDE DEF T
  <2> QED
    BY <1>1, <1>2, SetInduction
<1> QED
  BY <1>3
=============================================================================
