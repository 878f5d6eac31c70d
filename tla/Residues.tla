------------------------------ MODULE Residues ------------------------------
(***************************************************************************)
(* The numbers of the models of the arithmetic: the residues of a prime,   *)
(* next to zero, in place of the doubles.  Sums, products and quotients    *)
(* obey the laws they obey in the reals, exactly.                          *)
(***************************************************************************)
EXTENDS Sums, FiniteSets

CONSTANT Prime

ASSUME PrimeAssumption == Prime \in Nat /\ Prime > 2 /\ \A d \in 2 .. Prime - 1 : Prime % d # 0

Num(n) == ((n + Prime \div 2) % Prime) - Prime \div 2
Values == 0 - Prime \div 2 .. Prime - 1 - Prime \div 2

Inverses == [n \in 1 .. Prime - 1 |-> CHOOSE k \in 1 .. Prime - 1 : (n * k) % Prime = 1]
Quotient(n, d) == Num(n * Inverses[d % Prime])

\* pow, of a whole number n.
Power(k, n) == LET p[m \in 0 .. n] == IF m = 0 THEN 1 ELSE k * p[m - 1] IN p[n]
=============================================================================
