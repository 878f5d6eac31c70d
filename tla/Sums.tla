-------------------------------- MODULE Sums --------------------------------
(***************************************************************************)
(* Sums of numbers that are given by a function.                           *)
(***************************************************************************)
EXTENDS Integers

\* f[1] + ... + f[n], added up as a loop does.
Sum(f, n) ==
    LET upTo[m \in 0 .. n] == IF m = 0 THEN 0 ELSE upTo[m - 1] + f[m] IN upTo[n]

\* The sum of all that f has, over a finite domain, in whatever order.
Total(f) ==
    LET over[S \in SUBSET DOMAIN f] ==
          IF S = {} THEN 0 ELSE LET c == CHOOSE c \in S : TRUE IN f[c] + over[S \ {c}]
    IN  over[DOMAIN f]
=============================================================================
