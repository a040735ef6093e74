------------------------- MODULE ResponsibilitySplit -------------------------
(***************************************************************************)
(* How an amount is divided between the members of a space, in the order   *)
(* of their ids: by amounts or by basis points.                            *)
(***************************************************************************)
EXTENDS RecurringOccurrences, FiniteSets

\* A distribution of amounts adds up to the total, one of percentages to the whole.
IsDistribution(mode, shares, total) ==
    /\ SumOf(shares) = IF mode = "AMOUNTS" THEN total ELSE 10000
    /\ total > 0

\* Mistake: every part is rounded down.
RealizedDown(weights, amount) ==
    LET whole == SumOf(weights)
    IN  [m \in DOMAIN weights |->
            IF whole = 0 THEN weights[m] ELSE (amount * weights[m]) \div whole]

\* An amount in the proportion of the weights; what rounding leaves goes to the
\* largest remainders first, of equal ones to the smallest id.
Realized(weights, amount) ==
    LET whole       == SumOf(weights)
        quotient(m) == (amount * weights[m]) \div whole
        rest(m)     == (amount * weights[m]) % whole
        residual    == amount - SumOf([m \in DOMAIN weights |-> quotient(m)])
        before(m)   == {o \in DOMAIN weights :
                           rest(o) > rest(m) \/ (rest(o) = rest(m) /\ o < m)}
    IN  IF whole = 0 THEN weights
        ELSE [m \in DOMAIN weights |->
                 quotient(m) + IF Cardinality(before(m)) < residual THEN 1 ELSE 0]
=============================================================================
