------------------------ MODULE RecurringOccurrences ------------------------
(***************************************************************************)
(* One occurrence of a recurring commitment, as FinancialOccurrence checks *)
(* it when its row is read and as the commands change it.  A row is        *)
(*   [terms, version, amount, status, values, adjusted, facts]             *)
(* where terms is the economic version of its series it was made under,    *)
(* version its state version, values its value history and adjusted the    *)
(* sequence of the adjustments of its amount.  A fact is                   *)
(*   [kind, amount, reversed, remaining, settled]                          *)
(* with settled the payments of a liability, each [amount, reversed].      *)
(***************************************************************************)
EXTENDS Integers, Sequences, FiniteSets, Functions

Unknown == -1    \* an amount that is null

SumOf(s) == SumFunction(s)
AmountsOf(s, amount(_)) == SumOf([i \in DOMAIN s |-> amount(s[i])])

\* validFinancialAmount
Valid(fact) == fact.amount - fact.reversed

Fulfilled(row)  == AmountsOf(row.facts, Valid)
Settled(fact)   == AmountsOf(fact.settled, Valid)
Remaining(row)  == row.amount - Fulfilled(row)
RecordedFacts(row)  == Len(row.facts)
ValidFacts(row) == Cardinality({i \in DOMAIN row.facts : Valid(row.facts[i]) > 0})

\* The status the constructor demands of a row that is not cancelled.
StatusOf(row) ==
    IF row.amount = 0 /\ row.adjusted # <<>> THEN "FULFILLED"
    ELSE IF Fulfilled(row) = 0 THEN "PENDING"
    ELSE IF Remaining(row) = 0 THEN "FULFILLED" ELSE "PARTIALLY_FULFILLED"

\* What the constructor accepts: a row that fails it cannot be read any more.
FactCanBeRead(fact) ==
    /\ fact.amount >= 1
    /\ fact.reversed \in 0 .. fact.amount
    /\ \A i \in DOMAIN fact.settled : /\ fact.settled[i].amount >= 1
                                      /\ Valid(fact.settled[i]) >= 0
    /\ IF fact.kind = "EXTERNAL_LIABILITY"
       THEN /\ fact.remaining \in 0 .. fact.amount
            /\ Settled(fact) = Valid(fact) - fact.remaining
       ELSE fact.settled = <<>>

ValuesCanBeRead(row) ==
    LET n == Len(row.values)
    IN  n > 0 =>
        /\ \A i \in 1 .. n :
               /\ row.values[i].version = i + 1
               /\ row.values[i].previous =
                      IF i = 1 THEN Unknown ELSE row.values[i - 1].amount
        /\ row.values[n].amount = row.amount - SumOf(row.adjusted)
        /\ row.version >= row.values[n].version

CanBeRead(row) ==
    /\ row.amount # Unknown => row.amount >= IF row.adjusted = <<>> THEN 1 ELSE 0
    /\ row.version >= 1
    /\ \A i \in DOMAIN row.facts : FactCanBeRead(row.facts[i])
    /\ IF row.amount = Unknown THEN Fulfilled(row) = 0 ELSE Fulfilled(row) <= row.amount
    /\ ValuesCanBeRead(row)
    /\ row.status # "CANCELLED" => row.status = StatusOf(row)
    /\ row.status = "CANCELLED" => row.facts = <<>>

-----------------------------------------------------------------------------
\* Mistake: what is only expected of a variable amount is taken for it.
ProjectedAsExpected(terms, configuration) ==
    [terms |-> terms, version |-> 1, amount |-> configuration.amount,
     status |-> "PENDING", values |-> <<>>, adjusted |-> <<>>, facts |-> <<>>]

\* The occurrence a command works on when there is no row yet.
Projected(terms, configuration) ==
    [terms    |-> terms,
     version  |-> 1,
     amount   |-> IF configuration.mode = "FIXED" THEN configuration.amount ELSE Unknown,
     status   |-> "PENDING",
     values   |-> <<>>,
     adjusted |-> <<>>,
     facts    |-> <<>>]

NewFact(kind, amount) ==
    [kind |-> kind, amount |-> amount, reversed |-> 0,
     remaining |-> IF kind = "EXTERNAL_LIABILITY" THEN amount ELSE 0,
     settled |-> <<>>]

CanRecord(row, amount) ==
    /\ row.status # "CANCELLED"
    /\ row.amount # Unknown
    /\ Remaining(row) # 0
    /\ amount <= Remaining(row)

WithFact(row, kind, amount) ==
    LET next == [row EXCEPT !.version = @ + 1,
                            !.facts = Append(@, NewFact(kind, amount))]
    IN  [next EXCEPT !.status = StatusOf(next)]

CanSettle(row, i, amount) ==
    /\ i \in DOMAIN row.facts
    /\ row.facts[i].kind = "EXTERNAL_LIABILITY"
    /\ amount <= row.facts[i].remaining

WithSettlement(row, i, amount) ==
    [row EXCEPT !.version = @ + 1,
                !.facts[i].remaining = @ - amount,
                !.facts[i].settled = Append(@, [amount |-> amount, reversed |-> 0])]

\* defineValue: facts that were reversed count, and so do adjustments.
CanDefineValue(row) ==
    /\ row.status # "CANCELLED"
    /\ row.adjusted = <<>>
    /\ row.facts = <<>>

WithValue(row, amount) ==
    [row EXCEPT !.version = @ + 1,
                !.amount = amount,
                !.values = Append(@, [version |-> row.version + 1,
                                      previous |-> row.amount, amount |-> amount])]

CanCancel(row) == row.status = "PENDING" /\ row.facts = <<>>

Cancelled(row) == [row EXCEPT !.version = @ + 1, !.status = "CANCELLED"]

CanAdjust(row, by) ==
    /\ row.amount # Unknown
    /\ row.status # "CANCELLED"
    /\ row.amount + by >= 0
    /\ row.amount + by >= Fulfilled(row)

\* The status is written by the repository, from what was valid before.
Adjusted(row, by) ==
    LET amount == row.amount + by
    IN  [row EXCEPT !.version = @ + 1,
                    !.amount = amount,
                    !.adjusted = Append(@, by),
                    !.status = IF Fulfilled(row) = amount THEN "FULFILLED"
                               ELSE IF Fulfilled(row) = 0 THEN "PENDING"
                               ELSE "PARTIALLY_FULFILLED"]

\* validateFinancialReversal
CanReverse(row, i, amount) ==
    /\ i \in DOMAIN row.facts
    /\ amount <= Valid(row.facts[i])
    /\ row.facts[i].kind = "EXTERNAL_LIABILITY" =>
           Valid(row.facts[i]) - amount >= Settled(row.facts[i])

ReversedStatus(row, fulfilled) ==
    IF fulfilled = 0 THEN "PENDING"
    ELSE IF fulfilled = row.amount THEN "FULFILLED" ELSE "PARTIALLY_FULFILLED"

WithReversal(row, i, amount) ==
    [row EXCEPT !.version = @ + 1,
                !.facts[i].reversed = @ + amount,
                !.facts[i].remaining = IF row.facts[i].kind = "EXTERNAL_LIABILITY"
                                       THEN @ - amount ELSE @,
                !.status = ReversedStatus(row, Fulfilled(row) - amount)]

CanReverseSettlement(row, i, j, amount) ==
    /\ i \in DOMAIN row.facts
    /\ j \in DOMAIN row.facts[i].settled
    /\ amount <= Valid(row.facts[i].settled[j])

WithSettlementReversal(row, i, j, amount) ==
    [row EXCEPT !.version = @ + 1,
                !.facts[i].remaining = @ + amount,
                !.facts[i].settled[j].reversed = @ + amount,
                !.status = ReversedStatus(row, Fulfilled(row))]
=============================================================================
