-------------------------- MODULE MCRecurringViews ---------------------------
(***************************************************************************)
(* RecurringViews from January to March 2027, where the 31st of the month  *)
(* moves, for one of two series: one whose versions move the date within   *)
(* the month, to another month and from a fixed to a variable amount, with *)
(* one payment an occurrence; and one of a meter, whose first occurrence   *)
(* takes values, payments, liabilities, adjustments and reversals.         *)
(***************************************************************************)
EXTENDS RecurringViews

JanToMar == {202701, 202702, 202703}
Monthly(day, starts) == [month |-> 0, day |-> day, starts |-> starts, ends |-> NoEnd]

AtTheEnd == [from |-> 20270115, rule |-> Monthly(31, 20270115), mode |-> "FIXED", amount |-> 2,
             split |-> "PERCENTAGES", shares |-> <<5000, 5000>>]
OnTheTenth(from) == [from |-> from, rule |-> Monthly(10, from), mode |-> "VARIABLE",
                     amount |-> 1, split |-> "PERCENTAGES", shares |-> <<6000, 4000>>]
InMarch == [from |-> 20270215, mode |-> "FIXED", amount |-> 3,
            split |-> "AMOUNTS", shares |-> <<1, 2>>,
            rule |-> [month |-> 3, day |-> 29, starts |-> 20270215, ends |-> 20280301]]

Metered == [from |-> 20270115, rule |-> Monthly(20, 20270115), mode |-> "VARIABLE", amount |-> 2,
            split |-> "PERCENTAGES", shares |-> <<5000, 5000>>]

BothSeries == {AtTheEnd, Metered}

Days3  == {20270115, 20270205, 20270301}
Moves  == {OnTheTenth(20270201), OnTheTenth(20270220), InMarch}
Ends   == {20270210, 20270228}
Cuts   == {20270210, 20270301}
AnyCut == {20270120, 20270210, 20270301}
AnyFact == {"DISBURSEMENT", "EXTERNAL_LIABILITY"}

IsMetered == series.versions[1] = Metered

\* One payment an occurrence, with one more change of its row; what a client has read is
\* of February or March.
ChangingSteps ==
    /\ \/ OnCommitment(JanToMar, {"DISBURSEMENT"}, 1, 1)
       \/ \E view \in Fresh(JanToMar) : OnSeries(view, Moves, Ends)
       \/ OnSpace(Cuts)
       \/ NextDay
    /\ series'.version + space'.version <= 5
    /\ \A date \in DOMAIN rows' : rows'[date].version <= 2 /\ Len(rows'[date].facts) <= 1
    /\ seen' # NoView => MonthOf(seen'.date) \in {202702, 202703}

\* The terms and the day are those of the beginning.
MeteredSteps ==
    /\ OnCommitment({202701}, AnyFact, 2, 2) \/ OnSpace({20270120})
    /\ space'.version <= 3

MCNext == IF IsMetered THEN MeteredSteps ELSE ChangingSteps

MCSpec == Init /\ [][MCNext]_vars
==============================================================================
