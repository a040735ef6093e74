-------------------------- MODULE NonRecurringTerms --------------------------
(***************************************************************************)
(* What a commitment that does not recur, or one of its installments,      *)
(* costs on a day.  Its terms are a sequence in the order in which they    *)
(* were written: the versions, each [kind, from, amount, ...], in force    *)
(* from a day on, and the adjustments, each [kind, amount, ...], which     *)
(* change the versions before them.  first is the day of its first fact.   *)
(***************************************************************************)
EXTENDS RecurringOccurrences, FiniteSetsExt

Adjustments(item) == SelectSeq(item.terms, LAMBDA t : t.kind = "ADJUSTMENT")

\* applicableNonRecurringVersion: the first fact keeps the price it was made at.
Applicable(item, day) ==
    Max({t \in DOMAIN item.terms : /\ item.terms[t].kind = "VERSION"
                                   /\ item.terms[t].from <= day
                                   /\ item.terms[t].from <= item.first})

\* The adjustments written after the version that applies.
Later(terms, applicable) ==
    {t \in DOMAIN terms : t > applicable /\ terms[t].kind = "ADJUSTMENT"}

AmountSince(terms, applicable) ==
    terms[applicable].amount
        + SumFunction([t \in Later(terms, applicable) |-> terms[t].amount])

Amount(item, day) == AmountSince(item.terms, Applicable(item, day))
=============================================================================
