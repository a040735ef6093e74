------------------------- MODULE MCFinancialReview -------------------------
(***************************************************************************)
(* OneTimeCommitments and FinancialReview for TLC, in three situations:    *)
(* dated, an expense with facts of days gone by; negotiated, changes that  *)
(* are proposed while others are made; and reviewed, the months of what    *)
(* comes of a commitment whose rows are all of the day they are written.   *)
(***************************************************************************)
EXTENDS FinancialReview

LOCAL INSTANCE FiniteSetsExt

VARIABLE situation

Weights(a, b) == [m \in {First, Second} |-> IF m = First THEN a ELSE b]
Percent(a, b) == [mode |-> "PERCENTAGES", weights |-> Weights(a, b)]
Amounts(a, b) == [mode |-> "AMOUNTS", weights |-> Weights(a, b)]
Priced(amount, distribution) == [amount |-> amount, distribution |-> distribution]

Thirds == Priced(2, Percent(1, 2))
Halves == Priced(2, Amounts(1, 1))
More   == {Priced(3, Amounts(1, 2))}
Either == {Priced(1, Percent(1, 2)), Priced(3, Percent(2, 1))}

MCPlanned == {Thirds, Halves}
MCDeltas  == {-1, 1}
MCGiven   == {Unnamed}
MCChanges == More \cup Either

Bounds ==
    [dated      |-> [planned |-> Halves, paid |-> {1, 2}, charges |-> TRUE,
                     deltas |-> {1}, changes |-> More, proposals |-> 0,
                     days |-> 2, facts |-> 2, settled |-> 1, terms |-> 2],
     negotiated |-> [planned |-> Thirds, paid |-> {1}, charges |-> FALSE,
                     deltas |-> {}, changes |-> Either, proposals |-> 2,
                     days |-> 3, facts |-> 1, settled |-> 0, terms |-> 3],
     reviewed   |-> [planned |-> Thirds, paid |-> {1}, charges |-> TRUE,
                     deltas |-> {-1, 1}, changes |-> Either, proposals |-> 0,
                     days |-> 2, facts |-> 2, settled |-> 2, terms |-> 2]]

MCInit ==
    /\ situation \in DOMAIN Bounds
    /\ ReviewInit
    /\ commitment.terms[1] = Version(0, Bounds[situation].planned)
    /\ situation = "dated" => commitment.kind = "EXPENSE"

Within ==
    LET bounds == Bounds[situation]
        Allowed(change) ==
            IF change.kind = "ADJUSTMENT" THEN change.amount \in bounds.deltas
            ELSE /\ change.from <= bounds.days
                 /\ Priced(change.amount, change.distribution) \in bounds.changes
    IN  /\ today <= bounds.days
        /\ Len(commitment.facts) <= bounds.facts
        /\ Len(commitment.terms) <= bounds.terms
        /\ Cardinality(proposals) <= bounds.proposals
        /\ \A t \in 2 .. Len(commitment.terms) : Allowed(commitment.terms[t])
        /\ \A p \in proposals : Allowed(p.change)
        /\ \A f \in DOMAIN commitment.facts :
               /\ commitment.facts[f].amount \in bounds.paid
               /\ Len(commitment.facts[f].settled) <= bounds.settled
               /\ commitment.facts[f].kind = "EXTERNAL_LIABILITY" => bounds.charges

\* How many rows, or how much of them, have the date of a day.
RowsOf(day) ==
    LET Facts == DOMAIN dated.facts
    IN  <<Cardinality({f \in Facts : dated.facts[f].on = day}),
          MapThenSumSet(LAMBDA f : dated.facts[f].reversed[day], Facts),
          MapThenSumSet(LAMBDA f : dated.facts[f].unsettled[day], Facts),
          MapThenSumSet(LAMBDA f : Cardinality({s \in DOMAIN dated.facts[f].settled :
                                       dated.facts[f].settled[s] = day}), Facts),
          Cardinality({a \in DOMAIN dated.adjustments : dated.adjustments[a] = day}),
          dated.cancelled = day>>

MCNext ==
    /\ UNCHANGED situation
    /\ \/ /\ situation = "dated"
          /\ Next /\ UNCHANGED dated
       \/ /\ situation = "negotiated"
          /\ Next /\ UNCHANGED dated
          /\ commitment'.first \in {commitment.first, today}
       \/ /\ situation = "reviewed"
          /\ ReviewNext
          /\ commitment'.first \in {commitment.first, today}
          /\ \A day \in 1 .. (today - 1) : RowsOf(day)' = RowsOf(day)
    /\ Within'

MCSpec == MCInit /\ [][MCNext]_<<reviewVars, situation>>

\* The months of a review add up and are kept, as ReviewIsKept says, where all rows are of
\* the day they are written: a row of a day gone by changes the review of that day.
ReviewIsKeptOnceWritten ==
    /\ [](situation = "reviewed" => ReviewAddsUp)
    /\ [][situation = "reviewed" => OverviewsAreKept]_<<reviewVars, situation>>
=============================================================================
