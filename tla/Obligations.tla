---------------------------- MODULE Obligations ----------------------------
(***************************************************************************)
(* What one member of a space owes the other: the value object             *)
(* InterMemberObligation, the difference an expense leaves between its two *)
(* members, and the two plans that write obligations, the reconciliation   *)
(* of an origin and the reversal of a settlement.                          *)
(*                                                                         *)
(* A shared space has two members, so that the creditor of an obligation   *)
(* is the one who is not its debtor, and a difference, {debtor, creditor,  *)
(* amount} or null, is an integer: what Second owes First, negative when   *)
(* First is the debtor, 0 when it is null.                                 *)
(*                                                                         *)
(* The obligations of a space are a sequence in the order in which they    *)
(* were registered; an obligation is identified by its index.  Of its      *)
(* origin it keeps the source (the commitment with its occurrence, or the  *)
(* closure agreement) and the sequence of the fact it arose from.          *)
(***************************************************************************)
EXTENDS Integers, Sequences, Functions

CONSTANTS First, Second,  \* the members, in the order of the split
          NoCycle         \* the cycle of an obligation that is in none

ASSUME MembersAssumption == First # Second

Parties    == {First, Second}
Other(m)   == IF m = First THEN Second ELSE First
Abs(n)     == IF n < 0 THEN -n ELSE n
Debtor(difference) == IF difference > 0 THEN Second ELSE First

\* An amount of an obligation, seen as what Second owes First.
Signed(obligation, amount) ==
    IF obligation.debtor = Second THEN amount ELSE -amount

-----------------------------------------------------------------------------
(***************************************************************************)
(* InterMemberObligation                                                   *)
(***************************************************************************)
IsOpen(obligation) == obligation.remaining > 0

\* The status the constructor derives; closedAs is the one of an obligation of
\* which nothing remains.
Status(remaining, recognized, closedAs) ==
    IF remaining = 0 THEN closedAs
    ELSE IF remaining = recognized THEN "OPEN" ELSE "PARTIALLY_SETTLED"

NewObligation(source, fact, difference, cycle) ==
    [source     |-> source,
     fact       |-> fact,
     debtor     |-> Debtor(difference),
     recognized |-> Abs(difference),
     remaining  |-> Abs(difference),
     status     |-> "OPEN",
     cycle      |-> cycle]

Settle(o, amount) ==
    [o EXCEPT !.remaining = @ - amount,
              !.status    = Status(o.remaining - amount, o.recognized,
                                   "SETTLED")]

Waive(o, amount) ==
    [o EXCEPT !.remaining = @ - amount,
              !.status    = Status(o.remaining - amount, o.recognized,
                                   "WAIVED")]

\* What closes an obligation that is not paid but written to nothing.
Written(o) == IF o.status = "WAIVED" THEN "WAIVED" ELSE "RECONCILED"

\* Mistake: what was resolved of the obligation is forgotten.
ReconciledAnew(o, remaining) ==
    [o EXCEPT !.recognized = remaining,
              !.remaining  = remaining,
              !.status     = Status(remaining, remaining, Written(o))]

Reconciled(o, remaining) ==
    LET recognized == (o.recognized - o.remaining) + remaining
    IN  [o EXCEPT !.recognized = recognized,
                  !.remaining  = remaining,
                  !.status     = Status(remaining, recognized, Written(o))]

ResolutionReversed(o, remaining, reversed) ==
    LET recognized == ((o.recognized - o.remaining) - reversed) + remaining
    IN  [o EXCEPT !.recognized = recognized,
                  !.remaining  = remaining,
                  !.status     = Status(remaining, recognized, Written(o))]

-----------------------------------------------------------------------------
(***************************************************************************)
(* expenseDifference and correctedExpenseDifference, for the shares of the *)
(* members, what each has paid, and what has been resolved: the signed sum *)
(* of the transfers, offsets and waivers that have not been reversed.      *)
(***************************************************************************)
ExpenseDifference(shares, paid, resolved) ==
    LET excess(m) == paid[m] - shares[m]
                        + (IF m = First THEN -resolved ELSE resolved)
    IN  IF excess(First) > 0 THEN excess(First)
        ELSE IF excess(Second) > 0 THEN -excess(Second)
        ELSE 0

\* Mistake: what was paid back in excess is not owed.
CorrectedAsUsual(shares, paid, resolved) ==
    ExpenseDifference(shares, paid, resolved)

\* Once a fact has been reversed every resolution keeps its effect: what has been
\* paid back in excess is owed the other way round.
CorrectedDifference(shares, paid, resolved) ==
    ExpenseDifference(shares, paid, 0) - resolved

-----------------------------------------------------------------------------
(***************************************************************************)
(* planObligationReconciliation, for the indices of the obligations of one *)
(* origin.                                                                 *)
(***************************************************************************)
\* The order of the facts, then that of registration.
Latest(obligations, ids) ==
    {i \in ids : \A j \in ids :
        \/ obligations[j].fact < obligations[i].fact
        \/ obligations[j].fact = obligations[i].fact /\ j <= i}

OpenIds(obligations, ids) == {i \in ids : IsOpen(obligations[i])}

Matching(obligations, ids, difference) ==
    IF difference = 0 THEN {}
    ELSE {i \in ids : obligations[i].debtor = Debtor(difference)}

\* The obligation that takes up the difference: the open one, or the last one if it
\* was settled and its cycle is not finalized.
Reused(obligations, ids, difference, finalized) ==
    LET matching == Matching(obligations, ids, difference)
        open     == OpenIds(obligations, ids) \cap matching
    IN  IF open # {} THEN open
        ELSE {i \in Latest(obligations, ids) \cap matching :
                  /\ obligations[i].status = "SETTLED"
                  /\ obligations[i].cycle \notin finalized}

Remainder(i, reused, difference) == IF i \in reused THEN Abs(difference) ELSE 0

\* Mistake: an open obligation in the other direction stays as it is.
ChangedReused(obligations, ids, reused, difference) ==
    {i \in ids \cap reused :
        obligations[i].remaining # Remainder(i, reused, difference)}

\* Those it changes: the reused one, and any other that is open.
ChangedIds(obligations, ids, reused, difference) ==
    {i \in ids : obligations[i].remaining # Remainder(i, reused, difference)}

-----------------------------------------------------------------------------
(***************************************************************************)
(* planSettlementReversal, for the indices of the obligations of one       *)
(* source and the amounts of theirs that are reversed.                     *)
(***************************************************************************)
Outstanding(obligations, ids) ==
    SumFunction([i \in ids |->
                    Signed(obligations[i], obligations[i].remaining)])

\* Mistake: what is still open is left out of the balance.
NetOfApplications(obligations, ids, reversed) ==
    SumFunction([i \in ids |-> Signed(obligations[i], reversed[i])])

NetAfterReversal(obligations, ids, reversed) ==
    Outstanding(obligations, ids)
        + SumFunction([i \in ids |-> Signed(obligations[i], reversed[i])])

\* Mistake: a reversal writes in finalized cycles too.
WritableAnyway(obligations, ids, finalized) == ids

WritableIds(obligations, ids, finalized) ==
    {i \in ids : obligations[i].cycle \notin finalized}

\* The open obligation that takes up the net, or else one of those reversed.
ReusedInReversal(obligations, writable, reversed, net) ==
    LET matching == Matching(obligations, writable, net)
        open     == OpenIds(obligations, matching)
    IN  IF open # {} THEN open ELSE {i \in matching : reversed[i] > 0}
=============================================================================
