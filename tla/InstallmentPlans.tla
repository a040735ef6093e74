-------------------------- MODULE InstallmentPlans --------------------------
(***************************************************************************)
(* An installment commitment: its installments, their facts, what was      *)
(* anticipated, paid off at once or cancelled, and the commands on them.   *)
(* Every command is one transaction under the lock of the commitment, with *)
(* the versions it names current.  A command reads the plan through the    *)
(* constructors of Installment and InstallmentPlan, which refuse what is   *)
(* not consistent, and most commands read it again before they commit: a   *)
(* plan that cannot be read then is rolled back.  Shares, obligations      *)
(* (SettlementLedger), closure destinations (ClosureBooks) and receipts    *)
(* are left out.                                                           *)
(***************************************************************************)
EXTENDS NonRecurringTerms, SequencesExt

CONSTANTS Amounts,        \* the amounts of the installments, in order
          Dues,           \* their due dates, increasing
          LastDay,        \* bound on the days
          Personal,       \* whether the space is a personal one
          Kinds,          \* the kinds of facts recorded
          Paid,           \* the amounts of facts, anticipations and payoffs
          Deltas,         \* the adjustments
          Totals,         \* the new amounts of what is still to be paid
          MaxFacts, MaxPayoffs, MaxTerms   \* bounds on each

ASSUME InstallmentsAssumption ==
    /\ Amounts \in Seq(Nat \ {0}) /\ LastDay \in Nat
    /\ Paid \subseteq Nat \ {0} /\ Totals \subseteq Nat \ {0}
    /\ Deltas \subseteq Int

VARIABLES
    today,
    installments,  \* [terms, first, facts, status, anticipation, resolutions]
    payoffs        \* sequence of [expected, paid, compensated]

vars == <<today, installments, payoffs>>

Positions == DOMAIN Amounts
None == [expected |-> 0, paid |-> 0]     \* no anticipation
Never == LastDay + 1                      \* the day of a fact there is not

\* What an installment costs from a day on, and what changes it by an amount.
Version(from, amount) == [kind |-> "VERSION", from |-> from, amount |-> amount]
Adjustment(by)        == [kind |-> "ADJUSTMENT", from |-> 0, amount |-> by]

NewInstallment(amount) ==
    [terms |-> <<Version(0, amount)>>, first |-> Never, facts |-> <<>>,
     status |-> "PENDING", anticipation |-> None, resolutions |-> <<>>]

\* create-installment-commitment
Init ==
    /\ today = 1
    /\ installments = [i \in Positions |-> NewInstallment(Amounts[i])]
    /\ payoffs = <<>>

-----------------------------------------------------------------------------
(***************************************************************************)
(* An installment as it is read.                                           *)
(***************************************************************************)
Effective(item, day) ==
    Amount(item, day) + item.anticipation.paid - item.anticipation.expected

\* The occurrence that is read for it.
Row(item, day) ==
    [terms |-> 1, version |-> 1, amount |-> Effective(item, day), status |-> item.status,
     values |-> <<>>, adjusted |-> Adjustments(item), facts |-> item.facts]

Reversed(item) ==
    \E f \in DOMAIN item.facts :
        \/ item.facts[f].reversed > 0
        \/ \E s \in DOMAIN item.facts[f].settled : item.facts[f].settled[s].reversed > 0

Resolved(item) == item.resolutions # <<>> /\ ~ Last(item.resolutions).compensated

ResolvedAs(item, type) == Resolved(item) /\ Last(item.resolutions).type = type

Left(item, day) == IF Resolved(item) THEN 0 ELSE Effective(item, day) - Fulfilled(item)

\* What the constructors of Installment and of its occurrence accept.
InstallmentCanBeRead(item, day) ==
    \A row \in {Row(item, day)}, amount \in {Amount(item, day)}, fulfilled \in {Fulfilled(item)} :
        /\ amount >= IF row.adjusted = <<>> THEN 1 ELSE 0
        /\ CanBeRead(row)
        /\ (item.anticipation # None /\ ~ Reversed(item)) =>
               /\ item.anticipation.expected = amount - (fulfilled - item.anticipation.paid)
               /\ fulfilled = row.amount
        /\ Resolved(item) =>
               /\ Last(item.resolutions).expected = amount - fulfilled
               /\ Last(item.resolutions).expected >= 1
               /\ item.anticipation = None

-----------------------------------------------------------------------------
(***************************************************************************)
(* The plan as it is read.                                                 *)
(***************************************************************************)
Compensated(pays) == {p \in DOMAIN pays : pays[p].compensated}

GlobalAdjustment(pays) ==
    SumFunction([p \in Compensated(pays) |-> pays[p].paid - pays[p].expected])

\* The payoff that stands, or 0.
Payoff(pays) == IF pays = <<>> \/ Last(pays).compensated THEN 0 ELSE Len(pays)

\* Mistake: what a payoff that was reversed changed is forgotten.
ItemsRemaining(items, pays, day) == SumFunction([i \in Positions |-> Left(items[i], day)])

PlanRemaining(items, pays, day) ==
    SumFunction([i \in Positions |-> Left(items[i], day)])
        + IF Payoff(pays) # 0 THEN 0 ELSE GlobalAdjustment(pays)

CanBeReadWith(items, pays, day) ==
    /\ \A item \in ToSet(items) : InstallmentCanBeRead(item, day)
    /\ Payoff(pays) # 0 =>
           LET paidOff == {i \in Positions : ResolvedAs(items[i], "PAYOFF")}
           IN  /\ Last(pays).expected >= 1
               /\ paidOff # {}
               /\ \A i \in paidOff : Last(items[i].resolutions).payoff = Payoff(pays)
    /\ PlanRemaining(items, pays, day) >= 0

Reads == CanBeReadWith(installments, payoffs, today)

\* Mistake: what was written is not read again.
WritesOnly == TRUE

\* Most commands read what they have written before they commit.
ReadsAgain == CanBeReadWith(installments', payoffs', today)

Item(i)   == installments[i]
RowOf(i)  == Row(Item(i), today)
LeftOf(i) == Left(Item(i), today)
PlanLeft  == PlanRemaining(installments, payoffs, today)
Open      == {i \in Positions : LeftOf(i) > 0}
Future    == {i \in Positions : Dues[i] > today}

-----------------------------------------------------------------------------
(***************************************************************************)
(* The commands.                                                           *)
(***************************************************************************)
Bumped(item, status) == [item EXCEPT !.status = status]

Takes(item, row, on) ==
    [Bumped(item, row.status) EXCEPT !.facts = row.facts, !.first = Min({@, on})]

\* assertGlobalFulfillment
IsLeft(amount) == amount <= PlanLeft

\* record-installment-commitment
Record(i, kind, amount, on) ==
    /\ Len(Item(i).facts) < MaxFacts
    /\ LeftOf(i) # 0
    /\ CanRecord(RowOf(i), amount)
    /\ IsLeft(amount)
    /\ Reads
    /\ \E row \in {WithFact(RowOf(i), kind, amount)} :
           installments' = [installments EXCEPT ![i] = Takes(@, row, on)]
    /\ UNCHANGED <<today, payoffs>>
    /\ ReadsAgain

WithSettled(i, f, amount) ==
    [Item(i) EXCEPT !.facts = WithSettlement(RowOf(i), f, amount).facts]

SettleExternal(i, f, amount) ==
    /\ CanSettle(RowOf(i), f, amount)
    /\ Reads
    /\ installments' = [installments EXCEPT ![i] = WithSettled(i, f, amount)]
    /\ UNCHANGED <<today, payoffs>>
    /\ ReadsAgain

Anticipated(i, paid, on) ==
    [Takes(Item(i), WithFact(RowOf(i), "DISBURSEMENT", paid), on)
        EXCEPT !.status = "FULFILLED",
               !.anticipation = [expected |-> LeftOf(i), paid |-> paid]]

\* Selected installments are paid before they are due, for more or for less, and
\* they are fulfilled with what was paid.  They are written one after the other, each
\* one within what the plan has left by then: so they are if all together are.
Anticipate(paid, on) ==
    LET selected == DOMAIN paid
    IN  /\ selected \subseteq Future \cap Open
        /\ \A i \in selected : /\ Item(i).anticipation = None
                               /\ Len(Item(i).facts) < MaxFacts
        /\ SumFunction([i \in selected |-> LeftOf(i)]) <= PlanLeft
        /\ Reads
        /\ installments' = [i \in Positions |->
               IF i \in selected THEN Anticipated(i, paid[i], on) ELSE Item(i)]
        /\ UNCHANGED <<today, payoffs>>
        /\ ReadsAgain

ResolvedWith(i, type, payoff) ==
    [Item(i) EXCEPT !.resolutions =
        Append(@, [type |-> type, payoff |-> payoff, expected |-> LeftOf(i),
                   compensated |-> FALSE])]

Expected == SumFunction([i \in Open |-> LeftOf(i)]) + GlobalAdjustment(payoffs)

\* payoffImpact, which the preview shows.
CanPayOff == /\ Payoff(payoffs) = 0
             /\ Open # {}
             /\ Expected >= 1

PaidOff ==
    [i \in Positions |->
        IF i \in Open THEN ResolvedWith(i, "PAYOFF", Len(payoffs) + 1) ELSE Item(i)]

NewPayoff(paid) == [expected |-> Expected, paid |-> paid, compensated |-> FALSE]

\* All that is open is paid at once, for more or for less.
PayOff(paid) ==
    /\ Len(payoffs) < MaxPayoffs
    /\ CanPayOff
    /\ Reads
    /\ payoffs' = Append(payoffs, NewPayoff(paid))
    /\ installments' = PaidOff
    /\ UNCHANGED today
    /\ ReadsAgain

WithCancelled(selected) ==
    [i \in Positions |->
        IF i \in selected THEN ResolvedWith(i, "CANCELLED", 0) ELSE Item(i)]

\* What is left of selected installments that are not due yet is given up.
CancelFuture(selected) ==
    /\ selected # {}
    /\ selected \subseteq Open \cap Future
    /\ \A i \in selected : \A f \in DOMAIN Item(i).facts :
           Item(i).facts[f].kind # "EXTERNAL_LIABILITY"
    /\ Reads
    /\ installments' = WithCancelled(selected)
    /\ UNCHANGED <<today, payoffs>>
    /\ ReadsAgain

\* financial-commitment-adjustments: the plan is not read again.
Adjust(i, by) ==
    /\ ~ Resolved(Item(i))
    /\ Item(i).anticipation = None
    /\ Len(Item(i).terms) < MaxTerms
    /\ CanAdjust(RowOf(i), by)
    /\ Reads
    /\ installments' = [installments EXCEPT
           ![i].terms = Append(@, Adjustment(by)),
           ![i].status = Adjusted(RowOf(i), by).status]
    /\ UNCHANGED <<today, payoffs>>

\* financial-fulfillment-reversals: the plan is read again if it is shared.
ReverseFact(i, f, amount) ==
    /\ ~ ResolvedAs(Item(i), "PAYOFF")
    /\ CanReverse(RowOf(i), f, amount)
    /\ Reads
    /\ LET row == WithReversal(RowOf(i), f, amount)
       IN  installments' = [installments EXCEPT ![i].facts = row.facts,
                                                ![i].status = row.status]
    /\ UNCHANGED <<today, payoffs>>
    /\ ~ Personal => ReadsAgain

ReverseSettlement(i, f, s, amount) ==
    /\ CanReverseSettlement(RowOf(i), f, s, amount)
    /\ Reads
    /\ LET row == WithSettlementReversal(RowOf(i), f, s, amount)
       IN  installments' = [installments EXCEPT ![i].facts = row.facts,
                                                ![i].status = row.status]
    /\ UNCHANGED <<today, payoffs>>

\* A payoff is reversed in full, and what it resolved is open again.
Reopened(item) ==
    IF ResolvedAs(item, "PAYOFF")
    THEN [item EXCEPT !.resolutions[Len(item.resolutions)].compensated = TRUE]
    ELSE item

\* The reversal of a payoff does not read the plan.
ReversePayoff ==
    /\ Payoff(payoffs) # 0
    /\ payoffs' = [payoffs EXCEPT ![Payoff(payoffs)].compensated = TRUE]
    /\ installments' = [i \in Positions |-> Reopened(Item(i))]
    /\ UNCHANGED today

\* non-recurring-commitment-changes: selected installments nothing was ever paid of
\* cost another total from a later day on, in the proportion of what they cost.
Upto(selected, i, day) ==
    SumFunction([j \in {j \in selected : j <= i} |-> Amount(Item(j), day)])

Portion(selected, i, day, total) ==
    LET all == SumFunction([j \in selected |-> Amount(Item(j), day)])
    IN  (total * Upto(selected, i, day)) \div all
            - (total * Upto(selected, i - 1, day)) \div all

ChangeTerms(selected, day, total) ==
    /\ day > today
    /\ \A i \in Positions : \A t \in DOMAIN Item(i).terms : Item(i).terms[t].from < day
    /\ selected # {}
    /\ \A i \in selected : /\ Item(i).resolutions = <<>>
                           /\ Item(i).anticipation = None
                           /\ Item(i).facts = <<>>
                           /\ Dues[i] >= day
                           /\ Len(Item(i).terms) < MaxTerms
    /\ SumFunction([i \in selected |-> Amount(Item(i), day)]) >= 1
    /\ total >= Cardinality(selected)
    /\ \A i \in selected : Portion(selected, i, day, total) >= 1
    /\ installments' = [i \in Positions |->
           IF i \in selected
           THEN [Item(i) EXCEPT !.terms =
                    Append(@, Version(day, Portion(selected, i, day, total)))]
           ELSE Item(i)]
    /\ UNCHANGED <<today, payoffs>>

Midnight == today < LastDay /\ today' = today + 1 /\ UNCHANGED <<installments, payoffs>>

Next ==
    \/ \E i \in Positions, kind \in Kinds, amount \in Paid, on \in 1 .. today :
           Record(i, kind, amount, on)
    \/ \E i \in Positions, f \in 1 .. MaxFacts, amount \in Paid :
           SettleExternal(i, f, amount) \/ ReverseFact(i, f, amount)
    \/ \E i \in Positions, f, s \in 1 .. MaxFacts, amount \in Paid :
           ReverseSettlement(i, f, s, amount)
    \/ \E selected \in SUBSET Positions \ {{}}, on \in 1 .. today :
           \E paid \in [selected -> Paid] : Anticipate(paid, on)
    \/ \E paid \in Paid : PayOff(paid)
    \/ ReversePayoff
    \/ \E selected \in SUBSET Positions : CancelFuture(selected)
    \/ \E i \in Positions, by \in Deltas : Adjust(i, by)
    \/ \E selected \in SUBSET Positions, day \in 1 .. LastDay, total \in Totals :
           ChangeTerms(selected, day, total)
    \/ Midnight

Spec == Init /\ [][Next]_vars

-----------------------------------------------------------------------------
(***************************************************************************)
(* Properties.                                                             *)
(***************************************************************************)
\* No sequence of commands leads to a plan that its constructors refuse: it could
\* neither be shown nor changed any more.
PlanCanBeRead == Reads

\* What is left to be paid of a plan that can be read follows from the money: what
\* its installments cost, less what was cancelled and what was paid for them and by
\* payoffs that stand, more or less what every payoff was dearer or cheaper.
RemainingFollowsMoney ==
    Reads =>
        PlanLeft =
            SumFunction([i \in Positions |-> Effective(Item(i), today) - Fulfilled(Item(i))
                             - IF ResolvedAs(Item(i), "CANCELLED")
                               THEN Last(Item(i).resolutions).expected ELSE 0])
            + SumOf([p \in DOMAIN payoffs |->
                         payoffs[p].paid - payoffs[p].expected
                             - IF payoffs[p].compensated THEN 0 ELSE payoffs[p].paid])

\* What the preview of a payoff accepts, the payoff accepts: when nothing changes in
\* between, the client who confirms it is not refused.
PreviewedPayoffIsAccepted ==
    (Reads /\ CanPayOff) =>
        \A paid \in Paid :
            CanBeReadWith(PaidOff, Append(payoffs, NewPayoff(paid)), today)
=============================================================================
