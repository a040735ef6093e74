-------------------------- MODULE InstallmentViews ---------------------------
(***************************************************************************)
(* What the members see of an installment commitment: how it was laid out, *)
(* what each of them bears of every installment, and what the screens of   *)
(* the anticipation and of the payoff offer and preview.                   *)
(*                                                                         *)
(* The shares are those of the plan as it was created: of commitments      *)
(* whose terms are changed or adjusted only the amounts are modelled       *)
(* (InstallmentPlans).  One of the members, Actor, makes every             *)
(* anticipation and payoff, and bears what they are dearer.                *)
(***************************************************************************)
EXTENDS InstallmentPlans, ResponsibilitySplit

LOCAL Cal == INSTANCE RecurrenceCalendar

CONSTANTS Weights,   \* the parts of the members, in the order of their ids
          Actor,     \* one of them
          PageSize   \* the items of a page (20 in the code)

ASSUME ViewsAssumption ==
    /\ SumOf(Weights) > 0
    /\ Actor \in DOMAIN Weights
    /\ PageSize \in Nat \ {0}

-----------------------------------------------------------------------------
(***************************************************************************)
(* The layout: amounts given one by one, one for all of them, or a total   *)
(* of which the last installment takes the rest; dates given one by one or *)
(* a first one and a cadence.                                              *)
(***************************************************************************)
IsLayout(input) ==
    CASE input.mode = "AMOUNTS" -> /\ Len(input.amounts) = input.count
                                   /\ \A i \in 1 .. input.count : input.amounts[i] >= 1
      [] input.mode = "BASE"    -> input.amount >= 1
      [] input.mode = "TOTAL"   -> input.amount \div input.count >= 1

LaidOut(input) ==
    LET base == input.amount \div input.count
    IN  [i \in 1 .. input.count |->
            CASE input.mode = "AMOUNTS" -> input.amounts[i]
              [] input.mode = "BASE"    -> input.amount
              [] input.mode = "TOTAL"   -> IF i < input.count THEN base
                                           ELSE input.amount - base * (i - 1)]

\* Every date is counted from the first one, not from the one before it.
PeriodicDate(first, cadence, offset) ==
    Cal!ScheduledDate(Cal!MonthAfter(Cal!MonthOf(first),
                                     IF cadence = "ANNUAL" THEN 12 * offset ELSE offset),
                      first % 100)

-----------------------------------------------------------------------------
(***************************************************************************)
(* What the members bear.                                                  *)
(***************************************************************************)
Minus(shares, others) == [m \in DOMAIN shares |-> shares[m] - others[m]]
Plus(shares, others)  == [m \in DOMAIN shares |-> shares[m] + others[m]]

\* Of an installment a member bears what it adds to the part of all up to it.
SharesFor(i) ==
    Minus(Realized(Weights, SumOf(SubSeq(Amounts, 1, i))),
          Realized(Weights, SumOf(SubSeq(Amounts, 1, i - 1))))

\* The commitment as it is shown before it is created.
CreationPreview(input) ==
    LET amounts == LaidOut(input)
        upto(i) == SumOf(SubSeq(amounts, 1, i))
    IN  [total        |-> upto(input.count),
         installments |-> [i \in 1 .. input.count |->
             [amount |-> amounts[i],
              shares |-> Minus(Realized(Weights, upto(i)), Realized(Weights, upto(i - 1)))]]]

\* What is less is shared in proportion, what is more is borne by Actor.
Charged(shares, amount) ==
    IF amount <= SumOf(shares) THEN Realized(shares, amount)
    ELSE [shares EXCEPT ![Actor] = @ + amount - SumOf(shares)]

EffectiveSharesFor(i) ==
    IF Item(i).anticipation = None THEN SharesFor(i)
    ELSE Charged(SharesFor(i), Effective(Item(i), today))

RemainingShares(i) ==
    LET planned == SharesFor(i)
    IN  IF LeftOf(i) = 0 THEN [m \in DOMAIN planned |-> 0]
        ELSE IF Fulfilled(Item(i)) = 0 THEN planned
        ELSE Minus(planned, Realized(planned, Fulfilled(Item(i))))

ExpectedShares ==
    FoldSet(LAMBDA i, sum : Plus(RemainingShares(i), sum),
            [m \in DOMAIN Weights |-> 0], Open)

\* The commitment an installment, or a payoff, is reconciled as.
Synthetic(i) ==
    [amount |-> Effective(Item(i), today), shares |-> EffectiveSharesFor(i),
     paid |-> Fulfilled(Item(i))]

SyntheticPayoff(paid) ==
    [amount |-> paid, shares |-> Charged(ExpectedShares, paid), paid |-> paid]

-----------------------------------------------------------------------------
(***************************************************************************)
(* The screens.                                                            *)
(***************************************************************************)
InstallmentView(i) ==
    [status    |-> IF Resolved(Item(i)) THEN Last(Item(i).resolutions).type
                   ELSE Item(i).status,
     effective |-> Effective(Item(i), today),
     fulfilled |-> Fulfilled(Item(i)),
     remaining |-> LeftOf(i),
     shares    |-> EffectiveSharesFor(i)]

PlanFulfilled ==
    SumOf([i \in Positions |-> Fulfilled(Item(i))])
        + IF Payoff(payoffs) = 0 THEN 0 ELSE Last(payoffs).paid

PlanView ==
    [total        |-> SumOf([i \in Positions |-> Amount(Item(i), today)]),
     fulfilled    |-> PlanFulfilled,
     remaining    |-> PlanLeft,
     adjustment   |-> GlobalAdjustment(payoffs),
     installments |-> [i \in Positions |-> InstallmentView(i)]]

\* Of an installment that is to be paid.
FulfilmentOptions(i) == [commitment |-> PlanView, installment |-> InstallmentView(i)]

\* What can be anticipated, from the last installment backwards.
AnticipationOptions(after) ==
    LET rest == {i \in Future : after = 0 \/ i < after}
        page == {i \in rest : Cardinality({j \in rest : j >= i}) <= PageSize}
    IN  [items    |-> page,
         eligible |-> page \cap Open,
         total    |-> Cardinality(Future \cap Open),
         next     |-> IF rest = page THEN 0 ELSE Min(page)]

\* Installments by name, or so many of the last ones that are open.
LastOpen(quantity) ==
    {i \in Future \cap Open : Cardinality({j \in Future \cap Open : j >= i}) <= quantity}

\* selectForAnticipation
CanAnticipate(selected) ==
    /\ selected # {}
    /\ selected \subseteq Future \cap Open
    /\ \A i \in selected : Item(i).anticipation = None
    /\ SumFunction([i \in selected |-> LeftOf(i)]) <= PlanLeft

AnticipationPreview(paid) ==
    [i \in DOMAIN paid |->
        [effective  |-> Fulfilled(Item(i)) + paid[i],
         adjustment |-> paid[i] - LeftOf(i),
         shares     |-> Charged(SharesFor(i), Fulfilled(Item(i)) + paid[i])]]

\* What can be resolved, from the first installment on, and what of it given up.
IsGivenUp(i) ==
    /\ i \in Future
    /\ \A f \in DOMAIN Item(i).facts : Item(i).facts[f].kind # "EXTERNAL_LIABILITY"

ResolutionOptions(after) ==
    LET rest == {i \in Open : i > after}
        page == {i \in rest : Cardinality({j \in rest : j <= i}) <= PageSize}
    IN  [items       |-> page,
         cancellable |-> {i \in page : IsGivenUp(i)},
         expected    |-> SumFunction([i \in Open |-> LeftOf(i)]),
         next        |-> IF rest = page THEN 0 ELSE Max(page)]

PayoffPreview(paid) ==
    [items |-> Open, expected |-> Expected, adjustment |-> paid - Expected,
     expectedShares |-> ExpectedShares, shares |-> SyntheticPayoff(paid).shares]

\* What the screen of the day shows of the plan: in each bucket its first installment
\* with something left, an anticipated one at the amount of its anticipation.
DueOn(i) == Max({today, Dues[i]})

BucketAmount(i) ==
    IF Item(i).anticipation = None THEN Amount(Item(i), DueOn(i))
    ELSE Effective(Item(i), DueOn(i))

BucketOf(i) ==
    IF Dues[i] < today THEN "OVERDUE" ELSE IF Dues[i] = today THEN "TODAY" ELSE "UPCOMING"

BucketItem(bucket) ==
    LET due == {i \in Positions : /\ BucketOf(i) = bucket
                                  /\ ~ Resolved(Item(i))
                                  /\ Fulfilled(Item(i)) < BucketAmount(i)}
    IN  IF due = {} THEN [item |-> 0]
        ELSE [item |-> Min(due), remaining |-> BucketAmount(Min(due)) - Fulfilled(Item(Min(due)))]

\* The installment of its older list of what is planned: the SQL asks for its status, and
\* takes the amount it was planned at.
PlannedItem ==
    LET planned == {i \in Positions : /\ ~ Resolved(Item(i))
                                      /\ Item(i).status # "FULFILLED"
                                      /\ Fulfilled(Item(i)) < Amount(Item(i), DueOn(i))}
        first   == Min(planned)
    IN  IF planned = {} THEN [item |-> 0]
        ELSE [item |-> first,
              remaining |-> Amount(Item(first), DueOn(first)) - Fulfilled(Item(first))]

\* globalOrigin: a payoff as the origin of what is reversed, which it is all at once.
PayoffOrigin ==
    [paid |-> Last(payoffs).paid, resolved |-> {i \in Positions : ResolvedAs(Item(i), "PAYOFF")}]

PayoffReversalPreview(amount) ==
    [eligible |-> amount = PayoffOrigin.paid,
     fulfilled |-> PayoffOrigin.paid - amount, remaining |-> amount,
     cash |-> amount, supported |-> -amount, external |-> 0]

-----------------------------------------------------------------------------
(***************************************************************************)
(* Properties, of plans whose amounts are never changed.                   *)
(***************************************************************************)
\* Neither its terms nor its amounts have changed, and it owes nothing to others.
AsPlanned ==
    \A i \in Positions :
        /\ Len(Item(i).terms) = 1
        /\ \A f \in DOMAIN Item(i).facts : Item(i).facts[f].kind = "DISBURSEMENT"

\* What is offered is tried after one payoff at the most: this bounds the search.
FewPayoffs == Len(payoffs) <= 1

RECURSIVE AnticipationPages(_)
AnticipationPages(after) ==
    LET page == AnticipationOptions(after)
    IN  page.items \cup IF page.next = 0 THEN {} ELSE AnticipationPages(page.next)

RECURSIVE ResolutionPages(_)
ResolutionPages(after) ==
    UNION {page.items \cup IF page.next = 0 THEN {} ELSE ResolutionPages(page.next) :
              page \in {ResolutionOptions(after)}}

Shares(shares, amount) ==
    /\ SumOf(shares) = amount
    /\ \A m \in DOMAIN shares : shares[m] >= 0

\* What the members bear adds up: of every installment as it was planned, as it is now
\* and as far as it is left, and of all that is left.
SharesAddUp ==
    \A i \in Positions : \A synthetic \in {Synthetic(i)} :
        /\ Shares(SharesFor(i), Amounts[i])
        /\ Shares(synthetic.shares, synthetic.amount)
        /\ synthetic.paid <= synthetic.amount
        /\ Item(i).anticipation = None => Shares(RemainingShares(i), LeftOf(i))

\* What can be selected is anticipated as it was previewed, whatever is paid for it,
\* also when a payoff was reversed before.
AnticipationsArePreviewed ==
    \A selected \in SUBSET Positions :
        (/\ CanAnticipate(selected)
         /\ \A i \in selected : Len(Item(i).facts) < MaxFacts
         /\ FewPayoffs) =>
            \A paid \in [selected -> Paid] : \A preview \in {AnticipationPreview(paid)} :
                ENABLED (/\ Anticipate(paid, today)
                         /\ \A i \in selected :
                                InstallmentView(i)' =
                                    [status |-> "FULFILLED", remaining |-> 0,
                                     effective |-> preview[i].effective,
                                     fulfilled |-> preview[i].effective,
                                     shares |-> preview[i].shares])

\* Of a plan no payoff of which was reversed: all that is left is paid as it was
\* previewed, and what its members bear of it is what they were shown.
PayoffsArePreviewed ==
    (CanPayOff /\ payoffs = <<>> /\ \A i \in Open : Item(i).anticipation = None) =>
        \A paid \in Paid : \A preview \in {PayoffPreview(paid)}, fulfilled \in {PlanFulfilled} :
            /\ Shares(preview.expectedShares, preview.expected)
            /\ Shares(preview.shares, paid)
            /\ ENABLED (/\ PayOff(paid)
                        /\ PlanLeft' = 0
                        /\ PlanFulfilled' = fulfilled + paid)

\* What is previewed is created.
CreationIsPreviewed ==
    LET input == [mode |-> "AMOUNTS", amounts |-> Amounts, count |-> Len(Amounts)]
        view  == CreationPreview(input)
    IN  /\ IsLayout(input)
        /\ IsDistribution("AMOUNTS", Weights, view.total)
        /\ \A i \in Positions :
               /\ Head(Item(i).terms).amount = view.installments[i].amount
               /\ SharesFor(i) = view.installments[i].shares

\* All that is shown as left to be paid of an installment is accepted.
OptionsAreAccepted ==
    \A i \in Positions :
        (Len(Item(i).facts) < MaxFacts /\ FewPayoffs) =>
            \A shown \in {FulfilmentOptions(i)} :
                \A amount \in {Min({shown.installment.remaining,
                                    shown.commitment.remaining})} \ {0} :
                    ENABLED Record(i, "DISBURSEMENT", amount, today)

\* Page after page, every installment that is not due yet can be looked at, and every
\* one that is open can be resolved; the last ones are selected by their number.
PagesListAll ==
    /\ AnticipationPages(0) = Future
    /\ ResolutionPages(0) = Open
    /\ \A quantity \in 1 .. AnticipationOptions(0).total :
           Cardinality(LastOpen(quantity)) = quantity

\* A total is divided into equal installments of which the last takes the rest, and
\* the dates are as many months, or years, after the first as they should be.
SchedulesAddUp ==
    /\ \A count \in 1 .. 4, amount \in 1 .. 7 :
           LET input == [mode |-> "TOTAL", amount |-> amount, count |-> count]
           IN  IsLayout(input) => /\ SumOf(LaidOut(input)) = amount
                                  /\ \A i \in 1 .. count : LaidOut(input)[i] >= 1
    /\ \A cadence \in {"MONTHLY", "ANNUAL"}, offset \in 0 .. 12 :
           PeriodicDate(20240131, cadence, offset)
               < PeriodicDate(20240131, cadence, offset + 1)

\* A payoff is reversed as it was previewed, and what it resolved is open again.
ReversalsArePreviewed ==
    (Payoff(payoffs) # 0 /\ Reads) =>
        LET preview == PayoffReversalPreview(Last(payoffs).paid)
        IN  /\ preview.eligible
            /\ \A other \in Paid \ {Last(payoffs).paid} :
                   ~ PayoffReversalPreview(other).eligible
            /\ PlanView.fulfilled + preview.supported =
                   SumOf([i \in Positions |-> Fulfilled(Reopened(Item(i)))])
            /\ {i \in Positions : Left(Reopened(Item(i)), today) > 0} =
                   Open \cup PayoffOrigin.resolved

\* The screen of the day shows what the plan has open, with what is left of it.
TodayIsOpen ==
    \A bucket \in {"OVERDUE", "TODAY", "UPCOMING"} :
        LET due == {i \in Open : BucketOf(i) = bucket}
        IN  BucketItem(bucket) =
                IF due = {} THEN [item |-> 0]
                ELSE [item |-> Min(due), remaining |-> InstallmentView(Min(due)).remaining]

\* A reversal opens an anticipated installment again for what is left of what it cost,
\* wherever the day shows it.
PlannedAsLeft ==
    PlannedItem.item # 0 => PlannedItem.remaining = LeftOf(PlannedItem.item)

\* What the screens of a plan show can be read and is right: what its members bear adds
\* up, what is previewed is what happens, and every page is reached.
PlanIsShown ==
    AsPlanned =>
        /\ PlanCanBeRead
        /\ CreationIsPreviewed
        /\ SharesAddUp
        /\ OptionsAreAccepted
        /\ AnticipationsArePreviewed
        /\ PayoffsArePreviewed
        /\ ReversalsArePreviewed
        /\ TodayIsOpen
        /\ PagesListAll
        /\ SchedulesAddUp
=============================================================================
