-------------------------- MODULE FinancialReview --------------------------
(***************************************************************************)
(* The review of the months of a space: the overview of what was spent,    *)
(* received and paid in a month, by all and by each member, the timeline   *)
(* of its entries, and the forecast of what is left of what was expected   *)
(* in it, for one commitment of OneTimeCommitments.  They are computed     *)
(* from the dates of the rows, which that module leaves out: dated has     *)
(* them.  Every day stands for a month of its own.                         *)
(*                                                                         *)
(* Overview and timeline read the facts as they were recorded, and the     *)
(* reversals as entries of their own; the forecast reads the facts less    *)
(* what was reversed of them.                                              *)
(***************************************************************************)
EXTENDS OneTimeCommitments

LOCAL INSTANCE Obligations WITH NoCycle <- 0

VARIABLE
    dated    \* [facts, adjustments, cancelled]: for each fact its day, the days of its
             \* settlements, and what was reversed of it and of them on each day

reviewVars == <<vars, dated>>

Months  == 1 .. LastDay
Nothing == [month \in Months |-> 0]

-----------------------------------------------------------------------------
(***************************************************************************)
(* The rows.                                                               *)
(***************************************************************************)
DatedFact(on) ==
    [on |-> on, settled |-> <<>>, reversed |-> Nothing, unsettled |-> Nothing]

WritesFact(on) == dated' = [dated EXCEPT !.facts = Append(@, DatedFact(on))]

WritesSettlement(f, on) == dated' = [dated EXCEPT !.facts[f].settled = Append(@, on)]

\* A reversal is not older than what it reverses.
WritesReversal(f, amount, on) ==
    /\ on >= dated.facts[f].on
    /\ dated' = [dated EXCEPT !.facts[f].reversed[on] = @ + amount]

WritesSettlementReversal(f, s, amount, on) ==
    /\ on >= dated.facts[f].settled[s]
    /\ dated' = [dated EXCEPT !.facts[f].unsettled[on] = @ + amount]

WritesChange(change, on) ==
    dated' = IF change.kind = "ADJUSTMENT"
             THEN [dated EXCEPT !.adjustments = Append(@, on)] ELSE dated

WritesCancellation(on) == dated' = [dated EXCEPT !.cancelled = on]

-----------------------------------------------------------------------------
(***************************************************************************)
(* The overview of a month.                                                *)
(***************************************************************************)
\* TARGET_DATE: what is to come is shown as it will be when it is due.
Target == Max({today, Due})

AdjustedOn(month) ==
    {a \in DOMAIN Adjustments(commitment) : dated.adjustments[a] = month}

\* correctionDelta and correctionShareDelta: of all adjustments, whatever version they
\* changed.
Delta(adjusted) == MapThenSumSet(LAMBDA a : Adjustments(commitment)[a].amount, adjusted)

ShareDelta(m, adjusted) ==
    MapThenSumSet(LAMBDA a : Adjustments(commitment)[a].shares[m], adjusted)

AllAdjusted == DOMAIN Adjustments(commitment)

\* Mistake: what was adjusted later is in the expense as well.
RecognizedAdjusted == Amount(commitment, Target)

\* The expense counts in the month of its first fact, without its adjustments.
Recognized == Amount(commitment, Target) - Delta(AllAdjusted)

RecognizedShare(m) == SharesOf(commitment, Target)[m] - ShareDelta(m, AllAdjusted)

IsRecognizedIn(month) == commitment.kind = "EXPENSE" /\ commitment.first = month

ExpenseOf(month) ==
    (IF IsRecognizedIn(month) THEN Recognized ELSE 0)
        + IF commitment.kind = "EXPENSE" THEN Delta(AdjustedOn(month)) ELSE 0

MemberExpense(m, month) ==
    (IF IsRecognizedIn(month) THEN RecognizedShare(m) ELSE 0)
        + IF commitment.kind = "EXPENSE" THEN ShareDelta(m, AdjustedOn(month)) ELSE 0

FactsOf(kind, members) ==
    {f \in DOMAIN commitment.facts :
        commitment.facts[f].kind = kind /\ commitment.by[f] \in members}

Recorded(kind, members, month) ==
    MapThenSumSet(LAMBDA f : commitment.facts[f].amount,
                  {f \in FactsOf(kind, members) : dated.facts[f].on = month})

ReversedIn(kind, members, month) ==
    MapThenSumSet(LAMBDA f : dated.facts[f].reversed[month], FactsOf(kind, members))

\* reversed_support and period_receipts
Effective(kind, members, month) ==
    Recorded(kind, members, month) - ReversedIn(kind, members, month)

SettledOf(f, month) ==
    MapThenSumSet(LAMBDA s : commitment.facts[f].settled[s].amount,
                  {s \in DOMAIN dated.facts[f].settled : dated.facts[f].settled[s] = month})

SettledIn(members, month) ==
    MapThenSumSet(LAMBDA f : SettledOf(f, month) - dated.facts[f].unsettled[month],
                  FactsOf("EXTERNAL_LIABILITY", members))

\* What was received before a month ends.
ReceivedBy(month) ==
    MapThenSumSet(LAMBDA before : Effective("RECEIPT", Parties, before), 1 .. month)

HasReceipts(month) ==
    \E f \in FactsOf("RECEIPT", Parties) :
        dated.facts[f].on = month \/ dated.facts[f].reversed[month] > 0

\* ResponsibilitySplit refuses to share an amount of zero, or more than the amount.
CanBeShared(month) ==
    HasReceipts(month) =>
        /\ Amount(commitment, Target) >= 1
        /\ \A total \in {ReceivedBy(month - 1), ReceivedBy(month)} :
               total <= Amount(commitment, Target)

\* realizedIncomeDeltas
MemberIncome(m, month) ==
    LET shares(total) == Shares(total, SplitOf(commitment, Target))
    IN  IF HasReceipts(month)
        THEN shares(ReceivedBy(month))[m] - shares(ReceivedBy(month - 1))[m] ELSE 0

\* reviewMetrics
Metrics(expense, income, members, month) ==
    LET paid    == Effective("DISBURSEMENT", members, month)
        assumed == Effective("EXTERNAL_LIABILITY", members, month)
        settled == SettledIn(members, month)
    IN  [expense   |-> expense,
         income    |-> income,
         result    |-> income - expense,
         paid      |-> paid,
         received  |-> Effective("RECEIPT", members, month),
         assumed   |-> assumed,
         settled   |-> settled,
         disbursed |-> paid + settled,
         supported |-> paid + assumed]

TotalMetrics(month) ==
    Metrics(ExpenseOf(month), Effective("RECEIPT", Parties, month), Parties, month)

MemberMetrics(m, month) ==
    Metrics(MemberExpense(m, month), MemberIncome(m, month), {m}, month)

\* overview
Overview(month) ==
    [totals |-> TotalMetrics(month),
     byMember |-> [m \in Parties |-> MemberMetrics(m, month)]]

-----------------------------------------------------------------------------
(***************************************************************************)
(* The timeline, as the sum of its entries of each type, and the forecast. *)
(***************************************************************************)
Positive(amount) == Max({amount, 0})

AdjustedBy(sign, month) ==
    MapThenSumSet(LAMBDA a : Positive(sign * Adjustments(commitment)[a].amount),
                  AdjustedOn(month))

Timeline(month) ==
    LET recognized == IF IsRecognizedIn(month) THEN Recognized ELSE 0
        of(kind)   == IF commitment.kind = kind THEN 1 ELSE 0
    IN  [EXPENSE              |-> Positive(recognized),
         EXPENSE_SURCHARGE    |-> of("EXPENSE") * AdjustedBy(1, month),
         EXPENSE_DISCOUNT     |-> Positive(- recognized)
                                      + of("EXPENSE") * AdjustedBy(-1, month),
         INCOME_INCREASE      |-> of("INCOME") * AdjustedBy(1, month),
         INCOME_DECREASE      |-> of("INCOME") * AdjustedBy(-1, month),
         CANCELLATION         |-> IF dated.cancelled = month
                                  THEN commitment.terms[1].amount ELSE 0,
         DISBURSEMENT         |-> Recorded("DISBURSEMENT", Parties, month),
         RECEIPT              |-> Recorded("RECEIPT", Parties, month),
         DISBURSEMENT_REVERSAL |-> ReversedIn("DISBURSEMENT", Parties, month),
         RECEIPT_REVERSAL      |-> ReversedIn("RECEIPT", Parties, month)]

\* forecast: what is expected in a month and not all of it done.
NothingExpected == [expected |-> 0, fulfilled |-> 0, remaining |-> 0]

IsExpected(month) ==
    /\ month = Due
    /\ ~ commitment.cancelled
    /\ commitment.kind = "INCOME" => Due >= today
    /\ Fulfilled(commitment) < Amount(commitment, Target)

Forecast(month) ==
    IF IsExpected(month)
    THEN [expected  |-> Amount(commitment, Target),
          fulfilled |-> Fulfilled(commitment),
          remaining |-> Amount(commitment, Target) - Fulfilled(commitment)]
    ELSE NothingExpected

-----------------------------------------------------------------------------
ReviewInit ==
    /\ Init
    /\ dated = [facts |-> <<>>, adjustments |-> <<>>, cancelled |-> Never]

\* A change that needs no acceptance, or that was proposed and is accepted: a proposal
\* shows in no review before it is.
TakesEffect(change) ==
    IsAllowed(change) /\ Apply(change) /\ UNCHANGED <<today, proposals>>

ReviewNext ==
    \/ \E m \in Persons, amount \in Paid, on \in FactDays :
           /\ Pay(m, amount, on) \/ Charge(m, amount, on) \/ Receive(m, amount, on)
           /\ WritesFact(on)
    \/ \E f \in DOMAIN commitment.facts, amount \in Paid, on \in FactDays :
           \/ SettleExternal(f, amount) /\ WritesSettlement(f, on)
           \/ ReverseFact(f, amount) /\ WritesReversal(f, amount, on)
           \/ \E s \in DOMAIN commitment.facts[f].settled :
                  /\ ReverseSettlement(f, s, amount)
                  /\ WritesSettlementReversal(f, s, amount, on)
    \/ Cancel /\ \E on \in FactDays : WritesCancellation(on)
    \/ \E change \in AllChanges, on \in FactDays :
           TakesEffect(change) /\ WritesChange(change, on)
    \/ Midnight /\ UNCHANGED dated

ReviewSpec == ReviewInit /\ [][ReviewNext]_reviewVars

-----------------------------------------------------------------------------
(***************************************************************************)
(* Properties.                                                             *)
(***************************************************************************)
OverMonths(metric(_)) == MapThenSumSet(metric, Months)

\* What the members did adds up to what was done.
MembersAddUp(month, totals) ==
    CanBeShared(month) =>
        \A first \in {MemberMetrics(First, month)}, second \in {MemberMetrics(Second, month)} :
            \A metric \in DOMAIN totals : totals[metric] = first[metric] + second[metric]

\* The entries of a month add up to its overview, though other queries read them.
TimelineAddsUp(totals, timeline) ==
    /\ totals.expense = timeline.EXPENSE + timeline.EXPENSE_SURCHARGE - timeline.EXPENSE_DISCOUNT
    /\ totals.paid = timeline.DISBURSEMENT - timeline.DISBURSEMENT_REVERSAL
    /\ totals.received = timeline.RECEIPT - timeline.RECEIPT_REVERSAL

\* The months explain what is owed: each is owed what it supported above its part.
OwedAsReviewed ==
    owed = ExpenseDifference(
               [m \in Parties |-> OverMonths(LAMBDA month : MemberMetrics(m, month).expense)],
               [m \in Parties |-> OverMonths(LAMBDA month : MemberMetrics(m, month).supported)],
               0)

\* What is forecast is what was spent and nobody has supported yet.
ForecastIsTheRest ==
    ~ commitment.cancelled =>
        OverMonths(LAMBDA month : Forecast(month).remaining) =
            OverMonths(LAMBDA month : TotalMetrics(month).expense - TotalMetrics(month).supported)

ReviewAddsUp ==
    /\ \A month \in Months :
           \A totals \in {TotalMetrics(month)}, timeline \in {Timeline(month)} :
               MembersAddUp(month, totals) /\ TimelineAddsUp(totals, timeline)
    /\ (Reads /\ commitment.kind = "EXPENSE" /\ commitment.facts # <<>>) =>
           OwedAsReviewed /\ ForecastIsTheRest

\* The overview of the expenses of a month that is over stays as it is, whatever is
\* reversed, adjusted or changed later.
OverviewsAreKept ==
    commitment.kind = "EXPENSE" =>
        \A month \in 1 .. (today - 1) : Overview(month)' = Overview(month)

\* The months of a review add up, and explain what is owed, and they are kept.
ReviewIsKept == []ReviewAddsUp /\ [][OverviewsAreKept]_reviewVars

\* The overview of a month can be read for ever.
MonthCanBeRead == Reads => \A month \in Months : CanBeShared(month)
=============================================================================
