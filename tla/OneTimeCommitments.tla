------------------------- MODULE OneTimeCommitments -------------------------
(***************************************************************************)
(* An expense or an income that is due once: what it costs as its versions *)
(* take effect and its amount is adjusted, what is paid or received of it, *)
(* the reversals of that, the changes one member proposes and the other    *)
(* decides on, and what one member owes the other for it.                  *)
(*                                                                         *)
(* Every command is one transaction under the lock of the commitment, with *)
(* the versions it names current.  It reads the commitment through its     *)
(* constructor, which refuses what is not consistent; some commands read   *)
(* it again before they commit.  What is owed is the difference the last   *)
(* reconciliation of the commitment was given; the obligations that carry  *)
(* it, and the transfers that settle them, are SettlementLedger's.         *)
(***************************************************************************)
EXTENDS NonRecurringTerms

CONSTANTS First, Second,   \* the members, in the order of their ids
          Kinds,           \* EXPENSE, INCOME or both
          Personal,        \* whether the space is a personal one
          Planned,         \* the first versions, [amount, distribution]
          Due,             \* the day it is due
          Whole,           \* what percentages add up to: 10000 in the code
          Paid,            \* the amounts of facts
          Charges,         \* whether an expense is charged to a credit card too
          Retroactive,     \* whether facts of days gone by are recorded
          Deltas,          \* the adjustments
          Given,           \* the distributions adjustments name
          Changes,         \* the later versions, [amount, distribution]
          LastDay, MaxFacts, MaxTerms, MaxProposals   \* bounds

LOCAL INSTANCE SequencesExt
LOCAL INSTANCE Obligations WITH NoCycle <- 0

VARIABLES
    today,
    commitment,  \* [kind, version, terms, facts, by, first, cancelled]
    owed,        \* what Second owes First, as it was last reconciled
    proposals    \* the proposals nobody decided on, [by, base, change, impact]

vars == <<today, commitment, owed, proposals>>

Never == LastDay + 1

\* A distribution is [mode, weights]; an adjustment that names none has the
\* one of the commitment.
Unnamed == [mode |-> "NONE", weights |-> [m \in Parties |-> 0]]
ByAmounts(shares) == [mode |-> "AMOUNTS", weights |-> shares]

Version(from, terms) ==
    [kind |-> "VERSION", from |-> from, amount |-> terms.amount,
     distribution |-> terms.distribution]

Adjustment(by, distribution) ==
    [kind |-> "ADJUSTMENT", from |-> 0, amount |-> by, distribution |-> distribution]

\* create-planned-expense, record-income
Init ==
    /\ today = 1
    /\ \E kind \in Kinds, planned \in Planned :
           commitment = [kind |-> kind, version |-> 1, terms |-> <<Version(0, planned)>>,
                         facts |-> <<>>, by |-> <<>>, first |-> Never,
                         cancelled |-> FALSE]
    /\ owed = 0
    /\ proposals = {}

-----------------------------------------------------------------------------
(***************************************************************************)
(* ResponsibilitySplit.                                                    *)
(***************************************************************************)
\* Each has the floor of its part, and what is left goes to the larger remainder, of
\* equal ones to the first.
FirstPart(total, weight, whole) ==
    IF whole = 0 THEN 0
    ELSE (total * weight) \div whole
             + IF 2 * ((total * weight) % whole) >= whole THEN 1 ELSE 0

Shares(total, distribution) ==
    LET weights == distribution.weights
        whole   == IF distribution.mode = "PERCENTAGES" THEN Whole
                   ELSE weights[First] + weights[Second]
        part    == FirstPart(total, weights[First], whole)
    IN  [m \in Parties |-> IF m = First THEN part ELSE total - part]

-----------------------------------------------------------------------------
(***************************************************************************)
(* The commitment as it is read.                                           *)
(***************************************************************************)
Agreed(c, day) == c.terms[Applicable(c, day)].distribution

SharesSince(terms, applicable) ==
    [m \in Parties |->
        Shares(terms[applicable].amount, terms[applicable].distribution)[m]
            + SumFunction([t \in Later(terms, applicable) |-> terms[t].shares[m]])]

SharesOf(c, day) == SharesSince(c.terms, Applicable(c, day))

\* As the repositories read it: once it was adjusted, by amounts.
SplitOf(c, day) ==
    IF Adjustments(c) = <<>> THEN Agreed(c, day) ELSE ByAmounts(SharesOf(c, day))

\* As a correction reconciles it, always by amounts.
CorrectedSplit(c, day) == ByAmounts(SharesOf(c, day))

CostCanBeRead(c, day) ==
    /\ Amount(c, day) >= IF Adjustments(c) = <<>> THEN 1 ELSE 0
    /\ ~ Personal => \A m \in Parties : SharesOf(c, day)[m] >= 0

FactsCanBeRead(c, day) ==
    /\ \A f \in DOMAIN c.facts : FactCanBeRead(c.facts[f])
    /\ Fulfilled(c) <= Amount(c, day)

\* The constructors of both kinds refuse the same.
CanBeReadAt(c, day) == CostCanBeRead(c, day) /\ FactsCanBeRead(c, day)

Row(c) ==
    [terms |-> 1, version |-> 1, amount |-> Amount(c, today),
     status |-> IF c.cancelled THEN "CANCELLED" ELSE "PENDING",
     values |-> <<>>, adjusted |-> Adjustments(c), facts |-> c.facts]

PaidBy(c, m) ==
    SumOf([f \in DOMAIN c.facts |-> IF c.by[f] = m THEN Valid(c.facts[f]) ELSE 0])

\* An income is shared as it is received.
IncomeDifference(c, split) == Shares(Fulfilled(c), split)[First] - PaidBy(c, First)

Difference(c, amount, split) ==
    IF Personal THEN 0
    ELSE IF c.kind = "INCOME" THEN IncomeDifference(c, split)
    ELSE ExpenseDifference(Shares(amount, split), [m \in Parties |-> PaidBy(c, m)], 0)

Reads == CanBeReadAt(commitment, today)

\* Mistake: what was written is not read again.
WritesOnly == TRUE

ReadsAgain == CanBeReadAt(commitment', today)

Cost == Amount(commitment, today)

-----------------------------------------------------------------------------
(***************************************************************************)
(* What is paid or received, and its reversal.                             *)
(***************************************************************************)
With(c, facts) == [c EXCEPT !.version = @ + 1, !.facts = facts]

\* The fact is checked, and reconciled, against what was read before it.
Record(m, kind, amount, on) ==
    /\ Len(commitment.facts) < MaxFacts
    /\ Reads
    /\ CanRecord(Row(commitment), amount)
    /\ LET next == [With(commitment, WithFact(Row(commitment), kind, amount).facts)
                       EXCEPT !.by = Append(@, m), !.first = Min({@, on})]
       IN  /\ commitment' = next
           /\ owed' = Difference(next, Cost, SplitOf(commitment, today))
    /\ UNCHANGED <<today, proposals>>

\* record-expense-disbursement
Pay(m, amount, on) ==
    /\ commitment.kind = "EXPENSE"
    /\ Record(m, "DISBURSEMENT", amount, on)
    /\ ~ Personal => ReadsAgain

\* record-credit-card-purchase: m is the holder of the card.
Charge(m, amount, on) ==
    /\ Charges
    /\ commitment.kind = "EXPENSE"
    /\ Record(m, "EXTERNAL_LIABILITY", amount, on)
    /\ ~ Personal => ReadsAgain

\* recordReceipt of record-income
Receive(m, amount, on) ==
    /\ commitment.kind = "INCOME"
    /\ Record(m, "RECEIPT", amount, on)
    /\ ReadsAgain

\* The holder of a liability pays it.
SettleExternal(f, amount) ==
    /\ Reads
    /\ Len(commitment.facts[f].settled) < MaxFacts
    /\ CanSettle(Row(commitment), f, amount)
    /\ commitment' = With(commitment, WithSettlement(Row(commitment), f, amount).facts)
    /\ UNCHANGED <<today, owed, proposals>>
    /\ ~ Personal => ReadsAgain

OwedOnceCorrected(c, day) == Difference(c, Amount(c, day), CorrectedSplit(c, day))

ReverseFact(f, amount) ==
    /\ Reads
    /\ CanReverse(Row(commitment), f, amount)
    /\ commitment' = With(commitment, WithReversal(Row(commitment), f, amount).facts)
    /\ owed' = OwedOnceCorrected(commitment', today)
    /\ UNCHANGED <<today, proposals>>
    /\ ~ Personal => ReadsAgain

ReverseSettlement(f, s, amount) ==
    /\ Reads
    /\ CanReverseSettlement(Row(commitment), f, s, amount)
    /\ commitment' = With(commitment,
                          WithSettlementReversal(Row(commitment), f, s, amount).facts)
    /\ UNCHANGED <<today, owed, proposals>>

\* Facts that were reversed in full are no obstacle.
IsNotFulfilled == Reads /\ ~ commitment.cancelled /\ Fulfilled(commitment) = 0

Cancel ==
    /\ IsNotFulfilled
    /\ commitment' = [commitment EXCEPT !.version = @ + 1, !.cancelled = TRUE]
    /\ UNCHANGED <<today, owed, proposals>>

-----------------------------------------------------------------------------
(***************************************************************************)
(* A change of the commitment, and who has to agree to it.                 *)
(***************************************************************************)
\* assessNonRecurringChange: what is paid of it counts though it was reversed.
CanChange(change) ==
    /\ change.from > today
    /\ \A t \in DOMAIN commitment.terms : commitment.terms[t].from < change.from
    /\ change.from <= Due
    /\ ~ commitment.cancelled
    /\ commitment.facts = <<>>
    /\ Amount(commitment, change.from) >= 1

ChangeImpact(change) ==
    [before |-> [amount |-> Amount(commitment, change.from),
                 shares |-> SharesOf(commitment, change.from)],
     after  |-> [amount |-> change.amount,
                 shares |-> Shares(change.amount, change.distribution)]]

\* assessFinancialAdjustment
SharesChanged(change) ==
    LET by       == Abs(change.amount)
        parts    == Shares(by, IF change.distribution = Unnamed
                               THEN Agreed(commitment, today) ELSE change.distribution)
    IN  [m \in Parties |-> IF change.amount > 0 THEN parts[m] ELSE - parts[m]]

CanAdjustBy(change) ==
    /\ Reads
    /\ CanAdjust(Row(commitment), change.amount)
    /\ ~ Personal => \A m \in Parties :
           SharesOf(commitment, today)[m] + SharesChanged(change)[m] >= 0

AdjustmentImpact(change) ==
    LET shares == SharesOf(commitment, today)
    IN  [before |-> [amount |-> Cost, shares |-> shares],
         after  |-> [amount |-> Cost + change.amount,
                     shares |-> [m \in Parties |-> shares[m] + SharesChanged(change)[m]]]]

IsAllowed(change) ==
    /\ Len(commitment.terms) < MaxTerms
    /\ \/ change.kind = "VERSION" /\ CanChange(change)
       \/ change.kind = "ADJUSTMENT" /\ CanAdjustBy(change)

Impact(change) ==
    IF change.kind = "VERSION" THEN ChangeImpact(change) ELSE AdjustmentImpact(change)

\* Whether a member bears more, or is due less, or for a larger part.
IsWorseFor(m, impact) ==
    LET more  == impact.after.shares[m] - impact.before.shares[m]
        ratio == impact.after.shares[m] * impact.before.amount
                     - impact.before.shares[m] * impact.after.amount
    IN  IF commitment.kind = "EXPENSE" THEN more > 0 \/ ratio > 0 ELSE more < 0 \/ ratio < 0

NeedsAcceptance(m, change) ==
    ~ Personal /\ IsWorseFor(Other(m), Impact(change))

WithTerms(terms) ==
    [commitment EXCEPT !.version = @ + 1, !.terms = Append(@, terms)]

ApplyVersion(change) == commitment' = WithTerms(change) /\ UNCHANGED owed

\* An adjustment keeps the shares it changes, and it is reconciled once there are facts.
AdjustmentRow(change) ==
    [kind |-> "ADJUSTMENT", from |-> 0, amount |-> change.amount,
     shares |-> SharesChanged(change)]

ApplyAdjustment(change) ==
    LET after == AdjustmentImpact(change).after
    IN  /\ commitment' = WithTerms(AdjustmentRow(change))
        /\ owed' = IF Fulfilled(commitment) > 0
                   THEN Difference(commitment, after.amount, ByAmounts(after.shares))
                   ELSE owed

Apply(change) ==
    IF change.kind = "VERSION" THEN ApplyVersion(change) ELSE ApplyAdjustment(change)

\* A member changes what is no worse for the other.
Change(m, change) ==
    /\ IsAllowed(change)
    /\ ~ NeedsAcceptance(m, change)
    /\ Apply(change)
    /\ UNCHANGED <<today, proposals>>

Proposal(m, change) ==
    [by |-> m, base |-> commitment.version, change |-> change, impact |-> Impact(change)]

Propose(m, change) ==
    /\ Cardinality(proposals) < MaxProposals
    /\ IsAllowed(change)
    /\ NeedsAcceptance(m, change)
    /\ proposals' = proposals \cup {Proposal(m, change)}
    /\ UNCHANGED <<today, commitment, owed>>

\* Mistake: a proposal is as good as on the day it was made.
StillStands(p) == TRUE

\* The counts of the facts, which it compares too, change with the version.
IsCurrent(p) == p.base = commitment.version

CanAccept(p) == IsCurrent(p) /\ IsAllowed(p.change)

\* The change is assessed again; what was shown is not looked at.
Accept(p) ==
    /\ CanAccept(p)
    /\ Apply(p.change)
    /\ proposals' = proposals \ {p}
    /\ UNCHANGED today

Reject(p) == proposals' = proposals \ {p} /\ UNCHANGED <<today, commitment, owed>>

-----------------------------------------------------------------------------
Midnight == today < LastDay /\ today' = today + 1 /\ UNCHANGED <<commitment, owed, proposals>>

Persons  == IF Personal THEN {First} ELSE Parties
FactDays == IF Retroactive THEN 1 .. today ELSE {today}

AllChanges ==
    {Version(from, terms) : from \in 2 .. LastDay, terms \in Changes}
        \cup {Adjustment(by, distribution) : by \in Deltas, distribution \in Given}

Next ==
    \/ \E m \in Persons, amount \in Paid, on \in FactDays :
           Pay(m, amount, on) \/ Charge(m, amount, on) \/ Receive(m, amount, on)
    \/ \E f \in DOMAIN commitment.facts, amount \in Paid :
           SettleExternal(f, amount) \/ ReverseFact(f, amount)
    \/ \E f \in DOMAIN commitment.facts, amount \in Paid :
           \E s \in DOMAIN commitment.facts[f].settled : ReverseSettlement(f, s, amount)
    \/ Cancel
    \/ \E m \in Persons, change \in AllChanges : Change(m, change) \/ Propose(m, change)
    \/ \E p \in proposals : Accept(p) \/ Reject(p)
    \/ Midnight

Spec == Init /\ [][Next]_vars

-----------------------------------------------------------------------------
(***************************************************************************)
(* Properties.                                                             *)
(***************************************************************************)
\* No sequence of commands and days leads to a commitment that its constructor
\* refuses: it could neither be shown nor paid, adjusted or cancelled any more.
CommitmentCanBeRead == Reads

\* What one member owes the other for the commitment is what its cost and its shares,
\* as they are shown today, leave of what each has paid or received.
OwedAsRead ==
    Reads => owed = Difference(commitment, Cost, SplitOf(commitment, today))

\* Whoever accepts a proposal gets the amount and the shares that were shown when it
\* was made.
AcceptedAsShown ==
    \A p \in proposals : CanAccept(p) => Impact(p.change) = p.impact

-----------------------------------------------------------------------------
(***************************************************************************)
(* The list of incomes: what its filter asks and the status its rows show. *)
(***************************************************************************)
RemainsToReceive == Fulfilled(commitment) < Cost

ShownStatus ==
    IF Fulfilled(commitment) = 0 THEN "PENDING"
    ELSE IF Fulfilled(commitment) = Cost THEN "RECEIVED" ELSE "PARTIALLY_RECEIVED"

\* The list of pending incomes has those of which something is left to receive, and
\* these are the ones that are shown as pending or as partially received.
ListedByStatus ==
    (commitment.kind = "INCOME" /\ Reads /\ ~ commitment.cancelled) =>
        (RemainsToReceive <=> ShownStatus # "RECEIVED")
=============================================================================
