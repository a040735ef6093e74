--------------------------- MODULE RecurringViews ---------------------------
(***************************************************************************)
(* What the members see of a recurring expense: the commitment with its    *)
(* next occurrence, the totals of a month, what an occurrence can still be *)
(* paid, and the previews of a change of its terms and of its termination. *)
(*                                                                         *)
(* A version also has the parts of the members, shares, and split, which   *)
(* says whether they are amounts or basis points.  The shares of adjusted  *)
(* occurrences are left out.                                               *)
(***************************************************************************)
EXTENDS RecurringCommitments, ResponsibilitySplit

CONSTANTS Actor,       \* the member who changes the commitment
          Lookahead,   \* the months searched for the next occurrence (13 in the code)
          Window       \* the months a change is judged on (25 in the code)

ASSUME ViewsAssumption ==
    /\ \A terms \in Created : Actor \in DOMAIN terms.shares
    /\ Lookahead \in Nat \ {0} /\ Window \in Nat \ {0}

Members == UNION {DOMAIN terms.shares : terms \in Created}

-----------------------------------------------------------------------------
(***************************************************************************)
(* The commitment and its occurrences.                                     *)
(***************************************************************************)
\* What the constructor accepts as terms.
ConfigurationIsValid(configuration) ==
    /\ configuration.amount >= 1
    /\ IsRule(configuration.rule)
    /\ configuration.mode = "VARIABLE" => configuration.split = "PERCENTAGES"
    /\ \A m \in DOMAIN configuration.shares : configuration.shares[m] >= 0
    /\ IsDistribution(configuration.split, configuration.shares, configuration.amount)

\* A date that a calendar has, but for the length of its month.
IsDay(date) ==
    /\ date \in Nat /\ date < NoEnd
    /\ MonthOf(date) % 100 \in 1 .. 12
    /\ date % 100 \in 1 .. 31

\* Terms are what the constructor accepts, of members that can be ordered; days and months
\* are those of a calendar, which does not reach NoEnd.
ASSUME CalendarAssumption ==
    /\ \A terms \in Created \cup Configurations :
           /\ ConfigurationIsValid(terms)
           /\ IsFiniteSet(DOMAIN terms.shares) /\ DOMAIN terms.shares \subseteq Int
           /\ \A m \in DOMAIN terms.shares : terms.shares[m] \in Nat
           /\ IsDay(terms.from) /\ IsDay(terms.rule.starts) /\ terms.rule.ends \in Nat
    /\ \A day \in Days \cup Cutoffs : IsDay(day)
    /\ \A month \in Months : month % 100 \in 1 .. 12 /\ 100 * month + 31 < NoEnd

\* The parts of a fixed amount are those agreed, those of a variable one are its parts.
EffectiveSplit(configuration, amount) ==
    IF configuration.split = "AMOUNTS" THEN configuration.shares
    ELSE Realized(configuration.shares,
                  IF configuration.mode = "FIXED" THEN configuration.amount ELSE amount)

\* view
ViewOf(row) ==
    LET terms == series.versions[row.terms]
    IN  [amount    |-> row.amount,
         original  |-> IF row.amount = Unknown THEN Unknown
                       ELSE row.amount - SumOf(row.adjusted),
         pending   |-> terms.mode = "VARIABLE" /\ row.amount = Unknown,
         status    |-> row.status,
         fulfilled |-> Fulfilled(row),
         remaining |-> IF row.amount = Unknown THEN Unknown ELSE Remaining(row),
         shares    |-> IF row.amount = Unknown \/ row.adjusted # <<>> THEN <<>>
                       ELSE EffectiveSplit(terms, row.amount)]

OccurrenceView(date) == ViewOf(Shown(date))

\* The first date that the versions project from today on, before the cutoff: whether
\* that occurrence has a row is not looked at.
NextOccurrence ==
    LET projected == {Projection(Root, MonthAfter(MonthOf(today), n)).on :
                          n \in 0 .. Lookahead - 1}
    IN  FirstDate({date \in projected : date >= today /\ date < space.cutoff})

\* rootView: before the first version and after the end, the first version is shown.
RootViewOf(current, next) ==
    [displayed |-> IF current = 0 THEN 1 ELSE current,
     next      |-> next,
     terms     |-> IF next = NoDate THEN 0 ELSE ConfigurationAt(Root, next)]

RootView == RootViewOf(EffectiveVersionAt(Root, today), NextOccurrence)

TotalOf(amounts) ==
    LET known == {date \in DOMAIN amounts : amounts[date] # Unknown}
    IN  MapThenSumSet(LAMBDA date : amounts[date], known)

Totals(amounts) ==
    [count   |-> Cardinality(DOMAIN amounts),
     amount  |-> TotalOf(amounts),
     unknown |-> Cardinality({date \in DOMAIN amounts : amounts[date] = Unknown})]

\* The amount of a date in the listing: a fixed amount is that of the row, else that of
\* the version that schedules it, a variable one only that of the row.
ListedAmount(month, date) ==
    LET scheduling == {v \in Eligible(month) :
                          ScheduledDate(month, series.versions[v].rule.day) = date}
        version    == series.versions[Min(scheduling)]
    IN  IF date \in DOMAIN rows /\ rows[date].amount # Unknown THEN rows[date].amount
        ELSE IF scheduling # {} /\ version.mode = "FIXED" THEN version.amount
        ELSE Unknown

ListTotals(month) == Totals([date \in Listed(month) |-> ListedAmount(month, date)])

\* occurrences: of one commitment; the dates moved by an effect are not looked at.
IsListedOf(date, row) ==
    \/ date < space.cutoff
    \/ row.status = "CANCELLED"
    \/ RecordedFacts(row) > 0

OccurrencesOf(month) ==
    LET dates == IF RowsIn(month) # {} THEN RowsIn(month)
                 ELSE {Projection(Root, month).on} \ {NoDate}
    IN  {date \in dates : IsListedOf(date, Shown(date))}

DueAmounts(shown) ==
    [date \in {d \in DOMAIN shown : shown[d].status # "CANCELLED"} |-> shown[date].amount]

OccurrenceTotals(dates) == Totals(DueAmounts([date \in dates |-> Shown(date)]))

\* options
HasOptions(date) ==
    /\ Found(date) # 0
    /\ BeforeCutoff(date, RecordedFacts(Shown(date)))

\* recurringFinancialOrigin: an occurrence as the origin of what the members owe; of a
\* liability what was reversed is not owed.
Origin(date) ==
    LET row == rows[date]
    IN  [amount |-> row.amount,
         shares |-> EffectiveSplit(series.versions[row.terms], row.amount),
         borne  |-> [i \in DOMAIN row.facts |-> Valid(row.facts[i])]]

-----------------------------------------------------------------------------
(***************************************************************************)
(* What the screen of the day shows of the commitment: at most one date in *)
(* each of its buckets, and the one that its older list of what is planned *)
(* shows.  Both are computed by SQL of their own.                          *)
(***************************************************************************)
Buckets == {"OVERDUE", "TODAY", "UPCOMING"}

NoItem == [on |-> NoDate]

\* SQL adds a month or a year to a date: the day is that of the date, not of the rule.
PeriodAfter(date, rule) ==
    ScheduledDate(MonthAfter(MonthOf(date), IF rule.month = 0 THEN 1 ELSE 12), date % 100)

\* How far recurrence_bounds looks: a period after the last of today, the first day of
\* the version and the occurrences there are.
Horizon(v) ==
    LET version == series.versions[v]
    IN  PeriodAfter(Max({today, version.rule.starts, version.from} \cup DOMAIN rows),
                    version.rule)

Distance(from, to) ==
    12 * (to \div 100 - from \div 100) + (to % 100) - (from % 100)

MonthsBetween(from, to) == {MonthAfter(from, n) : n \in 0 .. Distance(from, to)}

\* Whether a version schedules a date of a month that has no occurrence.
Schedules(v, date) ==
    LET version == series.versions[v]
    IN  /\ version.rule.month \in {0, MonthOf(date) % 100}
        /\ date >= Max({version.rule.starts, version.from})
        /\ date <= Min({version.rule.ends, series.ends})
        /\ date < Min({space.cutoff, space.effect.cutoff})
        /\ v < Len(series.versions) => date < series.versions[v + 1].from
        /\ RowsIn(MonthOf(date)) = {}

DatesIn(v, months) ==
    {date \in {ScheduledDate(month, series.versions[v].rule.day) : month \in months} :
        Schedules(v, date)}

ScheduledItem(v, date) ==
    LET version == series.versions[v]
        amount  == IF version.mode = "VARIABLE" THEN Unknown ELSE version.amount
    IN  [on |-> date, amount |-> amount, remaining |-> amount]

MaterializedItem(date) ==
    [on |-> date, amount |-> rows[date].amount,
     remaining |-> IF rows[date].amount = Unknown THEN Unknown ELSE Remaining(rows[date])]

MaterializedItems ==
    {item \in {MaterializedItem(date) : date \in DOMAIN rows} :
        /\ rows[item.on].status # "CANCELLED"
        /\ ~ AfterCutoff(item.on)
        /\ item.amount = Unknown \/ item.remaining > 0}

ScheduledItems ==
    UNION {LET from == MonthOf(Max({series.versions[v].rule.starts, series.versions[v].from}))
               dates == DatesIn(v, MonthsBetween(from, MonthOf(Horizon(v))))
           IN  {ScheduledItem(v, date) : date \in {d \in dates : d <= Horizon(v)}} :
           v \in DOMAIN series.versions}

BucketOf(date) ==
    IF date < today THEN "OVERDUE" ELSE IF date = today THEN "TODAY" ELSE "UPCOMING"

FirstOf(items) ==
    IF items = {} THEN NoItem
    ELSE CHOOSE item \in items : \A other \in items : item.on <= other.on

\* financeTodayBucketsSql
TodayItem(bucket) ==
    FirstOf({item \in ScheduledItems \cup MaterializedItems : BucketOf(item.on) = bucket})

\* PlannedTodayQuery: the first of a year ago until a year from now.
PlannedItem ==
    LET months == {MonthAfter(MonthOf(today), n) : n \in -12 .. 13}
    IN  FirstOf(MaterializedItems \cup
                UNION {{ScheduledItem(v, date) : date \in DatesIn(v, months)} :
                       v \in DOMAIN series.versions})

-----------------------------------------------------------------------------
(***************************************************************************)
(* The preview of a change.                                                *)
(***************************************************************************)
\* candidate
IsCandidate(configuration) ==
    /\ Root.terminatedOn = NoEnd
    /\ configuration.from > today
    /\ configuration.from > series.versions[Len(series.versions)].from
    /\ DOMAIN configuration.shares = Members
    /\ ConfigurationIsValid(configuration)

WithCandidate(configuration) ==
    [version      |-> series.version + 1,
     versions     |-> Append(series.versions, configuration),
     terminatedOn |-> NoEnd]

\* What a series projects from a day on, in the months of the window without a row.
Projections(root, from) ==
    LET months == {MonthAfter(MonthOf(from), n) : n \in 0 .. Window - 1}
                      \ {MonthOf(date) : date \in DOMAIN rows}
    IN  {p \in {Projection(root, month) : month \in months} : p.on >= from}

\* exposure: nothing, without an occurrence.
Exposure(versions, projections, month, m) ==
    LET terms == {p.terms : p \in {q \in projections : MonthOf(q.on) = month}}
        c     == versions[Min(terms)]
    IN  IF terms = {} THEN [amount |-> 0, numerator |-> 0, denominator |-> 1]
        ELSE [amount      |-> IF c.mode = "FIXED" THEN EffectiveSplit(c, c.amount)[m] ELSE 0,
              numerator   |-> c.shares[m],
              denominator |-> IF c.split = "PERCENTAGES" THEN 10000 ELSE c.amount]

FixedTotal(versions, projections, m) ==
    SumOf([p \in projections |-> IF versions[p.terms].mode = "FIXED"
                                 THEN EffectiveSplit(versions[p.terms], 0)[m] ELSE 0])

VariableWeight(versions, projections, m) ==
    SumOf([p \in projections |-> IF versions[p.terms].mode = "VARIABLE"
                                 THEN versions[p.terms].shares[m] ELSE 0])

\* monthlyOnerous
MonthlyOnerous(versions, before, after, m) ==
    \E month \in {MonthOf(p.on) : p \in before \cup after} :
        LET p == Exposure(versions, before, month, m)
            n == Exposure(versions, after, month, m)
        IN  \/ n.amount > p.amount
            \/ n.numerator * p.denominator > p.numerator * n.denominator

\* Whether a member has to accept what another one changes.
Onerous(versions, before, after, m) ==
    LET a == FixedTotal(versions, before, m)
        b == FixedTotal(versions, after, m)
        v == VariableWeight(versions, before, m)
        w == VariableWeight(versions, after, m)
    IN  /\ m # Actor
        /\ \/ b > a
           \/ w > v
           \/ a > 0 /\ w > 0
           \/ v > 0 /\ b > 0
           \/ MonthlyOnerous(versions, before, after, m)

\* changeImpact
ChangeImpact(configuration) ==
    LET proposed == WithCandidate(configuration)
        before   == Projections(Root, configuration.from)
        after    == Projections(proposed, configuration.from)
    IN  [current            |-> {p.on : p \in before},
         proposed           |-> {p.on : p \in after},
         preserved          |-> {date \in DOMAIN rows : date >= configuration.from},
         requiresAcceptance |->
             \E m \in Members : Onerous(proposed.versions, before, after, m)]

\* terminationPreview
TerminationPreview(endsOn) == {date \in DOMAIN rows : date > endsOn}

-----------------------------------------------------------------------------
(***************************************************************************)
(* The preview of a reversal: nothing is previewed of an occurrence whose  *)
(* future was moved, but a payment of its liability.                       *)
(***************************************************************************)
\* assess, of a disbursement or of a liability
ReversalPreview(date, i, amount) ==
    LET row       == rows[date]
        kind      == row.facts[i].kind
        eligible  == CanReverse(row, i, amount)
        fulfilled == Fulfilled(row) - amount
    IN  [eligible   |-> eligible,
         reversible |-> Valid(row.facts[i]),
         fulfilled  |-> IF eligible THEN fulfilled ELSE Unknown,
         remaining  |-> IF eligible THEN row.amount - fulfilled ELSE Unknown,
         cash       |-> IF kind = "DISBURSEMENT" THEN amount ELSE 0,
         supported  |-> -amount,
         external   |-> IF kind = "EXTERNAL_LIABILITY" THEN -amount ELSE 0]

\* assess, of a payment of a liability: it does not change what was fulfilled.
SettlementReversalPreview(date, i, j, amount) ==
    LET row      == rows[date]
        eligible == CanReverseSettlement(row, i, j, amount)
    IN  [eligible   |-> eligible,
         reversible |-> Valid(row.facts[i].settled[j]),
         fulfilled  |-> IF eligible THEN Fulfilled(row) ELSE Unknown,
         remaining  |-> IF eligible THEN Remaining(row) ELSE Unknown,
         cash       |-> amount,
         supported  |-> 0,
         external   |-> amount]

-----------------------------------------------------------------------------
(***************************************************************************)
(* Properties.                                                             *)
(***************************************************************************)
\* The totals of the listing, which SQL adds up over all commitments, are those of the
\* occurrences, which are added up in memory, where no closure has moved them.
TotalsAgree ==
    \A month \in Months : \A dates \in {OccurrencesOf(month)} :
        (\A date \in dates : date < space.effect.cutoff)
            => ListTotals(month) = OccurrenceTotals(dates)

\* The next occurrence of a commitment is the first that the months list, among those
\* that nothing was recorded of.
NextIsListed ==
    LET free == {month \in Months : RowsIn(month) = {}}
    IN  \A coming \in {{date \in UNION {Listed(month) : month \in free} : date >= today}},
           view \in {RootView} :
            /\ MonthOf(view.next) \in free => coming # {} /\ view.next = Min(coming)
            /\ coming # {} => view.next # NoDate /\ view.next <= Min(coming)
            /\ view.next # NoDate => view.terms = ProjectedConfigurationAt(Root, view.next)

\* What a month lists as due is offered to be paid, and while something of it is left a
\* payment is accepted.
ListedCanBePaid ==
    \A view \in {View(date) : date \in UNION {Listed(month) : month \in Months}} :
        /\ HasOptions(view.date)
        /\ Bounded(view) /\ ViewOf(view.occurrence).remaining > 0 =>
               MayRecord(view, view.occurrence, 1)

\* What an occurrence costs is divided whole between the members, in proportion to the
\* terms it was made under, and no more was paid of it.
OriginsAddUp ==
    \A date \in DOMAIN rows :
        rows[date].amount # Unknown /\ rows[date].adjusted = <<>> =>
            \A origin \in {Origin(date)}, view \in {ViewOf(rows[date])} :
                /\ SumOf(origin.shares) = origin.amount
                /\ SumOf(origin.borne) <= origin.amount
                /\ SumOf(view.shares) = view.original

Readings == 1 .. 3

\* What a member bears of a month, given what the meter will read.
Borne(root, month, m, reading) ==
    LET p == Projection(root, month)
    IN  IF p.on = NoDate THEN 0
        ELSE EffectiveSplit(root.versions[p.terms], reading)[m]

\* A change does what was previewed: the dates are those that are listed then, and a
\* member who is not asked bears no more in any month, whatever the meters read.
ChangesAsPreviewed ==
    LET configuration == series'.versions[Len(series'.versions)]
        proposed      == WithCandidate(configuration)
        free          == {MonthAfter(MonthOf(configuration.from), n) : n \in 0 .. Window - 1}
                             \ {MonthOf(date) : date \in DOMAIN rows}
    IN  \A impact \in {ChangeImpact(configuration)} :
            /\ IsCandidate(configuration)
            /\ \A month \in Months :
                   {date \in Listed(month)' : date >= configuration.from} =
                   {date \in impact.proposed \cup impact.preserved :
                        /\ MonthOf(date) = month
                        /\ date \in DOMAIN rows => rows[date].status # "CANCELLED"}
            /\ ~ impact.requiresAcceptance =>
                   \A month \in free, m \in Members \ {Actor}, reading \in Readings :
                       Borne(proposed, month, m, reading) <= Borne(Root, month, m, reading)

\* What a termination was said to leave is what is due after it.
TerminatesAsPreviewed ==
    \A month \in Months :
        {date \in Listed(month)' : date > series'.ends} =
        {date \in TerminationPreview(series'.ends) :
             MonthOf(date) = month /\ rows[date].status # "CANCELLED"}

\* Everything due by today, in the listing of its month.
DueByToday ==
    {date \in UNION {Listed(month) :
                        month \in MonthsBetween(MonthOf(series.versions[1].from), MonthOf(today))} :
        /\ date <= today
        /\ OccurrenceView(date).remaining # 0}

\* The screen of the day shows of a commitment what the listing of the months has as due:
\* the first date that is late, that of today, and of those to come one that is listed,
\* with what is left of it.
TodayIsListed ==
    \A items \in {[bucket \in Buckets |-> TodayItem(bucket)]}, due \in {DueByToday} :
        /\ \A bucket \in {"OVERDUE", "TODAY"} :
               items[bucket].on = FirstDate({date \in due : BucketOf(date) = bucket})
        /\ \A item \in {items[bucket] : bucket \in Buckets} \ {NoItem} :
               /\ item.on \in Listed(MonthOf(item.on))
               /\ item.remaining = OccurrenceView(item.on).remaining
        /\ \A item \in {PlannedItem} \ {NoItem} :
               item \in {items[bucket] : bucket \in Buckets} \/ item.on > today

\* What the screens of a recurring commitment show agrees, one with the other and with
\* what can then be paid.  Nothing of it depends on what a client has read.
SeriesIsShown ==
    seen = NoView =>
        /\ ListedAsProjected
        /\ TotalsAgree
        /\ NextIsListed
        /\ ListedCanBePaid
        /\ OriginsAddUp
        /\ TodayIsListed

\* The screen says how many commitments have something to come, beyond those it shows:
\* a commitment that its list of what is planned shows is in a bucket of its own.
UpcomingIsCounted ==
    PlannedItem \in {TodayItem(bucket) : bucket \in Buckets} \cup {NoItem}

\* What a client was shown some time ago is still so when its command is done, and what
\* it is told that a change or a termination would do is what they do.
DoneAsShown ==
    [][/\ AsSeen
       /\ Len(series'.versions) > Len(series.versions) => ChangesAsPreviewed
       /\ series'.ends # series.ends /\ space' = space => TerminatesAsPreviewed]_vars

\* The money that left the members for an occurrence, and what they still owe others.
CashOut(row) ==
    AmountsOf(row.facts, LAMBDA fact : IF fact.kind = "DISBURSEMENT" THEN Valid(fact)
                                       ELSE Settled(fact))
ExternalOutstanding(row) == AmountsOf(row.facts, LAMBDA fact : fact.remaining)

Reversal(date, reversible) ==
    [eligible   |-> TRUE,
     reversible |-> reversible,
     fulfilled  |-> Fulfilled(rows'[date]),
     remaining  |-> Remaining(rows'[date]),
     cash       |-> CashOut(rows[date]) - CashOut(rows'[date]),
     supported  |-> Fulfilled(rows'[date]) - Fulfilled(rows[date]),
     external   |-> ExternalOutstanding(rows'[date]) - ExternalOutstanding(rows[date])]

\* A reversal returns the money, and leaves the occurrence and the debt to others, that
\* its preview said.
ReversesAsPreviewed ==
    \A date \in DOMAIN rows : \A i \in DOMAIN rows[date].facts :
        LET fact   == rows[date].facts[i]
            next   == rows'[date].facts[i]
            amount == next.reversed - fact.reversed
            paid(j) == next.settled[j].reversed - fact.settled[j].reversed
        IN  /\ amount > 0 => ReversalPreview(date, i, amount) = Reversal(date, Valid(fact))
            /\ \A j \in DOMAIN fact.settled :
                   paid(j) > 0 => SettlementReversalPreview(date, i, j, paid(j)) =
                                      Reversal(date, Valid(fact.settled[j]))

\* The facts of an occurrence change as their previews said, and not at all once what is
\* due was moved to its destination.
FactsAreKept == [][ReversesAsPreviewed /\ MovedIsLeftAlone]_vars
=============================================================================
