------------------------ MODULE RecurringCommitments ------------------------
(***************************************************************************)
(* A recurring commitment of a shared space: the versions of its terms,    *)
(* its termination, the occurrences that were materialized, and the        *)
(* commands on them.  Every command runs under the lock of the commitment  *)
(* and names the versions it was shown: a client acts on what it has just  *)
(* read, or on what it read some steps ago (seen).  What the facts owe     *)
(* between members is in SettlementLedger, what happens to the space in    *)
(* SpaceClosure: here only what they let this commitment do.               *)
(***************************************************************************)
EXTENDS RecurrenceCalendar, RecurringOccurrences

CONSTANTS Days,         \* the days on which something happens
          Months,       \* the months looked at
          Created,      \* the first versions a series may have
          Configurations,  \* the versions it may be changed to
          Endings,      \* the dates it may be terminated on
          Cutoffs,      \* the cutoffs of a closure
          Kinds,        \* the kinds of facts recorded
          MaxAmount,    \* bound on the amounts of facts and adjustments
          MaxFacts,     \* bound on the facts of an occurrence
          MaxVersion,   \* bound on the versions of the rows of an occurrence
          MaxChanges    \* bound on the versions of the commitment and of the space

\* Dates are numbers, and terms are what the constructor of a configuration accepts.
ASSUME RecurringAssumption ==
    /\ Days \subseteq Nat /\ Days # {}
    /\ Months \subseteq Nat /\ Endings \subseteq Nat /\ Cutoffs \subseteq Nat
    /\ \A terms \in Created \cup Configurations :
           /\ IsRule(terms.rule)
           /\ terms.mode \in {"FIXED", "VARIABLE"}
           /\ terms.amount \in Nat \ {0}
    /\ Kinds \subseteq {"DISBURSEMENT", "EXTERNAL_LIABILITY"}
    /\ MaxAmount \in Nat /\ MaxFacts \in Nat /\ MaxVersion \in Nat
    /\ MaxChanges \in Nat \ {0}

VARIABLES
    today,
    series,   \* [version, versions, ends]: ends, the termination
    rows,     \* the occurrences: from their reference dates
    space,    \* [status, version, cutoff, effect]
    seen      \* what a client read, and will act on

vars == <<today, series, rows, space, seen>>

NoEffect == [cutoff |-> NoEnd, items |-> {}]
NoView   == [date |-> NoDate]

NewSeries(terms) == [version |-> 1, versions |-> <<terms>>, ends |-> NoEnd]

\* create-recurring-commitment
Init ==
    /\ today = Min(Days)
    /\ \E terms \in Created : series = NewSeries(terms)
    /\ rows = << >>
    /\ space = [status |-> "ACTIVE", version |-> 1, cutoff |-> NoEnd, effect |-> NoEffect]
    /\ seen = NoView

-----------------------------------------------------------------------------
(***************************************************************************)
(* What is read.                                                           *)
(***************************************************************************)
\* The series as it is hydrated: an effect ends it on the eve of its cutoff.
Root ==
    [version |-> series.version, versions |-> series.versions,
     terminatedOn |-> IF space.effect = NoEffect THEN series.ends
                      ELSE Min({series.ends, DayBefore(space.effect.cutoff)})]

RowsIn(month) == {date \in DOMAIN rows : MonthOf(date) = month}

\* Mistake: a month is occupied only by the date itself.
FoundByDate(date) ==
    IF date \in DOMAIN rows THEN rows[date].terms
    ELSE ProjectedConfigurationAt(Root, date)

\* The configuration of an occurrence: that of its row, or the one projected on a
\* date of a month without any.
Found(date) ==
    IF date \in DOMAIN rows THEN rows[date].terms
    ELSE IF RowsIn(MonthOf(date)) # {} THEN 0
    ELSE ProjectedConfigurationAt(Root, date)

ProjectedUnder(terms) == Projected(terms, series.versions[terms])

Shown(date) ==
    IF date \in DOMAIN rows THEN rows[date] ELSE ProjectedUnder(Found(date))

\* What a client is shown of an occurrence, with what it must name to change it.
View(date) ==
    [date |-> date, space |-> space.version, root |-> series.version,
     occurrence |-> Shown(date)]

Dates(months) ==
    DOMAIN rows \cup ({Projection(Root, month).on : month \in months} \ {NoDate})

\* What somebody who has just looked names.
Fresh(months) == {View(date) : date \in {d \in Dates(months) : Found(d) # 0}}

\* The listing of a month, as its SQL computes it.
AfterCutoff(date) ==
    \/ date >= space.effect.cutoff
    \/ /\ date >= space.cutoff
       /\ ~ (date \in DOMAIN rows /\ rows[date].facts # <<>>)

\* Mistake: an occurrence elsewhere in the month is not looked for.
EligibleBeside(month) ==
    {v \in DOMAIN series.versions :
        LET date == ScheduledDate(month, series.versions[v].rule.day)
            rule == series.versions[v].rule
        IN  /\ rule.month \in {0, month % 100}
            /\ date >= rule.starts /\ date <= rule.ends
            /\ date >= series.versions[v].from
            /\ v < Len(series.versions) => date < series.versions[v + 1].from
            /\ date <= series.ends
            /\ date \in DOMAIN rows => rows[date].status # "CANCELLED"
            /\ ~ AfterCutoff(date)}

Eligible(month) ==
    {v \in DOMAIN series.versions :
        LET date == ScheduledDate(month, series.versions[v].rule.day)
            rule == series.versions[v].rule
        IN  /\ rule.month \in {0, month % 100}
            /\ date >= rule.starts /\ date <= rule.ends
            /\ date >= series.versions[v].from
            /\ v < Len(series.versions) => date < series.versions[v + 1].from
            /\ date <= series.ends
            /\ date \in DOMAIN rows => rows[date].status # "CANCELLED"
            /\ ~ AfterCutoff(date)
            /\ RowsIn(month) \subseteq {date}}

Listed(month) ==
    LET projected == {ScheduledDate(month, series.versions[v].rule.day) :
                          v \in Eligible(month)}
        actual    == {date \in RowsIn(month) : rows[date].status # "CANCELLED"
                                               /\ ~ AfterCutoff(date)}
        first     == IF projected = {} THEN {} ELSE {Min(projected)}
    IN  first \cup actual

-----------------------------------------------------------------------------
(***************************************************************************)
(* What every command asks.                                                *)
(***************************************************************************)
\* The next version is bounded.
Bounded(view) ==
    /\ view.date \in DOMAIN rows => rows[view.date].version < MaxVersion
    /\ series.version < MaxChanges

\* assertRecurringClosureCutoff
BeforeCutoff(date, facts) == date >= space.cutoff => facts > 0

\* assertFinancialClosureOriginOpen
OriginOpen(date) ==
    /\ date \notin space.effect.items
    /\ date < space.effect.cutoff

\* lockForFulfillment, the root under its lock, the occurrence or its projection.
Fulfills(view, row) ==
    /\ view.space = space.version
    /\ Found(view.date) # 0
    /\ BeforeCutoff(view.date, RecordedFacts(row))
    /\ Bounded(view)

SameRoot(view)            == view.root = series.version
SameOccurrence(view, row) == view.occurrence.version = row.version

Write(view, row) ==
    /\ rows' = [date \in DOMAIN rows \cup {view.date} |->
                   IF date = view.date THEN row ELSE rows[date]]
    /\ UNCHANGED <<today, space>>

-----------------------------------------------------------------------------
(***************************************************************************)
(* The commands on an occurrence: row is what they find of it.             *)
(***************************************************************************)
MayRecord(view, row, amount) ==
    /\ Fulfills(view, row) /\ SameRoot(view) /\ SameOccurrence(view, row)
    /\ CanRecord(row, amount)
    /\ OriginOpen(view.date)

Record(view, row, kind, amount) ==
    /\ MayRecord(view, row, amount)
    /\ RecordedFacts(row) < MaxFacts
    /\ Write(view, WithFact(row, kind, amount))
    /\ UNCHANGED series

\* The version of the commitment is not asked for, nor whether its future was moved.
SettleExternalLiability(view, row, i, amount) ==
    /\ Fulfills(view, row)
    /\ view.date \in DOMAIN rows
    /\ SameOccurrence(view, row)
    /\ CanSettle(row, i, amount)
    /\ Write(view, WithSettlement(row, i, amount))
    /\ UNCHANGED series

\* A row takes a value or is cancelled only as it was read, and while it is pending.
IsPending(view) ==
    view.date \in DOMAIN rows => /\ rows[view.date].version = view.occurrence.version
                                 /\ rows[view.date].status = "PENDING"

WriteValue(view, row, amount) == IsPending(view) /\ Write(view, WithValue(row, amount))

SetValue(view, row, amount) ==
    /\ Fulfills(view, row) /\ SameRoot(view) /\ SameOccurrence(view, row)
    /\ series.versions[row.terms].mode = "VARIABLE"
    /\ CanDefineValue(row)
    /\ OriginOpen(view.date)
    /\ WriteValue(view, row, amount)
    /\ UNCHANGED series

WriteCancelled(view, row) == IsPending(view) /\ Write(view, Cancelled(row))

CancelOccurrence(view, row) ==
    /\ Fulfills(view, row) /\ SameRoot(view) /\ SameOccurrence(view, row)
    /\ CanCancel(row)
    /\ OriginOpen(view.date)
    /\ WriteCancelled(view, row)
    /\ UNCHANGED series

\* The commitment takes a version with every correction.
Corrects(view, row) ==
    /\ Write(view, row)
    /\ series' = [series EXCEPT !.version = @ + 1]

\* A fact that was wholly reversed does not count here as recorded.
Adjust(view, row, by) ==
    /\ Fulfills(view, row) /\ SameRoot(view) /\ SameOccurrence(view, row)
    /\ BeforeCutoff(view.date, ValidFacts(row))
    /\ CanAdjust(row, by)
    /\ OriginOpen(view.date)
    /\ Corrects(view, Adjusted(row, by))

\* Neither the cutoff nor the date is looked at, only whether the row itself moved.
Reverses(view, row) ==
    /\ view.space = space.version
    /\ view.date \in DOMAIN rows
    /\ SameRoot(view) /\ SameOccurrence(view, row)
    /\ Bounded(view)

\* Mistake: whether its future was moved is not asked.
ReversesMoved(view, row, i, amount) ==
    /\ Reverses(view, row)
    /\ CanReverse(row, i, amount)
    /\ Corrects(view, WithReversal(row, i, amount))

Reverse(view, row, i, amount) ==
    /\ Reverses(view, row)
    /\ CanReverse(row, i, amount)
    /\ view.date \notin space.effect.items
    /\ Corrects(view, WithReversal(row, i, amount))

ReverseExternalSettlement(view, row, i, j, amount) ==
    /\ Reverses(view, row)
    /\ CanReverseSettlement(row, i, j, amount)
    /\ Corrects(view, WithSettlementReversal(row, i, j, amount))

-----------------------------------------------------------------------------
(***************************************************************************)
(* The commands on the series.                                             *)
(***************************************************************************)
\* lockForWrite: not while the space is closing.
ChangesSeries(view) ==
    /\ space.status = "ACTIVE"
    /\ view.space = space.version
    /\ SameRoot(view)
    /\ Root.terminatedOn = NoEnd
    /\ series.version < MaxChanges
    /\ UNCHANGED <<today, rows, space, seen>>

\* Mistake: the version of the commitment stays.
ChangeQuietly(view, configuration) ==
    /\ ChangesSeries(view)
    /\ configuration.from > today
    /\ configuration.from > series.versions[Len(series.versions)].from
    /\ series' = [series EXCEPT !.versions = Append(@, configuration)]

WithVersion(configuration) ==
    [series EXCEPT !.version = @ + 1, !.versions = Append(@, configuration)]

Terminated(endsOn) == [series EXCEPT !.version = @ + 1, !.ends = endsOn]

\* The version that applies from a day to come; the bilateral agreement it may need
\* is given.
ChangeVersion(view, configuration) ==
    /\ ChangesSeries(view)
    /\ configuration.from > today
    /\ configuration.from > series.versions[Len(series.versions)].from
    /\ series' = WithVersion(configuration)

Terminate(view, endsOn) ==
    /\ ChangesSeries(view)
    /\ endsOn >= today
    /\ series' = Terminated(endsOn)

-----------------------------------------------------------------------------
(***************************************************************************)
(* The closure of the space.                                               *)
(***************************************************************************)
SpaceChanges(next) ==
    /\ space.version < MaxChanges
    /\ space' = [next EXCEPT !.version = @ + 1]
    /\ UNCHANGED <<today, rows, seen>>

\* The cutoff is today until the members approve another one.
StartClosure ==
    /\ space.status = "ACTIVE"
    /\ SpaceChanges([space EXCEPT !.status = "CLOSING", !.cutoff = today])
    /\ UNCHANGED series

CancelClosure ==
    /\ space.status = "CLOSING"
    /\ SpaceChanges([space EXCEPT !.status = "ACTIVE", !.cutoff = NoEnd])
    /\ UNCHANGED series

\* inspect: the rows that are due, and the versions that still schedule a date.
FutureRows(cutoff) ==
    {date \in DOMAIN rows : /\ date >= cutoff
                            /\ rows[date].status # "CANCELLED"
                            /\ rows[date].amount = Unknown \/ Remaining(rows[date]) > 0}

FutureVersions(cutoff) ==
    {v \in DOMAIN series.versions :
        LET from == Max({cutoff, series.versions[v].from, series.versions[v].rule.starts})
            next == FirstOnOrAfter(series.versions[v].rule, from)
        IN  /\ next # NoDate
            /\ next <= Root.terminatedOn
            /\ v < Len(series.versions) => next < series.versions[v + 1].from}

HasFuture(cutoff) == FutureRows(cutoff) # {} \/ FutureVersions(cutoff) # {}

\* The members approve their plan: its cutoff, and the destination of the commitment
\* if anything of it is due after the cutoff and none was applied before.
ApprovePlan(cutoff) ==
    LET applies == space.effect = NoEffect /\ HasFuture(cutoff)
    IN  /\ space.status = "CLOSING"
        /\ cutoff >= space.cutoff
        /\ series.version < MaxChanges
        /\ SpaceChanges([space EXCEPT
               !.cutoff = cutoff,
               !.effect = IF applies THEN [cutoff |-> cutoff, items |-> FutureRows(cutoff)]
                                     ELSE @])
        /\ series' = IF applies
                     THEN [series EXCEPT !.version = @ + 1,
                                         !.ends = IF @ = NoEnd THEN DayBefore(cutoff) ELSE @]
                     ELSE series

-----------------------------------------------------------------------------
NextDay ==
    /\ \E day \in Days : day > today
    /\ today' = Min({day \in Days : day > today})
    /\ UNCHANGED <<series, rows, space, seen>>

Look(date) ==
    /\ Found(date) # 0
    /\ seen' = View(date)
    /\ UNCHANGED <<today, series, rows, space>>

OnOccurrence(view, row, kinds, most, facts) ==
    \/ \E kind \in kinds, amount \in 1 .. most : Record(view, row, kind, amount)
    \/ \E i \in 1 .. facts, amount \in 1 .. most :
           SettleExternalLiability(view, row, i, amount)
    \/ \E amount \in 1 .. most : SetValue(view, row, amount)
    \/ CancelOccurrence(view, row)
    \/ \E by \in -most .. most \ {0} : Adjust(view, row, by)
    \/ \E i \in 1 .. facts, amount \in 1 .. most : Reverse(view, row, i, amount)
    \/ \E i, j \in 1 .. facts, amount \in 1 .. most :
           ReverseExternalSettlement(view, row, i, j, amount)

OnSeries(view, configurations, endings) ==
    \/ \E configuration \in configurations : ChangeVersion(view, configuration)
    \/ \E endsOn \in endings : Terminate(view, endsOn)

OnSpace(cutoffs) ==
    \/ StartClosure
    \/ \E cutoff \in cutoffs : ApprovePlan(cutoff)
    \/ CancelClosure

\* The commands on what is shown in some months, and on what was.
OnCommitment(months, kinds, most, facts) ==
    \/ \E view \in Fresh(months) :
           OnOccurrence(view, view.occurrence, kinds, most, facts) /\ UNCHANGED seen
    \/ /\ seen # NoView
       /\ OnOccurrence(seen, Shown(seen.date), kinds, most, facts)
       /\ seen' = NoView
    \/ \E date \in Dates(months) : Look(date)

Next ==
    \/ OnCommitment(Months, Kinds, MaxAmount, MaxFacts)
    \/ \E view \in Fresh(Months) : OnSeries(view, Configurations, Endings)
    \/ OnSpace(Cutoffs)
    \/ NextDay

Spec == Init /\ [][Next]_vars

-----------------------------------------------------------------------------
(***************************************************************************)
(* Properties.                                                             *)
(***************************************************************************)
Amounts == Nat \cup {Unknown}
Facts   == [kind : {"DISBURSEMENT", "EXTERNAL_LIABILITY"}, amount : Nat, reversed : Nat,
            remaining : Nat, settled : Seq([amount : Nat, reversed : Nat])]
Values  == [version : Nat, previous : Amounts, amount : Nat]
Rows    == [terms : Nat, version : Nat, amount : Amounts,
            status : {"PENDING", "PARTIALLY_FULFILLED", "FULFILLED", "CANCELLED"},
            values : Seq(Values), adjusted : Seq(Int), facts : Seq(Facts)]

\* Every variable holds what its table holds: no amount below zero, and no row without
\* an amount that is not pending or cancelled (CHK_financial_occurrences_state).
TypeOK ==
    /\ today \in Days
    /\ series.version \in 1 .. MaxChanges
    /\ Len(series.versions) <= series.version
    /\ \A v \in DOMAIN series.versions : IsRule(series.versions[v].rule)
    /\ \A date \in DOMAIN rows :
           /\ rows[date] \in Rows
           /\ rows[date].terms \in DOMAIN series.versions
           /\ rows[date].amount = Unknown => rows[date].status \in {"PENDING", "CANCELLED"}
    /\ space.status \in {"ACTIVE", "CLOSING"}
    /\ seen = NoView \/ seen.occurrence \in Rows

\* A month has one occurrence, were it cancelled, however the versions of the series
\* move its date: the next month is not paid in advance by mistake, nor one twice.
OneOccurrencePerMonth ==
    \A date, other \in DOMAIN rows : MonthOf(date) = MonthOf(other) => date = other

\* Whatever records, settles, adjusts and reverses, each writing the status and the
\* remaining amount in its own way, the row it leaves is one that can be read again.
RowsCanBeRead == \A date \in DOMAIN rows : CanBeRead(rows[date])

\* What is due in a month by the SQL of the listing is what the versions of the series
\* project on it, or the row that stands for it: the two are written apart.
ListedAsProjected ==
    \A month \in Months :
        LET occupied == RowsIn(month)
        IN  Listed(month) =
                {date \in IF occupied = {} THEN {Projection(Root, month).on} \ {NoDate}
                          ELSE occupied :
                    /\ date \in occupied => rows[date].status # "CANCELLED"
                    /\ ~ AfterCutoff(date)}

\* A command that a client sends about what it read some time ago finds the occurrence
\* as it was shown, and its terms: a version it names would not be the present one.
AsSeen ==
    seen # NoView /\ seen' = NoView => Shown(seen.date) = seen.occurrence

\* The destination of the commitment was agreed with what was then due: what is moved
\* is not recorded, valued, cancelled, adjusted or reversed at its origin any more.
MovedIsLeftAlone ==
    \A date \in space.effect.items :
        /\ rows'[date].amount = rows[date].amount
        /\ rows'[date].status = rows[date].status
        /\ Fulfilled(rows'[date]) = Fulfilled(rows[date])

\* The terms of an occurrence are those that were in effect when it was materialized,
\* whatever versions come after, and its amount is theirs or the one it was given,
\* and its adjustments.
PricedByItsTerms ==
    \A date \in DOMAIN rows :
        LET row   == rows[date]
            terms == series.versions[row.terms]
        IN  IF terms.mode = "FIXED" THEN row.amount = terms.amount + SumOf(row.adjusted)
            ELSE row.amount # Unknown <=> row.values # <<>>

\* Whatever is done to an occurrence, and whatever versions its series takes, its row can
\* be read and is priced by its own terms.
RowsAreKept == RowsCanBeRead /\ PricedByItsTerms
=============================================================================
