------------------------- MODULE RecurrenceCalendar -------------------------
(***************************************************************************)
(* The calendar of a recurring commitment.  A date is the number its ISO   *)
(* string reads as (20270228), so that dates are compared as the code      *)
(* compares strings, and its month is what the code slices off.            *)
(*                                                                         *)
(* A series is [version, versions, terminatedOn]: the versions of its      *)
(* terms, each [from, rule, mode, amount], in the order they were added.   *)
(***************************************************************************)
EXTENDS Integers, Sequences, FiniteSets, FiniteSetsExt

NoDate == 0           \* null
NoEnd  == 99999999    \* an endsOn that is null: no date is after it

MonthOf(date) == date \div 100

IsLeap(year) == year % 4 = 0 /\ (year % 100 # 0 \/ year % 400 = 0)

DaysIn(month) ==
    LET m == month % 100
    IN  IF m = 2 THEN IF IsLeap(month \div 100) THEN 29 ELSE 28
        ELSE IF m \in {4, 6, 9, 11} THEN 30 ELSE 31

MonthAfter(month, n) ==
    LET m == 12 * (month \div 100) + (month % 100) - 1 + n
    IN  100 * (m \div 12) + (m % 12) + 1

DayBefore(date) ==
    IF date % 100 > 1 THEN date - 1
    ELSE LET month == MonthAfter(MonthOf(date), -1) IN 100 * month + DaysIn(month)

-----------------------------------------------------------------------------
(***************************************************************************)
(* RecurrenceRule.                                                         *)
(***************************************************************************)

\* The last day of the month stands for the days it does not have.
ScheduledDate(month, day) ==
    100 * month + (IF day < DaysIn(month) THEN day ELSE DaysIn(month))

IsRule(rule) ==
    /\ rule.day \in 1 .. 31
    /\ rule.month \in 0 .. 12      \* 0: every month
    /\ rule.ends >= rule.starts

DateInMonth(rule, month) ==
    LET date == ScheduledDate(month, rule.day)
    IN  IF /\ rule.month \in {0, month % 100}
           /\ date >= rule.starts
           /\ date <= rule.ends
        THEN date ELSE NoDate

Contains(rule, date) == DateInMonth(rule, MonthOf(date)) = date

Search == 0 .. 23

FirstDate(dates) == IF dates = {} THEN NoDate ELSE Min(dates)

\* The search stops after 24 months, and once it has passed the end of the rule.
FirstOnOrAfter(rule, date) ==
    LET from == IF date > rule.starts THEN date ELSE rule.starts
    IN  FirstDate({d \in {DateInMonth(rule, MonthAfter(MonthOf(from), n)) : n \in Search} :
                      d >= from})

-----------------------------------------------------------------------------
(***************************************************************************)
(* The versions of a series.  A version is named by its position, which is *)
(* its economic version; 0 is null.                                        *)
(***************************************************************************)
EffectiveVersionAt(series, date) ==
    LET since == {v \in DOMAIN series.versions : series.versions[v].from <= date}
    IN  IF date > series.terminatedOn \/ since = {} THEN 0 ELSE Max(since)

IfScheduled(series, v, date) ==
    IF v # 0 /\ Contains(series.versions[v].rule, date) THEN v ELSE 0

ConfigurationAt(series, date) ==
    IfScheduled(series, EffectiveVersionAt(series, date), date)

NoProjection == [on |-> NoDate, terms |-> 0]

Earliest(projections) ==
    IF projections = {} THEN NoProjection
    ELSE CHOOSE p \in projections : \A q \in projections : p.on <= q.on

\* projections: the first date of the month on which the version that schedules it
\* is the one in effect.
Projection(series, month) ==
    Earliest({p \in {[on |-> DateInMonth(series.versions[v].rule, month), terms |-> v] :
                        v \in DOMAIN series.versions} :
                 p.on # NoDate /\ ConfigurationAt(series, p.on) = p.terms})

TermsOn(projection, date) == IF projection.on = date THEN projection.terms ELSE 0

ProjectedConfigurationAt(series, date) ==
    TermsOn(Projection(series, MonthOf(date)), date)
=============================================================================
