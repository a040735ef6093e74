---------------------------- MODULE TaskCalendar ----------------------------
(***************************************************************************)
(* The calendar of recurring tasks, twice: as the domain decides that a    *)
(* date is scheduled, and as the queries count the scheduled dates of an   *)
(* interval and find the n-th one, with the date arithmetic of the         *)
(* database.  A date is the number of days since 31 December 2022, up to   *)
(* the end of 2025.                                                        *)
(*                                                                         *)
(* A rule is [frequency, weekdays, month, day], with what it does not use  *)
(* empty or 0.                                                             *)
(***************************************************************************)
EXTENDS Integers, Sequences, FiniteSets

LOCAL INSTANCE FiniteSetsExt
LOCAL Cal == INSTANCE RecurrenceCalendar

\* The months are numbered from 0, January 2023, to 35.
Months     == 0 .. 35
Length     == [m \in Months |-> Cal!DaysIn(Cal!MonthAfter(202301, m))]
MonthStart[m \in Months] == IF m = 0 THEN 1 ELSE MonthStart[m - 1] + Length[m - 1]
Days       == 1 .. 1096
MonthAt    == [d \in Days |-> CHOOSE m \in Months : d - MonthStart[m] \in 0 .. Length[m] - 1]
NoDate     == 0

Weekday(d)   == ((d + 5) % 7) + 1      \* ISO: 1 is Monday
DayOf(d)     == d - MonthStart[MonthAt[d]] + 1
MonthOf(d)   == (MonthAt[d] % 12) + 1
YearAt(d)    == MonthAt[d] \div 12
Bit(b)       == IF b THEN 1 ELSE 0

-----------------------------------------------------------------------------
(***************************************************************************)
(* isScheduled.                                                            *)
(***************************************************************************)
IsScheduled(rule, d) ==
    CASE rule.frequency = "DAILY"    -> TRUE
      [] rule.frequency = "WEEKLY"   -> Weekday(d) \in rule.weekdays
      [] rule.frequency = "WEEKDAYS" -> Weekday(d) \in rule.weekdays
      [] rule.frequency = "MONTHLY"  -> DayOf(d) = Min({rule.day, Length[MonthAt[d]]})
      [] rule.frequency = "ANNUAL"   -> /\ MonthOf(d) = rule.month
                                        /\ DayOf(d) = Min({rule.day, Length[MonthAt[d]]})

-----------------------------------------------------------------------------
(***************************************************************************)
(* The date arithmetic of the queries.                                     *)
(***************************************************************************)
DateIn(month, day) == MonthStart[month] + Min({day, Length[month]}) - 1

MonthDate(rule, d) == DateIn(MonthAt[d], rule.day)
YearDate(rule, d)  == DateIn(12 * YearAt(d) + rule.month - 1, rule.day)

\* How far the next weekday is.
Offset(weekday, d) == (weekday - Weekday(d) + 7) % 7

WeeklyCount(weekday, lo, hi) ==
    IF hi < lo + Offset(weekday, lo) THEN 0
    ELSE (hi - (lo + Offset(weekday, lo))) \div 7 + 1

\* Mistake: a month whose day was before the interval is counted.
CountFromFirstMonth(rule, lo, hi) ==
    MonthAt[hi] - MonthAt[lo] + 1 - Bit(MonthDate(rule, hi) > hi)

MonthlyCount(rule, lo, hi) ==
    MonthAt[hi] - MonthAt[lo] + 1
        - Bit(MonthDate(rule, lo) < lo) - Bit(MonthDate(rule, hi) > hi)

\* calendarCountSql
CountIn(rule, lo, hi) ==
    IF lo > hi THEN 0
    ELSE CASE rule.frequency = "DAILY" -> hi - lo + 1
           [] rule.frequency \in {"WEEKLY", "WEEKDAYS"} ->
                  MapThenSumSet(LAMBDA w : WeeklyCount(w, lo, hi), rule.weekdays)
           [] rule.frequency = "MONTHLY" -> MonthlyCount(rule, lo, hi)
           [] rule.frequency = "ANNUAL" ->
                  YearAt(hi) - YearAt(lo) + 1
                      - Bit(YearDate(rule, lo) < lo) - Bit(YearDate(rule, hi) > hi)

\* A date after the last one that is modelled.
Beyond == 1097

NthWeekday(seed, offsets, n) ==
    LET count == Cardinality(offsets)
    IN  seed + 7 * (n \div count)
            + CHOOSE o \in offsets : Cardinality({p \in offsets : p < o}) = (n % count)

DateOrBeyond(month, day) == IF month \in Months THEN DateIn(month, day) ELSE Beyond

\* calendarNthSql
NthFrom(rule, seed, n) ==
    CASE rule.frequency = "DAILY" -> seed + n
      [] rule.frequency \in {"WEEKLY", "WEEKDAYS"} ->
             NthWeekday(seed, {Offset(w, seed) : w \in rule.weekdays}, n)
      [] rule.frequency = "MONTHLY" ->
             DateOrBeyond(MonthAt[seed] + Bit(MonthDate(rule, seed) < seed) + n, rule.day)
      [] rule.frequency = "ANNUAL" ->
             DateOrBeyond(12 * (YearAt(seed) + Bit(YearDate(rule, seed) < seed) + n)
                              + rule.month - 1, rule.day)
=============================================================================
