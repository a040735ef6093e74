---------------------------- MODULE RoutineItems ----------------------------
(***************************************************************************)
(* The tasks of a space: one-off tasks, recurrences whose occurrences are  *)
(* computed until somebody completes or skips one, and the list of both    *)
(* that a client reads page after page while the members go on working.    *)
(* A command is one transaction with its versions current; receipts, the   *)
(* history and the shopping list of a task are left out.                   *)
(***************************************************************************)
EXTENDS TaskCalendar

LOCAL INSTANCE SequencesExt
LOCAL INSTANCE FiniteSetsExt
LOCAL INSTANCE Functions

CONSTANTS Terms,         \* the recurrences: [rule, urgency, dated, timed, starts, ends, assignee]
          Tasks,         \* the one-off tasks; ids are numbers and sort as such
          Deadlines,     \* the deadlines of tasks: [due, time]
          Urgencies,     \* a subset of 0 .. 3, from urgent to low
          People,
          Filters,       \* the lists that are asked for
          WalkFilters,   \* those that are read page after page
          Limit,         \* items on a page
          FirstDay, LastDay,   \* bounds on the clock
          Ahead,         \* how far a list looks ahead: 365 in the code
          MaxCommands,   \* bound on the commands
          Rules, Spans, Around   \* the rules, intervals and days of CalendarsAgree

VARIABLES
    now,       \* [date, late]: the day, and whether the time of the deadlines has passed
    space,     \* [recurrences, occurrences, tasks, closed]
    walk,      \* the list that is being read
    commands   \* their number

vars == <<now, space, walk, commands>>

Never   == 9999     \* 9999-12-31
AtTime  == 1        \* a deadline with a time ...
NoTime  == 2        \* ... and without: 23:59 where they are sorted
NotRead == [filter |-> {}, at |-> {}, after |-> <<>>, listed |-> <<>>, steady |-> {},
            seen |-> {}, status |-> "NONE"]

Recurrences == DOMAIN Terms

\* A deadline that there is not: a task without one.
NoDeadline == [due |-> NoDate, time |-> NoTime]

Init ==
    /\ now = [date |-> FirstDay, late |-> FALSE]
    /\ space = [recurrences |-> [r \in Recurrences |-> [status |-> "NONE", cancelledOn |-> Never]],
                occurrences |-> [o \in {} |-> "PENDING"],
                tasks |-> [t \in {} |-> {}],
                closed |-> FALSE]
    /\ walk = NotRead
    /\ commands = 0

-----------------------------------------------------------------------------
(***************************************************************************)
(* Items, and the conditions a list filters and sorts by.                  *)
(***************************************************************************)
Occurrence(r, date, status) ==
    [id |-> r, on |-> date, status |-> status, urgency |-> Terms[r].urgency,
     due |-> IF Terms[r].dated THEN date ELSE NoDate,
     time |-> IF Terms[r].timed THEN AtTime ELSE NoTime, assignee |-> Terms[r].assignee]

OneOff(s, t) ==
    [id |-> t, on |-> NoDate, status |-> s.tasks[t].status, urgency |-> s.tasks[t].urgency,
     due |-> s.tasks[t].due, time |-> s.tasks[t].time, assignee |-> s.tasks[t].assignee]

\* Whether a time of day has passed by then.
Passed(time, at) == time = AtTime /\ at.late

\* taskAttention
Overdue(item, at) ==
    /\ item.status = "PENDING"
    /\ item.due # NoDate
    /\ item.due < at.date \/ (item.due = at.date /\ Passed(item.time, at))

Today(item, at)     == item.status = "PENDING" /\ item.due = at.date
Urgent(item)        == item.status = "PENDING" /\ item.urgency = 0
Upcoming(item, at)  == item.status = "PENDING" /\ item.due > at.date
Undated(item)       == item.status = "PENDING" /\ item.due = NoDate

Matches(item, attention, at) ==
    CASE attention = "NONE"            -> TRUE
      [] attention = "TODAY"           -> Today(item, at)
      [] attention = "OVERDUE"         -> Overdue(item, at)
      [] attention = "URGENT"          -> Urgent(item)
      [] attention = "UPCOMING"        -> Upcoming(item, at)
      [] attention = "NO_DEADLINE"     -> Undated(item)
      [] attention = "ATTENTION"       -> Overdue(item, at) \/ Today(item, at) \/ Urgent(item)
      [] attention = "NEEDS_ATTENTION" -> Overdue(item, at) \/ Urgent(item)

\* itemSortSql
Key(item, at) ==
    <<IF Overdue(item, at) THEN 0 ELSE IF Today(item, at) THEN 1
      ELSE IF item.due # NoDate THEN 2 ELSE 3,
      item.urgency,
      IF item.due = NoDate THEN Never ELSE item.due,
      IF item.due = NoDate THEN NoTime ELSE item.time,
      item.id, item.on>>

Before(a, b) ==
    \E i \in DOMAIN a : a[i] < b[i] /\ \A j \in 1 .. i - 1 : a[j] = b[j]

\* eligibleOccurrence
Eligible(s, r, date) ==
    /\ ~ s.closed
    /\ s.recurrences[r].status # "NONE"
    /\ date >= Terms[r].starts
    /\ date <= Terms[r].ends
    /\ date <= s.recurrences[r].cancelledOn
    /\ IsScheduled(Terms[r].rule, date)

Materialized(s, r) == {o[2] : o \in {o \in DOMAIN s.occurrences : o[1] = r}}

-----------------------------------------------------------------------------
(***************************************************************************)
(* The queries.  The facts are the tasks and the occurrences there is a    *)
(* row for; the others are found with the date arithmetic.                 *)
(***************************************************************************)
From(filter) ==
    IF filter.from # NoDate \/ filter.to = NoDate THEN filter.from ELSE filter.to - Ahead
To(filter) ==
    IF filter.to # NoDate \/ filter.from = NoDate THEN filter.to ELSE filter.from + Ahead

InScope(item, filter) == filter.person = "ALL" \/ item.assignee = filter.person

Facts(s, filter, at) ==
    {item \in {OneOff(s, t) : t \in DOMAIN s.tasks}
                \cup {Occurrence(o[1], o[2], s.occurrences[o]) : o \in DOMAIN s.occurrences} :
        /\ InScope(item, filter)
        /\ filter.status \in {"ALL", item.status}
        /\ LET day == IF item.on # NoDate THEN item.on ELSE item.due
           IN  /\ (From(filter) # NoDate) => (day # NoDate /\ day >= From(filter))
               /\ (To(filter) # NoDate) => (day # NoDate /\ day <= To(filter))
        /\ Matches(item, filter.attention, at)}

\* ranges: where the occurrences of a recurrence that match a list may be.
Ranges(s, filter, at) ==
    {r \in Recurrences :
        /\ s.recurrences[r].status # "NONE" /\ ~ s.closed
        /\ InScope(Terms[r], filter)
        /\ filter.status \in {"PENDING", "ALL"}
        /\ filter.attention = "URGENT" => Terms[r].urgency = 0
        /\ filter.attention \in {"TODAY", "OVERDUE", "UPCOMING"} => Terms[r].dated
        /\ filter.attention = "NO_DEADLINE" => ~ Terms[r].dated
        /\ filter.attention \in {"ATTENTION", "NEEDS_ATTENTION"} =>
               (Terms[r].dated \/ Terms[r].urgency = 0)}

\* Mistake: the time of the deadline is not looked at.
OverdueByDate(r, at) == at.date - 1

\* The last day an occurrence of it is overdue.
OverdueHigh(r, at) == IF Terms[r].timed /\ at.late THEN at.date ELSE at.date - 1

MatchLo(filter, r, at) ==
    LET lo == Max({Terms[r].starts, From(filter)})
    IN  CASE filter.attention = "TODAY"    -> Max({lo, at.date})
          [] filter.attention = "UPCOMING" -> Max({lo, at.date + 1})
          [] OTHER                         -> lo

MatchHi(s, filter, r, at) ==
    LET last == IF To(filter) # NoDate THEN To(filter)
                ELSE IF Terms[r].dated THEN at.date + Ahead ELSE at.date
        hi   == Min({Terms[r].ends, s.recurrences[r].cancelledOn, last})
        soon == \/ filter.attention \in {"TODAY", "OVERDUE"}
                \/ filter.attention \in {"ATTENTION", "NEEDS_ATTENTION"} /\ Terms[r].urgency # 0
    IN  IF ~ soon THEN hi
        ELSE IF filter.attention \in {"OVERDUE", "NEEDS_ATTENTION"}
             THEN Min({hi, IF Terms[r].timed /\ at.late THEN at.date ELSE at.date - 1})
             ELSE Min({hi, at.date})

\* Scheduled dates of an interval that there is no row for.
VirtualCount(s, filter, r, at, lo, hi) ==
    LET from == Max({lo, MatchLo(filter, r, at)})
        to   == Min({hi, MatchHi(s, filter, r, at)})
    IN  CountIn(Terms[r].rule, from, to)
            - Cardinality({d \in Materialized(s, r) : d \in from .. to})

\* routineCountsSql
Counts(s, filter, at) ==
    LET ranges == Ranges(s, filter, at)
        dated  == {r \in ranges : Terms[r].dated}
        urgent == {r \in ranges : Terms[r].urgency = 0}
        facts  == Facts(s, filter, at)
        Virtuals(rs, lo, hi) ==
            MapThenSumSet(LAMBDA r : VirtualCount(s, filter, r, at, lo, hi[r]), rs)
        Count(rs, lo, hi, Is(_)) ==
            Virtuals(rs, lo, hi) + Cardinality({i \in facts : Is(i)})
        any  == [r \in Recurrences |-> Never]
        date == [r \in Recurrences |-> at.date]
        high == [r \in Recurrences |-> OverdueHigh(r, at)]
    IN  [total      |-> Count(ranges, 0, any, LAMBDA i : TRUE),
         today      |-> Count(dated, at.date, date, LAMBDA i : Today(i, at)),
         overdue    |-> Count(dated, 0, high, LAMBDA i : Overdue(i, at)),
         urgent     |-> Count(urgent, 0, any, LAMBDA i : Urgent(i)),
         upcoming   |-> Count(dated, at.date + 1, any, LAMBDA i : Upcoming(i, at)),
         noDeadline |-> Count(ranges \ dated, 0, any, LAMBDA i : Undated(i))]

\* The date of a cursor, or NoDate.
AfterDate(after) ==
    IF after = <<>> THEN NoDate
    ELSE IF after[6] # NoDate THEN after[6]
    ELSE IF after[3] = Never THEN NoDate ELSE after[3]

\* Mistake: the day after an occurrence that has a row is no seed.
SeedsOfClock(s, filter, r, at, after) ==
    LET lo == MatchLo(filter, r, at)
        hi == MatchHi(s, filter, r, at)
    IN  (IF lo > hi THEN {} ELSE {lo, Max({lo, at.date}), Max({lo, at.date + 1})})
            \cup {Max({lo, d}) : d \in {AfterDate(after)} \ {NoDate}}

\* raw_seeds: the days from which occurrences are looked for.
RawSeeds(s, filter, r, at, after) ==
    LET lo   == MatchLo(filter, r, at)
        hi   == MatchHi(s, filter, r, at)
    IN  (IF lo > hi THEN {} ELSE {lo, Max({lo, at.date}), Max({lo, at.date + 1})})
            \cup {d + 1 : d \in {d \in Materialized(s, r) : d >= lo /\ d < hi}}
            \cup {Max({lo, d}) :
                    d \in {d \in {AfterDate(after)} :
                             d # NoDate /\ (Terms[r].dated \/ (after[6] # NoDate /\ after[5] = r))}}

\* Of the n-th scheduled dates from a day on, those in the range and without a row.
Found(s, filter, r, at, seeds, ns) ==
    {d \in {NthFrom(Terms[r].rule, seed, n) : seed \in seeds, n \in ns} :
        /\ d \in MatchLo(filter, r, at) .. MatchHi(s, filter, r, at)
        /\ d \notin Materialized(s, r)}

\* seeds: the first of them, as many as a page may need and one for the cursor.
Seeds(s, filter, r, at, after, limit) ==
    LET key(d) == Key(Occurrence(r, d, "PENDING"), at)
        First(left) ==
            {d \in left : Cardinality({e \in left : Before(key(e), key(d))}) <= limit}
    IN  First({d \in Found(s, filter, r, at, RawSeeds(s, filter, r, at, after), {0}) :
                  after = <<>> \/ Before(after, key(d)) \/ d = AfterDate(after)})

Virtual(s, filter, r, at, after, limit) ==
    {Occurrence(r, d, "PENDING") :
        d \in Found(s, filter, r, at, Seeds(s, filter, r, at, after, limit), 0 .. limit - 1)}

FirstOf(keys, limit) ==
    SubSeq(SetToSortSeq(keys, Before), 1, Min({limit, Cardinality(keys)}))

\* routinePageSql
Page(s, filter, at, after, limit) ==
    LET combined == Facts(s, filter, at)
                      \cup UNION {Virtual(s, filter, r, at, after, limit) :
                                    r \in Ranges(s, filter, at)}
    IN  FirstOf({k \in {Key(i, at) : i \in combined} : after = <<>> \/ Before(after, k)}, limit)

Created(s) == {r \in Recurrences : s.recurrences[r].status # "NONE"}

\* What a list should hold: every fact, and every date that is eligible.
Listed(s, filter, at) ==
    LET last(r) == IF To(filter) # NoDate THEN To(filter)
                   ELSE IF Terms[r].dated THEN at.date + Ahead ELSE at.date
    IN  Facts(s, filter, at) \cup
        {item \in UNION {{Occurrence(r, d, "PENDING") :
                            d \in {d \in Terms[r].starts .. Min({last(r), Terms[r].ends}) :
                                     /\ d >= From(filter)
                                     /\ Eligible(s, r, d)
                                     /\ d \notin Materialized(s, r)}} : r \in Created(s)} :
            /\ InScope(item, filter)
            /\ filter.status \in {"PENDING", "ALL"}
            /\ Matches(item, filter.attention, at)}

ListedKeys(s, filter, at) == {Key(i, at) : i \in Listed(s, filter, at)}

-----------------------------------------------------------------------------
(***************************************************************************)
(* The commands.                                                           *)
(***************************************************************************)
\* steady: what a walk was to list from the start, and still is as it was; seen: all
\* that could have been listed at some time of it.
Overtaken(keys) == [walk EXCEPT !.steady = @ \cap keys, !.seen = @ \cup keys]

Commit(s) ==
    /\ commands < MaxCommands
    /\ ~ space.closed
    /\ space' = s
    /\ commands' = commands + 1
    /\ walk' = IF walk.status = "OPEN"
               THEN Overtaken(ListedKeys(s, walk.filter, walk.at)) ELSE walk
    /\ UNCHANGED now

CreateRecurrence(r) ==
    /\ space.recurrences[r].status = "NONE"
    /\ Commit([space EXCEPT !.recurrences[r].status = "ACTIVE"])

CancelRecurrence(r) ==
    /\ space.recurrences[r].status = "ACTIVE"
    /\ Commit([space EXCEPT !.recurrences[r] = [status |-> "CANCELLED", cancelledOn |-> now.date]])

OccurrenceCommand(r, date, from, to) ==
    /\ IF date \in Materialized(space, r)
       THEN space.occurrences[<<r, date>>] = from
       ELSE Eligible(space, r, date) /\ from = "PENDING"
    /\ Commit([space EXCEPT !.occurrences = (<<r, date>> :> to) @@ @])

Complete(r, date) == OccurrenceCommand(r, date, "PENDING", "COMPLETED")
Reopen(r, date)   == OccurrenceCommand(r, date, "COMPLETED", "PENDING")
Skip(r, date)     == OccurrenceCommand(r, date, "PENDING", "SKIPPED")

CreateTask(t, deadline, urgency, assignee) ==
    /\ t \notin DOMAIN space.tasks
    /\ Commit([space EXCEPT !.tasks =
           (t :> [status |-> "PENDING", urgency |-> urgency, due |-> deadline.due,
                  time |-> deadline.time, assignee |-> assignee]) @@ @])

ChangeTask(t, from, changed) ==
    /\ t \in DOMAIN space.tasks
    /\ space.tasks[t].status = from
    /\ Commit([space EXCEPT !.tasks[t] = changed])

\* maintainTask, assignTask
MaintainTask(t, deadline, urgency, assignee) ==
    /\ t \in DOMAIN space.tasks
    /\ \/ ChangeTask(t, "PENDING", [space.tasks[t] EXCEPT !.due = deadline.due,
                                                         !.time = deadline.time])
       \/ ChangeTask(t, "PENDING", [space.tasks[t] EXCEPT !.urgency = urgency])
       \/ ChangeTask(t, "PENDING", [space.tasks[t] EXCEPT !.assignee = assignee])

\* completeTask, reopenTask, CANCEL
EndTask(t) ==
    /\ t \in DOMAIN space.tasks
    /\ \/ ChangeTask(t, "PENDING", [space.tasks[t] EXCEPT !.status = "COMPLETED"])
       \/ ChangeTask(t, "COMPLETED", [space.tasks[t] EXCEPT !.status = "PENDING"])
       \/ ChangeTask(t, "PENDING", [space.tasks[t] EXCEPT !.status = "CANCELLED"])

\* The space is closed: what is pending is cancelled, and recurrences end.
Close ==
    Commit([space EXCEPT
        !.closed = TRUE,
        !.tasks = [t \in DOMAIN @ |->
            IF @[t].status = "PENDING" THEN [@[t] EXCEPT !.status = "CANCELLED"] ELSE @[t]],
        !.occurrences = [o \in DOMAIN @ |->
            IF @[o] = "PENDING" THEN "CANCELLED" ELSE @[o]]])

-----------------------------------------------------------------------------
(***************************************************************************)
(* A list is read page after page, as of when its first page was read.     *)
(***************************************************************************)
Opened(filter, keys) ==
    [filter |-> filter, at |-> now, after |-> <<>>, listed |-> <<>>,
     steady |-> keys, seen |-> keys, status |-> "OPEN"]

Open(filter) ==
    /\ walk.status = "NONE"
    /\ walk' = Opened(filter, ListedKeys(space, filter, now))
    /\ UNCHANGED <<now, space, commands>>

Turned(items, isLast) ==
    [walk EXCEPT !.listed = @ \o items,
                 !.after  = IF items = <<>> THEN @ ELSE Last(items),
                 !.status = IF isLast THEN "DONE" ELSE @]

\* One more item than the page holds is read, to know whether there is another page.
NextPage ==
    /\ walk.status = "OPEN"
    /\ \E rows \in {Page(space, walk.filter, walk.at, walk.after, Limit + 1)} :
           walk' = Turned(SubSeq(rows, 1, Min({Limit, Len(rows)})), Len(rows) <= Limit)
    /\ UNCHANGED <<now, space, commands>>

Tick ==
    /\ IF ~ now.late THEN now' = [now EXCEPT !.late = TRUE]
       ELSE now.date < LastDay /\ now' = [date |-> now.date + 1, late |-> FALSE]
    /\ UNCHANGED <<space, walk, commands>>

\* The steps of the recurrences and lists of a situation.
Step(recurrences, dates, deadlines, walks) ==
    \/ \E r \in recurrences : CreateRecurrence(r) \/ CancelRecurrence(r)
    \/ \E r \in recurrences, date \in dates :
           Complete(r, date) \/ Reopen(r, date) \/ Skip(r, date)
    \/ \E t \in Tasks, deadline \in deadlines, urgency \in Urgencies, assignee \in People :
           CreateTask(t, deadline, urgency, assignee) \/ MaintainTask(t, deadline, urgency, assignee)
    \/ \E t \in Tasks : EndTask(t)
    \/ Close
    \/ \E filter \in walks : Open(filter)
    \/ NextPage
    \/ Tick

Next == Step(Recurrences, FirstDay - Ahead .. LastDay + Ahead, Deadlines, WalkFilters)

Spec == Init /\ [][Next]_vars

-----------------------------------------------------------------------------
(***************************************************************************)
(* Properties.                                                             *)
(***************************************************************************)
\* From any day on, the queries count the dates that the domain schedules, and the
\* n-th they find is one with n others before it: for the days around the first, and
\* checked in the first state, for nothing of the state matters.
CalendarsAgree ==
    Init =>
        \A rule \in Rules, day \in now.date - Around .. now.date + Around :
            /\ \A span \in Spans :
                   CountIn(rule, day, day + span) =
                       Cardinality({d \in day .. day + span : IsScheduled(rule, d)})
            /\ \A n \in 0 .. 3 :
                   LET date == NthFrom(rule, day, n)
                   IN  date # Beyond =>
                           /\ IsScheduled(rule, date)
                           /\ Cardinality({d \in day .. date - 1 : IsScheduled(rule, d)}) = n

\* The counters that come with a list, computed without listing anything, are the
\* number of the items that meet each condition.
CountsMatchItems ==
    walk = NotRead => \A filter \in Filters : \A items \in {Listed(space, filter, now)} :
        Counts(space, filter, now) =
                [total      |-> Cardinality(items),
                 today      |-> Cardinality({i \in items : Today(i, now)}),
                 overdue    |-> Cardinality({i \in items : Overdue(i, now)}),
                 urgent     |-> Cardinality({i \in items : Urgent(i)}),
                 upcoming   |-> Cardinality({i \in items : Upcoming(i, now)}),
                 noDeadline |-> Cardinality({i \in items : Undated(i)})]

\* Whatever is completed, skipped, reopened, changed or cancelled between the pages
\* of a list, no page skips an item that stays as it was, lists what was never
\* there, or lists again what is where it was.
NothingIsSkipped ==
    /\ \A k \in walk.steady :
           (walk.after # <<>> /\ ~ Before(walk.after, k)) => k \in ToSet(walk.listed)
    /\ ToSet(walk.listed) \subseteq walk.seen
    /\ IsInjective(walk.listed)

\* Once there is no other page, all that stayed as it was has been listed: as many
\* items as the counters of the list said.
WalkListsWhatStays ==
    walk.status = "DONE" => walk.steady \subseteq ToSet(walk.listed)
=============================================================================
