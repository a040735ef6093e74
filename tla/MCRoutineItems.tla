--------------------------- MODULE MCRoutineItems ---------------------------
(***************************************************************************)
(* RoutineItems around 29 February 2024, in one of two situations: tasks   *)
(* and recurrences that are counted as days pass, and a list that is read  *)
(* page after page in a day.                                               *)
(***************************************************************************)
EXTENDS RoutineItems, TLC

Rule(frequency, weekdays, month, day) ==
    [frequency |-> frequency, weekdays |-> weekdays, month |-> month, day |-> day]

\* Every rule that can be given, of those that differ.
MCRules ==
    {Rule("DAILY", {}, 0, 0)}
        \cup {Rule("WEEKLY", {w}, 0, 0) : w \in 1 .. 7}
        \cup {Rule("WEEKDAYS", ws, 0, 0) : ws \in {{1}, {6, 7}, {1, 3, 5}, {2, 3, 7}, 1 .. 7}}
        \cup {Rule("MONTHLY", {}, 0, d) : d \in {1, 2, 15, 28, 29, 30, 31}}
        \cup {Rule("ANNUAL", {}, m, d) : m \in {1, 2, 12}, d \in {1, 28, 29}}
        \cup {Rule("ANNUAL", {}, m, 31) : m \in {1, 12}}

MCSpans     == {0, 1, 6, 7, 30, 31, 59, 365, 366}
Filter(status, attention, person, from, to) ==
    [status |-> status, attention |-> attention, person |-> person, from |-> from, to |-> to]

\* 425 is 29 February 2024, a Thursday.
MCTerms ==
    <<[rule |-> Rule("DAILY", {}, 0, 0), urgency |-> 1, dated |-> TRUE, timed |-> TRUE,
       starts |-> 424, ends |-> Never, assignee |-> "ana"],
      [rule |-> Rule("MONTHLY", {}, 0, 31), urgency |-> 0, dated |-> FALSE, timed |-> FALSE,
       starts |-> 396, ends |-> 426, assignee |-> "bia"],
      [rule |-> Rule("DAILY", {}, 0, 0), urgency |-> 1, dated |-> TRUE, timed |-> FALSE,
       starts |-> 424, ends |-> Never, assignee |-> "ana"],
      [rule |-> Rule("WEEKDAYS", {3, 6}, 0, 0), urgency |-> 1, dated |-> TRUE, timed |-> TRUE,
       starts |-> 423, ends |-> Never, assignee |-> "bia"]>>

MCTasks     == {5}
MCDeadlines == {NoDeadline, [due |-> 425, time |-> AtTime]}
WithTime   == {[due |-> 425, time |-> AtTime]}
MCPeople    == {"ana"}

MCAttentions == {"NONE", "TODAY", "OVERDUE", "URGENT", "UPCOMING", "NO_DEADLINE", "ATTENTION",
                 "NEEDS_ATTENTION"}

MCFilters ==
    {Filter(s, a, "ALL", NoDate, NoDate) : s \in {"PENDING", "ALL"}, a \in MCAttentions}
        \cup {Filter("PENDING", a, "ana", NoDate, NoDate) : a \in MCAttentions}
        \cup {Filter("ALL", a, "ALL", 425, NoDate) : a \in MCAttentions}
        \cup {Filter("ALL", a, "ALL", NoDate, 425) : a \in MCAttentions}
        \cup {Filter("COMPLETED", "NONE", "ALL", NoDate, NoDate)}

MCWalks ==
    {Filter("PENDING", "NONE", "ALL", NoDate, NoDate), Filter("ALL", "NONE", "ALL", NoDate, NoDate)}

VARIABLE situation

MCInit == Init /\ situation \in {"COUNTED", "READ"}

Counted == situation = "COUNTED"

MCNext ==
    /\ Step(IF Counted THEN {1, 2} ELSE {3, 4},
            FirstDay - Ahead .. (IF Counted THEN LastDay ELSE FirstDay) + Ahead,
            IF Counted THEN MCDeadlines ELSE WithTime,
            IF Counted THEN {} ELSE MCWalks)
    /\ Counted \/ (now'.date = FirstDay /\ commands' <= 3)
    /\ UNCHANGED situation

MCSpec == MCInit /\ [][MCNext]_<<vars, situation>>
=============================================================================
