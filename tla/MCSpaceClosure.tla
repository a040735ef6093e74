--------------------------- MODULE MCSpaceClosure --------------------------
(***************************************************************************)
(* SpaceClosure for TLC: at most two members, a recurrence, an installment *)
(* plan and two dates, in three situations with choices and bounds of      *)
(* their own: a space still of one person, one whose second member has     *)
(* just joined, and one that can be closed and reopened many times.        *)
(***************************************************************************)
EXTENDS SpaceClosure

CONSTANTS ana, beto, rent, sofa

VARIABLE situation

MCPersons      == {ana, beto}
MCRecurring    == {rent}
MCInstallments == {sofa}
MCChoices      == {"TERMINATE", "PERSONAL_SUCCESSOR", "SETTLE_BEFORE_CLOSURE"}

\* The choices, the versions of the space and the writes to its books.
Bounds ==
    [alone    |-> [choices |-> {"TERMINATE"}, version |-> 8, ledger |-> 2],
     together |-> [choices |-> {"PERSONAL_SUCCESSOR", "SETTLE_BEFORE_CLOSURE"},
                   version |-> 10, ledger |-> 3],
     reopened |-> [choices |-> {"TERMINATE"}, version |-> 14, ledger |-> 0]]

Unpaid(origins) == [o \in Origins |-> IF o \in origins THEN Dates ELSE {}]

\* A space whose second member has just joined, with items still to be paid and
\* one settlement made.
TogetherInit(origins) ==
    /\ status = "ACTIVE"
    /\ version = 2
    /\ members = MCPersons
    /\ process = NoProcess
    /\ books = [ledger   |-> 0,
                debts    |-> 0,
                settled  |-> 1,
                items    |-> Unpaid(origins),
                versions |-> [o \in Origins |-> 1],
                effects  |-> {}]
    /\ work = FALSE
    /\ today = 1

MCInit ==
    \/ situation = "alone"    /\ Init /\ books.items = Unpaid({sofa})
    \/ situation = "together" /\ TogetherInit({rent})
    \/ situation = "reopened" /\ TogetherInit({rent, sofa})

Within ==
    LET bounds == Bounds[situation]
    IN  /\ version <= bounds.version
        /\ books.ledger <= bounds.ledger
        /\ \A d \in plan.destinations : d.choice \in bounds.choices

MCNext == Next /\ UNCHANGED situation /\ Within'

MCSpec == MCInit /\ [][MCNext]_<<vars, situation>>
=============================================================================
