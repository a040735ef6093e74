--------------------------- MODULE MCTodayScreen --------------------------
(***************************************************************************)
(* TodayScreen for TLC: two members, a recurrence and three dates, in one  *)
(* of the stages a closure may be in when the screen is asked for.         *)
(***************************************************************************)
EXTENDS TodayScreen

CONSTANTS ana, beto, rent

MCPersons == {ana, beto}
MCRent    == {rent}
NoOrigin  == {}
MCEnd     == {"TERMINATE"}

MCAgendas == {[open |-> {}, owed |-> {}, proposals |-> 0],
              [open |-> {1, 3}, owed |-> {1}, proposals |-> 1]}

MCBooks == [ledger   |-> 0,
            debts    |-> 0,
            settled  |-> 0,
            items    |-> [o \in Origins |-> Dates],
            versions |-> [o \in Origins |-> 1],
            effects  |-> {}]

\* The stages of a closure begun on the second day: its plan is drafted, is proposed by one
\* member, and was approved by both, its destinations applied, and confirmed by one.
Drafted(books0) == WithDestination(StartPlan(ana, MCPersons, 2),
                                   Destination(books0, rent, "TERMINATE", 2))
PutForth(books0) == Proposed(Drafted(books0), ana, Fingerprint(books0, 2))
BothAgree(books0)  == Approved(PutForth(books0), beto)

\* All that was due before the closure is paid.
Paid == [MCBooks EXCEPT !.items[rent] = {2, 3}, !.ledger = 1]

Ended == Applied(Paid, Drafted(Paid).destinations, 1, 2, 2)

Open(next) == [status |-> "OPEN", number |-> 1, plan |-> next]

Stages ==
    {[status |-> "ACTIVE", process |-> NoProcess, books |-> MCBooks],
     [status |-> "CLOSING", process |-> Open(Drafted(MCBooks)), books |-> MCBooks],
     [status |-> "CLOSING", process |-> Open(PutForth(MCBooks)), books |-> MCBooks],
     [status |-> "CLOSING",
      process |-> Open(Confirmed(BothAgree(Paid), ana, Fingerprint(Ended, 2))),
      books |-> Ended]}

MCInit ==
    /\ \E stage \in Stages :
        /\ status = stage.status
        /\ process = stage.process
        /\ books = stage.books
    /\ members \in {{ana}, MCPersons}
    /\ status = "CLOSING" => members = MCPersons
    /\ version = 3
    /\ work \in BOOLEAN
    /\ today = 2
    /\ agenda \in MCAgendas
    /\ request = NoRequest
    /\ changes = 0
    /\ failures = 0

MCSpec == MCInit /\ [][ScreenNext]_screenVars
=============================================================================
