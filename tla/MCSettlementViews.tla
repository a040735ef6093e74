------------------------- MODULE MCSettlementViews -------------------------
(***************************************************************************)
(* SettlementViews for TLC: the cycles of two dates; or one of them, where *)
(* there is a closure agreement to offset an expense with.                 *)
(***************************************************************************)
EXTENDS MCSettlementLedger, SettlementViews

MCDates == [c \in Cycles |-> IF c = may THEN 1 ELSE 2]

AtMostTwo == \A s \in Origins : \A f \in DOMAIN facts[s] : facts[s][f].amount <= 2

\* Either member may have paid the expense, so that one direction of the agreement will do.
SmallAndInMay ==
    /\ cycles[june] = "ABSENT"
    /\ \A s \in Agreements : agreed[s] \in 0 .. 2

ViewedNext ==
    /\ Next
    /\ (Agreed # {} => SmallAndInMay)'
    /\ (Agreed # {} \/ cycles[june] # "ABSENT" => AtMostTwo)'

ViewedSpec == Init /\ [][ViewedNext]_vars
=============================================================================
