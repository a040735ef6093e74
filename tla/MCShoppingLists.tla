-------------------------- MODULE MCShoppingLists --------------------------
(***************************************************************************)
(* ShoppingLists in one of two situations: an item that is purchased, or   *)
(* links of a task to a list.                                              *)
(***************************************************************************)
EXTENDS ShoppingLists

C(kind, key, item, purchase, quantity) ==
    [kind |-> kind, key |-> key, list |-> "l", item |-> item, purchase |-> purchase,
     task |-> "t", quantity |-> quantity]

\* One item, two purchases, and two corrections of one of them.
MCItems == {C("CREATE", 1, "i", "p", 0), C("ADD", 2, "i", "p", 3), C("PURCHASE", 3, "i", "p", 2),
            C("PURCHASE", 4, "i", "q", 2), C("CORRECT", 5, "i", "p", 1),
            C("CORRECT", 6, "i", "p", 3), C("NEED", 7, "i", "p", 1), C("REMOVE", 8, "i", "p", 0)}

\* Links of a task to a list that is archived; a key is used twice.
MCLinks == {C("CREATE", 1, "i", "p", 0), C("CREATE_TASK", 2, "i", "p", 0),
            C("ARCHIVE", 3, "i", "p", 0), C("LINK", 4, "i", "p", 0), C("RENAME", 6, "i", "p", 0),
            C("RENAME", 1, "i", "p", 0),
            [C("UNLINK", 5, "i", "p", 0) EXCEPT !.list = NoList],
            [C("CREATE_TASK", 7, "i", "p", 0) EXCEPT !.list = NoList, !.task = "u"],
            [C("LINK", 4, "i", "p", 0) EXCEPT !.task = "u"]}

AnyCommand == MCItems \cup MCLinks

VARIABLE situation  \* the commands that are asked for

MCInit == Init /\ situation \in {MCItems, MCLinks}

MCNext ==
    /\ Next
    /\ \A r \in Requests :
           request'[r].stage # "IDLE" => request'[r].command \in situation
    /\ UNCHANGED situation

MCSpec == MCInit /\ [][MCNext]_<<vars, situation>>
=============================================================================
