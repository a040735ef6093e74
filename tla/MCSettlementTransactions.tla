---------------------- MODULE MCSettlementTransactions ----------------------
(***************************************************************************)
(* Two origins, each with an obligation in the first cycle and room for    *)
(* another one, and two cycles, in one of three situations: commands that  *)
(* cross each other, those a finalization meets, and requests that are     *)
(* sent again.  A situation says what is owed, which cycles there are,     *)
(* what is asked, by how many requests, and how many connections are lost. *)
(***************************************************************************)
EXTENDS SettlementTransactions

MCOriginOf == [o \in Obligations |-> 1 + ((o + 1) % 2)]

TwoEach   == [f \in Origins |-> 2]
OneOrNone == [f \in Origins |-> IF f = 1 THEN 1 ELSE 0]
MCDebts   == {TwoEach, OneOrNone}
MCOpened  == {{1}, {1, 2}}

Resolution(kind, key, targets) == [kind |-> kind, key |-> key, targets |-> targets]
Move(key, o, k)      == [kind |-> "MOVE", key |-> key, targets |-> <<o>>, cycle |-> k]
Reversal(key, of, k)  == [kind |-> "REVERSE", key |-> key, original |-> of, cycle |-> k]
Reconcile(key, f, k) == [kind |-> "RECONCILE", key |-> key, origin |-> f, cycle |-> k]
Finalize(key, k)     == [kind |-> "FINALIZE", key |-> key, targets |-> <<>>, cycle |-> k]
StartClosure(key)    == [kind |-> "START_CLOSURE", key |-> key, targets |-> <<>>]

\* Commands that lock the same rows, named in different orders.
Crossing ==
    {Resolution("OFFSET", 1, <<1, 2>>), Resolution("OFFSET", 2, <<2, 1>>),
     Resolution("TRANSFER", 3, <<2, 1>>), Resolution("WAIVE", 2, <<1>>), Move(1, 1, 2), Move(2, 2, 2),
     Reconcile(3, 1, 2), StartClosure(3)}

\* What a finalization meets: the last resolution of its cycle, what writes into it,
\* and what comes back once it is finalized.
Finalizing ==
    {Resolution("TRANSFER", 1, <<1>>),
     Move(3, 1, 2), Reconcile(3, 2, NoCycle), Reconcile(3, 2, 2), Finalize(4, 1),
     Reversal(5, 1, NoCycle), Reversal(5, 1, 2)}

\* Requests that are sent again.
Retried ==
    {Resolution("TRANSFER", 1, <<1>>), Resolution("OFFSET", 1, <<1, 2>>), Move(2, 1, 2),
     Finalize(3, 1), StartClosure(3)}

Situation(commands, owed, opened, requests, twins, losses) ==
    [commands |-> commands, owed |-> owed, opened |-> opened, requests |-> requests,
     twins |-> twins, losses |-> losses]

\* Where connections are lost the second request has the command of the first.
Situations ==
    {Situation(Crossing, TwoEach, {1}, {1, 2}, {}, 0),
     Situation(Finalizing, OneOrNone, {1, 2}, {1, 2, 3}, {}, 0),
     Situation(Retried, OneOrNone, {1}, {1, 2, 3}, {2}, 1)}

AnyCommand == Crossing \cup Finalizing \cup Retried

VARIABLE situation

MCInit ==
    /\ Init
    /\ situation \in Situations
    /\ db.owed = situation.owed
    /\ {k \in Cycles : HasCycle(db, k)} = situation.opened

\* The requests differ in nothing but their numbers: they are made in that order.
MCNext ==
    /\ Next
    /\ \A r \in Requests \ {1} :
           request'[r].stage # "IDLE" => request'[r - 1].stage # "IDLE"
    /\ \A r \in Requests : request'[r].stage # "IDLE" =>
           r \in situation.requests /\ request'[r].command \in situation.commands
    /\ \A r \in situation.twins : request'[r].stage # "IDLE" =>
           request'[r].command = request'[r - 1].command
    /\ lost' <= situation.losses
    /\ UNCHANGED situation

MCSpec == MCInit /\ [][MCNext]_<<vars, situation>> /\ Fairness
=============================================================================
