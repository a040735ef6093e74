-------------------------- MODULE ClosureAgreement -------------------------
(***************************************************************************)
(* What the closure of a shared space promises, without plans, revisions   *)
(* or versions: a space is closed by the unanimous agreement of its        *)
(* members on its books as they are.  Any write to the books, and any      *)
(* change of the terms, undoes the agreement reached so far, and a closed  *)
(* space is never touched again.                                           *)
(***************************************************************************)
EXTENDS Naturals

CONSTANTS Persons, Creator

VARIABLES
    phase,    \* "ACTIVE", "CLOSING" or "CLOSED"
    parties,  \* the members of the space
    ledger,   \* the number of writes to its books
    agreed    \* the members who agree to close it with these books

agreementVars == <<phase, parties, ledger, agreed>>

AgreementInit ==
    /\ phase = "ACTIVE"
    /\ parties \in SUBSET Persons
    /\ Creator \in parties
    /\ ledger = 0
    /\ agreed = {}

Enter(p) ==
    /\ phase = "ACTIVE"
    /\ parties' = parties \cup {p}
    /\ UNCHANGED <<phase, ledger, agreed>>

Begin ==
    /\ phase = "ACTIVE"
    /\ phase' = "CLOSING"
    /\ agreed' = {}
    /\ UNCHANGED <<parties, ledger>>

Write ==
    /\ phase # "CLOSED"
    /\ ledger' = ledger + 1
    /\ agreed' = {}
    /\ UNCHANGED <<phase, parties>>

Retract ==
    /\ phase = "CLOSING"
    /\ agreed' = {}
    /\ UNCHANGED <<phase, parties, ledger>>

Agree(p) ==
    /\ phase = "CLOSING"
    /\ p \in parties \ agreed
    /\ agreed' = agreed \cup {p}
    /\ phase' = IF agreed' = parties THEN "CLOSED" ELSE "CLOSING"
    /\ UNCHANGED <<parties, ledger>>

CallOff ==
    /\ phase = "CLOSING"
    /\ phase' = "ACTIVE"
    /\ agreed' = {}
    /\ UNCHANGED <<parties, ledger>>

AgreementNext ==
    \/ \E p \in Persons : Enter(p) \/ Agree(p)
    \/ Begin \/ Write \/ Retract \/ CallOff

AgreementSpec == AgreementInit /\ [][AgreementNext]_agreementVars
=============================================================================
