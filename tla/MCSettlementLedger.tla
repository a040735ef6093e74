------------------------- MODULE MCSettlementLedger ------------------------
(***************************************************************************)
(* SettlementLedger for TLC: two members, and small amounts.  An expense   *)
(* is paid in parts and adjusted while few obligations are resolved; or it *)
(* is paid once, and there may be a closure agreement and more to resolve. *)
(***************************************************************************)
EXTENDS SettlementLedger

CONSTANTS ana, beto, rent, sofa, may, june

MCRent      == {rent}
MCSofa      == {sofa}
None        == {}
MCMayJune   == {may, june}

\* Ana bears two parts of the rent and Beto one; they share anything else.
MCShares ==
    [s \in Origins |-> [m \in Parties |-> IF s = rent /\ m = First THEN 2 ELSE 1]]
MCAdjusted == {[m \in Parties |-> n] : n \in {1, 2}}

PaidInParts == Len(obligations) <= 2 /\ Len(obligations) + Len(resolutions) <= 3
PaidOnce    == shares = Shares /\ \A s \in Origins : Len(facts[s]) <= 1
Agreed      == {s \in Agreements : agreed[s] # 0}

MCNext == Next /\ ((PaidInParts /\ Agreed = {}) \/ PaidOnce)'

MCSpec == Init /\ [][MCNext]_vars
=============================================================================
