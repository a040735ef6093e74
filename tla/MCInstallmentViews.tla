------------------------- MODULE MCInstallmentViews --------------------------
(***************************************************************************)
(* InstallmentViews for a plan of two installments.  As long as they cost  *)
(* what was planned there may be two payments of each and two payoffs, but *)
(* four in all, and otherwise two terms of each, one payment, or a debt to *)
(* others that is settled once, and one payoff.                            *)
(***************************************************************************)
EXTENDS InstallmentViews

MCAmounts == <<1, 2>>
MCDues    == <<1, 2>>
MCWeights == <<1, 2>>
MCCash    == {"DISBURSEMENT"}
MCBoth    == {"DISBURSEMENT", "EXTERNAL_LIABILITY"}
MCNothing == {}
MCDown    == {-1}

MCNext ==
    /\ Next
    /\ Len(installments'[1].facts) + Len(installments'[2].facts) + Len(payoffs') <= 4
    /\ ~ AsPlanned' =>
           /\ Len(payoffs') <= 1
           /\ \A i \in Positions :
                  /\ Len(installments'[i].facts) <= 1
                  /\ \A f \in DOMAIN installments'[i].facts :
                         Len(installments'[i].facts[f].settled) <= 1

MCSpec == Init /\ [][MCNext]_vars
==============================================================================
