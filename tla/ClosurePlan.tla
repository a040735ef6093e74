---------------------------- MODULE ClosurePlan ----------------------------
(***************************************************************************)
(* The value object ClosurePlan of the spaces domain: the plan two members *)
(* negotiate before their shared space is closed.  A plan is a record; the *)
(* methods of the class are pairs of operators, one for the conditions     *)
(* under which the method returns (Can...) and one for the plan it         *)
(* returns.  A method that throws leaves the caller without a new plan, so *)
(* the conditions are used as guards by the module SpaceClosure.           *)
(*                                                                         *)
(* Dates are positive numbers and 0 is null.  A fingerprint is the pair of *)
(* the cutoff it was computed for and of the state of the books: the code  *)
(* hashes both, and two different pairs never hash alike.                  *)
(***************************************************************************)
EXTENDS Naturals, FiniteSets

NoDate == 0
NoSnapshot == [cutoff |-> NoDate, ledger |-> 0]

(***************************************************************************)
(* ClosurePlan.start                                                       *)
(***************************************************************************)
StartPlan(requester, participants, date) ==
    [requestedBy   |-> requester,
     participants  |-> participants,
     cutoff        |-> date,
     proposed      |-> NoDate,
     revision      |-> 1,
     status        |-> "DRAFT",
     approvals     |-> {},
     confirmations |-> {},
     destinations  |-> {},
     snapshot      |-> NoSnapshot,
     bilateral     |-> FALSE,
     consents      |-> {}]

\* The cutoff the plan would have once approved: proposedCutoffDate ?? cutoffDate.
TargetCutoff(plan) ==
    IF plan.proposed = NoDate THEN plan.cutoff ELSE plan.proposed

\* Mistake: a redraft that leaves the consents of the previous terms standing.
RedraftedWithConsents(plan) ==
    [plan EXCEPT !.revision = @ + 1, !.status = "DRAFT", !.approvals = {},
                 !.confirmations = {}, !.snapshot = NoSnapshot]

\* Mistake: a redraft that forgets that both members once approved.
RedraftedForgetful(plan) ==
    [RedraftedWithConsents(plan) EXCEPT !.consents = {}, !.bilateral = FALSE]

\* The reset every change of the terms makes: a new draft nobody has agreed to.
\* What both once approved (bilateral) is not forgotten.
Redrafted(plan) ==
    [plan EXCEPT !.revision      = @ + 1,
                 !.status        = "DRAFT",
                 !.approvals     = {},
                 !.confirmations = {},
                 !.snapshot      = NoSnapshot,
                 !.consents      = {}]

(***************************************************************************)
(* proposeCutoff                                                           *)
(***************************************************************************)

CanProposeCutoff(plan, date) ==
    /\ date >= plan.cutoff
    /\ date # TargetCutoff(plan)

WithCutoff(plan, date) ==
    [Redrafted(plan) EXCEPT
        !.proposed = IF date = plan.cutoff THEN NoDate ELSE date]

(***************************************************************************)
(* upsertDestination: a destination replaces the one of the same origin.   *)
(***************************************************************************)
CanUpsert(plan, destination) ==
    /\ destination.cutoff = TargetCutoff(plan)
    /\ destination.choice = "SETTLE_BEFORE_CLOSURE" =>
           Cardinality(plan.participants) = 2
    /\ destination \notin plan.destinations

WithDestination(plan, destination) ==
    [Redrafted(plan) EXCEPT
        !.destinations = {d \in @ : d.origin # destination.origin}
                              \cup {destination}]

(***************************************************************************)
(* decide: PROPOSE puts a snapshot of the books on the table, APPROVE and  *)
(* REJECT are the other member's answer.  With a single participant the    *)
(* proposal is its own approval.                                           *)
(***************************************************************************)
CanPropose(plan, member, fingerprint) ==
    /\ member \in plan.participants
    /\ ~ (/\ plan.status \in {"PROPOSED", "APPROVED"}
          /\ plan.snapshot = fingerprint
          /\ plan.consents = {})

Proposed(plan, member, fingerprint) ==
    LET next  == plan.revision + (IF plan.status = "DRAFT" THEN 0 ELSE 1)
        alone == Cardinality(plan.participants) = 1
    IN  [plan EXCEPT
            !.revision      = next,
            !.status        = IF alone THEN "APPROVED" ELSE "PROPOSED",
            !.snapshot      = fingerprint,
            !.approvals     = {[member |-> member, revision |-> next]},
            !.confirmations = {},
            !.consents      = {},
            !.cutoff        = IF alone THEN TargetCutoff(plan) ELSE @,
            !.proposed      = IF alone THEN NoDate ELSE @]

CanAnswer(plan, member) ==
    /\ member \in plan.participants
    /\ plan.consents = {}
    /\ Cardinality(plan.participants) = 2
    /\ plan.status = "PROPOSED"
    /\ \E a \in plan.approvals : /\ a.member # member
                                 /\ plan.approvals = {a}
    /\ plan.snapshot # NoSnapshot

Rejected(plan) ==
    [plan EXCEPT !.status = "REJECTED", !.confirmations = {}]

CanApprove(plan, member, fingerprint) ==
    /\ CanAnswer(plan, member)
    /\ fingerprint = plan.snapshot

Approved(plan, member) ==
    [plan EXCEPT
        !.status        = "APPROVED",
        !.bilateral     = TRUE,
        !.approvals     = @ \cup {[member   |-> member,
                                   revision |-> plan.revision]},
        !.cutoff        = TargetCutoff(plan),
        !.proposed      = NoDate,
        !.confirmations = {}]

\* Every participant approved this very revision.
ApprovedByAll(plan) ==
    /\ plan.status = "APPROVED"
    /\ \A p \in plan.participants :
           [member |-> p, revision |-> plan.revision] \in plan.approvals

(***************************************************************************)
(* confirm: the last word of each member on the approved plan and on the   *)
(* books as they are now.  Confirmations of other books are dropped.       *)
(***************************************************************************)
\* Mistake: confirmations of other books count as well.
ConfirmationsOfRevision(plan, fingerprint) ==
    {c \in plan.confirmations : c.revision = plan.revision}

ValidConfirmations(plan, fingerprint) ==
    {c \in plan.confirmations : /\ c.revision = plan.revision
                                /\ c.fingerprint = fingerprint}

CanConfirm(plan, member, fingerprint) ==
    /\ member \in plan.participants
    /\ plan.consents = {}
    /\ ApprovedByAll(plan)
    /\ \A c \in ValidConfirmations(plan, fingerprint) : c.member # member

Confirmed(plan, member, fingerprint) ==
    [plan EXCEPT
        !.confirmations = ValidConfirmations(plan, fingerprint)
                              \cup {[member      |-> member,
                                     revision    |-> plan.revision,
                                     fingerprint |-> fingerprint]}]

AllConfirmed(plan) ==
    \A p \in plan.participants : \E c \in plan.confirmations : c.member = p

(***************************************************************************)
(* cancel: the requester alone, or both members once the other one has a   *)
(* hand in the plan.  The first consent is recorded for the version the    *)
(* space is about to have, so that only the very next command completes it.*)
(***************************************************************************)
Bilateral(plan) ==
    /\ Cardinality(plan.participants) = 2
    /\ \/ plan.bilateral
       \/ \E a \in plan.approvals : a.member # plan.requestedBy

ValidConsents(plan, version) ==
    {c \in plan.consents : /\ c.revision = plan.revision
                           /\ c.version = version}

CanCancel(plan, member, version) ==
    /\ member \in plan.participants
    /\ ~ Bilateral(plan) => member = plan.requestedBy
    /\ \A c \in ValidConsents(plan, version) : c.member # member

WithConsent(plan, member, version) ==
    LET valid == ValidConsents(plan, version)
    IN  [plan EXCEPT
            !.confirmations = {},
            !.consents      = valid \cup
                {[member   |-> member,
                  revision |-> plan.revision,
                  version  |-> IF valid = {} THEN version + 1 ELSE version]}]

CancellationComplete(plan) ==
    \/ ~ Bilateral(plan)
    \/ \A p \in plan.participants : \E c \in plan.consents : c.member = p

\* What a completed cancellation leaves of the plan.
Dissolved(plan) ==
    [plan EXCEPT !.status    = "DRAFT",
                 !.approvals = {},
                 !.snapshot  = NoSnapshot,
                 !.proposed  = NoDate]
=============================================================================
