------------------------- MODULE SpaceClosureProofs ------------------------
(***************************************************************************)
(* Proofs about SpaceClosure, for any persons, origins, dates and bounds:  *)
(* types, that only what everyone accepted is approved, and what a closure *)
(* does to the books: when destinations are applied, that nothing is       *)
(* applied or paid twice, who may still call the closure off afterwards,   *)
(* what a closed space is, and that the negotiation implements the         *)
(* agreement of ClosureAgreement.                                          *)
(***************************************************************************)
EXTENDS SpaceClosure, FiniteSetTheorems, TLAPS

-----------------------------------------------------------------------------
(***************************************************************************)
(* The plans the methods of ClosurePlan return are plans.                  *)
(***************************************************************************)
\* Nobody has agreed to anything in the empty plan.
LEMMA NothingType ==
    /\ {} \in SUBSET Approvals
    /\ {} \in SUBSET Confirmations
    /\ {} \in SUBSET Consents
    /\ NoSnapshot \in Fingerprints
    /\ NoDate \in Nat
BY DEF NoSnapshot, Fingerprints, NoDate

\* A plan starts as a draft.
LEMMA StartPlanType ==
    ASSUME NEW m \in Persons, NEW P \in SUBSET Persons, NEW date \in Nat
    PROVE  StartPlan(m, P, date) \in Plans
BY NothingType DEF StartPlan, Plans

\* The cutoff in force or proposed is a date of the plan.
LEMMA TargetCutoffType ==
    ASSUME NEW p \in Plans
    PROVE  TargetCutoff(p) \in Nat
BY DEF TargetCutoff, Plans

\* A redraft of a plan is a plan with the same cutoffs and destinations.
LEMMA RedraftedType ==
    ASSUME NEW p \in Plans
    PROVE  /\ Redrafted(p) \in Plans
           /\ Redrafted(p).destinations = p.destinations
           /\ Redrafted(p).cutoff = p.cutoff
           /\ Redrafted(p).proposed = p.proposed
<1>1. p.revision + 1 \in Nat
  BY DEF Plans
<1>2. Redrafted(p) \in Plans
  BY <1>1, NothingType DEF Redrafted, Plans
<1> QED
  BY <1>2 DEF Redrafted, Plans

\* A plan with another proposed cutoff is a plan.
LEMMA WithCutoffType ==
    ASSUME NEW p \in Plans, NEW date \in Nat
    PROVE  /\ WithCutoff(p, date) \in Plans
           /\ WithCutoff(p, date).destinations = p.destinations
           /\ WithCutoff(p, date).cutoff = p.cutoff
           /\ WithCutoff(p, date).proposed \in {NoDate, date}
<1> DEFINE r == Redrafted(p)
<1>1. r \in Plans /\ r.destinations = p.destinations /\ r.cutoff = p.cutoff
  BY RedraftedType
<1>2. WithCutoff(p, date) = [r EXCEPT !.proposed = IF date = p.cutoff
                                                   THEN NoDate ELSE date]
  BY DEF WithCutoff
<1> HIDE DEF r
<1> QED
  BY <1>1, <1>2, NothingType DEF Plans

\* A plan with another destination is a plan.
LEMMA WithDestinationType ==
    ASSUME NEW p \in Plans, NEW d \in Destinations
    PROVE  /\ WithDestination(p, d) \in Plans
           /\ WithDestination(p, d).cutoff = p.cutoff
           /\ WithDestination(p, d).proposed = p.proposed
           /\ WithDestination(p, d).destinations =
                  {e \in p.destinations : e.origin # d.origin} \cup {d}
<1> DEFINE r == Redrafted(p)
           D == {e \in p.destinations : e.origin # d.origin} \cup {d}
<1>1. /\ r \in Plans /\ r.destinations = p.destinations
      /\ r.cutoff = p.cutoff /\ r.proposed = p.proposed
  BY RedraftedType
<1>2. WithDestination(p, d) = [r EXCEPT !.destinations = D]
  BY <1>1 DEF WithDestination
<1>3. D \in SUBSET Destinations
  BY DEF Plans
<1> HIDE DEF r, D
<1>4. [r EXCEPT !.destinations = D] \in Plans
  BY <1>1, <1>3 DEF Plans
<1>5. [r EXCEPT !.destinations = D].destinations = D
  BY <1>1 DEF Plans
<1>6. /\ [r EXCEPT !.destinations = D].cutoff = p.cutoff
      /\ [r EXCEPT !.destinations = D].proposed = p.proposed
  BY <1>1 DEF Plans
<1> QED
  BY <1>2, <1>4, <1>5, <1>6 DEF D

\* A proposed plan is a plan, whose cutoff may be the one that was proposed.
LEMMA ProposedType ==
    ASSUME NEW p \in Plans, NEW m \in Persons, NEW f \in Fingerprints
    PROVE  /\ Proposed(p, m, f) \in Plans
           /\ Proposed(p, m, f).destinations = p.destinations
           /\ Proposed(p, m, f).cutoff \in {p.cutoff, TargetCutoff(p)}
           /\ Proposed(p, m, f).proposed \in {p.proposed, NoDate}
<1> DEFINE next  == p.revision + (IF p.status = "DRAFT" THEN 0 ELSE 1)
           alone == Cardinality(p.participants) = 1
           A == {[member |-> m, revision |-> next]}
<1>1. next \in Nat
  BY DEF Plans
<1>2. A \in SUBSET Approvals
  BY <1>1 DEF Approvals
<1>3. TargetCutoff(p) \in Nat
  BY TargetCutoffType
<1>4. Proposed(p, m, f) =
        [p EXCEPT !.revision      = next,
                  !.status        = IF alone THEN "APPROVED" ELSE "PROPOSED",
                  !.snapshot      = f,
                  !.approvals     = A,
                  !.confirmations = {},
                  !.consents      = {},
                  !.cutoff        = IF alone THEN TargetCutoff(p) ELSE p.cutoff,
                  !.proposed      = IF alone THEN NoDate ELSE p.proposed]
  BY DEF Proposed, Plans
<1> HIDE DEF next, alone, A
<1>5. Proposed(p, m, f) \in Plans
  BY <1>1, <1>2, <1>3, <1>4, NothingType DEF Plans
<1> QED
  BY <1>4, <1>5 DEF Plans

\* A rejected plan is a plan.
LEMMA RejectedType ==
    ASSUME NEW p \in Plans
    PROVE  /\ Rejected(p) \in Plans
           /\ Rejected(p).destinations = p.destinations
           /\ Rejected(p).cutoff = p.cutoff
           /\ Rejected(p).proposed = p.proposed
BY NothingType DEF Rejected, Plans

\* An approved plan is a plan, whose cutoff may be the one that was proposed.
LEMMA ApprovedType ==
    ASSUME NEW p \in Plans, NEW m \in Persons
    PROVE  /\ Approved(p, m) \in Plans
           /\ Approved(p, m).destinations = p.destinations
           /\ Approved(p, m).cutoff = TargetCutoff(p)
           /\ Approved(p, m).proposed = NoDate
<1> DEFINE A == p.approvals \cup {[member |-> m, revision |-> p.revision]}
<1>1. A \in SUBSET Approvals
  BY DEF Plans, Approvals
<1>2. TargetCutoff(p) \in Nat
  BY TargetCutoffType
<1>3. Approved(p, m) =
        [p EXCEPT !.status        = "APPROVED",
                  !.bilateral     = TRUE,
                  !.approvals     = A,
                  !.cutoff        = TargetCutoff(p),
                  !.proposed      = NoDate,
                  !.confirmations = {}]
  BY DEF Approved, Plans
<1> HIDE DEF A
<1>4. Approved(p, m) \in Plans
  BY <1>1, <1>2, <1>3, NothingType DEF Plans
<1> QED
  BY <1>3, <1>4 DEF Plans

\* A plan that a member has confirmed is a plan.
LEMMA ConfirmedType ==
    ASSUME NEW p \in Plans, NEW m \in Persons, NEW f \in Fingerprints
    PROVE  /\ Confirmed(p, m, f) \in Plans
           /\ Confirmed(p, m, f).destinations = p.destinations
           /\ Confirmed(p, m, f).cutoff = p.cutoff
           /\ Confirmed(p, m, f).proposed = p.proposed
<1> DEFINE C == ValidConfirmations(p, f) \cup
                  {[member |-> m, revision |-> p.revision, fingerprint |-> f]}
<1>1. C \in SUBSET Confirmations
  BY DEF ValidConfirmations, Plans, Confirmations
<1>2. Confirmed(p, m, f) = [p EXCEPT !.confirmations = C]
  BY DEF Confirmed
<1> HIDE DEF C
<1> QED
  BY <1>1, <1>2 DEF Plans

\* A plan that a member wants to call off is a plan.
LEMMA WithConsentType ==
    ASSUME NEW p \in Plans, NEW m \in Persons, NEW v \in Nat
    PROVE  /\ WithConsent(p, m, v) \in Plans
           /\ WithConsent(p, m, v).destinations = p.destinations
           /\ WithConsent(p, m, v).cutoff = p.cutoff
           /\ WithConsent(p, m, v).proposed = p.proposed
<1> DEFINE valid == ValidConsents(p, v)
           C == valid \cup {[member   |-> m,
                             revision |-> p.revision,
                             version  |-> IF valid = {} THEN v + 1 ELSE v]}
<1>1. valid \in SUBSET Consents
  BY DEF ValidConsents, Plans
<1>2. p.revision \in Nat /\ v + 1 \in Nat
  BY DEF Plans
<1>3. WithConsent(p, m, v) = [p EXCEPT !.confirmations = {}, !.consents = C]
  BY DEF WithConsent
<1> HIDE DEF valid
<1>4. C \in SUBSET Consents
  BY <1>1, <1>2 DEF Consents
<1> HIDE DEF C
<1> QED
  BY <1>3, <1>4, NothingType DEF Plans

\* What a cancellation leaves is a plan.
LEMMA DissolvedType ==
    ASSUME NEW p \in Plans
    PROVE  /\ Dissolved(p) \in Plans
           /\ Dissolved(p).destinations = p.destinations
BY NothingType DEF Dissolved, Plans

-----------------------------------------------------------------------------
(***************************************************************************)
(* The books after an operation are books.                                 *)
(***************************************************************************)
\* A fingerprint is a cutoff and a state of the books.
LEMMA FingerprintType ==
    ASSUME NEW b \in Books, NEW date \in Nat
    PROVE  Fingerprint(b, date) \in Fingerprints
BY DEF Fingerprint, Fingerprints, Books

\* A destination describes the origin it was chosen for.
LEMMA DestinationType ==
    ASSUME NEW b \in Books, NEW o \in Origins, NEW choice \in Choices,
           NEW date \in Dates
    PROVE  Destination(b, o, choice, date) \in Destinations
<1>1. /\ b.versions[o] \in Nat
      /\ {d \in b.items[o] : d >= date} \in SUBSET Dates
  BY DEF Books
<1>2. Source(b, o, date) \in Sources
  BY <1>1 DEF Source, Sources
<1> QED
  BY <1>2 DEF Destination, Destinations

\* Finitely many destinations are applied to the books.
LEMMA AppliedType ==
    ASSUME NEW b \in Books, NEW D \in SUBSET Destinations, IsFiniteSet(D),
           NEW n \in Nat, NEW r \in Nat, NEW date \in Dates
    PROVE  Applied(b, D, n, r, date) \in Books
<1> DEFINE pending == Pending(b, D)
           agreed  == {d \in pending : d.choice = "SETTLE_BEFORE_CLOSURE"}
           fresh   == {[snapshot |-> d, process |-> n, revision |-> r,
                        cutoff |-> date] : d \in pending}
           V       == [o \in Origins |-> IF \E d \in pending : d.origin = o
                                         THEN b.versions[o] + 1
                                         ELSE b.versions[o]]
           L       == IF pending = {} THEN b.ledger ELSE b.ledger + 1
<1>1. pending \subseteq D
  BY DEF Pending
<1>2. Cardinality(agreed) \in Nat
  <2>1. agreed \subseteq D
    BY <1>1
  <2>2. IsFiniteSet(agreed)
    BY <2>1, FS_Subset
  <2> QED
    BY <2>2, FS_CardinalityType
<1>3. fresh \in SUBSET Effects
  BY <1>1 DEF Effects
<1>4. V \in [Origins -> Nat]
  BY DEF Books
<1>5. L \in Nat
  BY DEF Books
<1>6. Applied(b, D, n, r, date) =
        [b EXCEPT !.effects  = b.effects \cup fresh,
                  !.versions = V,
                  !.debts    = b.debts + Cardinality(agreed),
                  !.ledger   = L]
  BY DEF Applied, Books
<1> HIDE DEF pending, agreed, fresh, V, L
<1>7. /\ b.effects \cup fresh \in SUBSET Effects
      /\ b.debts + Cardinality(agreed) \in Nat
  BY <1>2, <1>3 DEF Books
<1> QED
  BY <1>4, <1>5, <1>6, <1>7 DEF Books

\* A fact is recorded.
LEMMA WithFactType ==
    ASSUME NEW b \in Books, NEW owed \in BOOLEAN
    PROVE  WithFact(b, owed) \in Books
<1> DEFINE D == IF owed THEN b.debts + 1 ELSE b.debts
<1>1. D \in Nat /\ b.ledger + 1 \in Nat
  BY DEF Books
<1>2. WithFact(b, owed) =
        [b EXCEPT !.debts = D, !.ledger = b.ledger + 1]
  BY DEF WithFact, Books
<1> HIDE DEF D
<1> QED
  BY <1>1, <1>2 DEF Books

\* A debt that is owed is taken away.
LEMMA WithoutDebtType ==
    ASSUME NEW b \in Books, b.debts > 0, NEW waived \in BOOLEAN
    PROVE  WithoutDebt(b, waived) \in Books
<1> DEFINE S == IF waived THEN b.settled ELSE b.settled + 1
<1>1. b.debts - 1 \in Nat /\ S \in Nat /\ b.ledger + 1 \in Nat
  BY DEF Books
<1>2. WithoutDebt(b, waived) =
        [b EXCEPT !.debts = b.debts - 1, !.settled = S,
                  !.ledger = b.ledger + 1]
  BY DEF WithoutDebt, Books
<1> HIDE DEF S
<1> QED
  BY <1>1, <1>2 DEF Books

\* A settlement that was made is reversed.
LEMMA WithDebtAgainType ==
    ASSUME NEW b \in Books, b.settled > 0
    PROVE  WithDebtAgain(b) \in Books
<1>1. b.debts + 1 \in Nat /\ b.settled - 1 \in Nat /\ b.ledger + 1 \in Nat
  BY DEF Books
<1>2. WithDebtAgain(b) =
        [b EXCEPT !.debts = b.debts + 1, !.settled = b.settled - 1,
                  !.ledger = b.ledger + 1]
  BY DEF WithDebtAgain, Books
<1> QED
  BY <1>1, <1>2 DEF Books

\* An item is fulfilled.
LEMMA FulfilledType ==
    ASSUME NEW b \in Books, NEW o \in Origins, NEW date \in Dates,
           NEW owed \in BOOLEAN
    PROVE  Fulfilled(b, o, date, owed) \in Books
<1> DEFINE I == [b.items EXCEPT ![o] = @ \ {date}]
           V == [b.versions EXCEPT ![o] = IF o \in Installments
                                          THEN @ + 1 ELSE @]
           D == IF owed THEN b.debts + 1 ELSE b.debts
<1>1. I \in [Origins -> SUBSET Dates]
  BY DEF Books
<1>2. V \in [Origins -> Nat]
  BY DEF Books
<1>3. D \in Nat /\ b.ledger + 1 \in Nat
  BY DEF Books
<1>4. Fulfilled(b, o, date, owed) =
        [b EXCEPT !.items = I, !.versions = V, !.debts = D,
                  !.ledger = b.ledger + 1]
  BY DEF Fulfilled, Books
<1> HIDE DEF I, V, D
<1> QED
  BY <1>1, <1>2, <1>3, <1>4 DEF Books

-----------------------------------------------------------------------------
(***************************************************************************)
(* Type correctness.  That an applied effect is dated needs the cutoffs of *)
(* an open process to be dates, and that its destinations can be counted   *)
(* needs them to be finite.                                                *)
(***************************************************************************)
PlanOK ==
    /\ process.status = "OPEN" => /\ plan.cutoff \in Dates
                                 /\ plan.proposed \in Dates \cup {NoDate}
    /\ IsFiniteSet(plan.destinations)

TypeInv == TypeOK /\ PlanOK

\* The dates of the model are positive numbers, and null is none of them.
LEMMA DatesType == Dates \subseteq Nat \ {NoDate}
BY MaxDateAssumption DEF Dates, NoDate

\* A process goes on with another plan.
LEMMA ProcessType ==
    ASSUME process \in Processes, NEW p \in Plans
    PROVE  LET next == [process EXCEPT !.plan = p]
           IN  /\ next \in Processes
               /\ next.plan = p
               /\ next.status = process.status
               /\ next.number = process.number
BY DEF Processes

\* The plan in force of a well-typed process, and its target cutoff.
LEMMA PlanType ==
    ASSUME TypeInv
    PROVE  /\ plan \in Plans
           /\ process.status = "OPEN" => TargetCutoff(plan) \in Dates
<1>1. plan \in Plans
  BY DEF TypeInv, TypeOK, Processes, plan
<1> QED
  BY <1>1 DEF TypeInv, PlanOK, TargetCutoff

\* The initial state is well typed.
LEMMA TypeInit == Init => TypeInv
<1> SUFFICES ASSUME Init
             PROVE  TypeInv
  OBVIOUS
<1>1. StartPlan(Creator, {Creator}, NoDate) \in Plans
  BY StartPlanType, PersonsAssumption DEF NoDate
<1>2. process \in Processes
  BY <1>1 DEF Init, NoProcess, Processes
<1>3. plan.destinations = {} /\ process.status = "NONE"
  BY DEF Init, NoProcess, StartPlan, plan
<1>4. books \in Books
  BY DEF Init, Books
<1>5. 1 \in Dates
  BY MaxDateAssumption DEF Dates
<1>6. TypeOK
  BY <1>2, <1>4, <1>5, PersonsAssumption DEF Init, TypeOK
<1>7. PlanOK
  BY <1>3, FS_EmptySet DEF PlanOK
<1> QED
  BY <1>6, <1>7 DEF TypeInv

\* A command that gives the open process another plan keeps the types.
LEMMA TypePlanStep ==
    ASSUME TypeInv, NEW p \in Plans, process.status = "OPEN",
           process' = [process EXCEPT !.plan = p],
           p.cutoff \in Dates, p.proposed \in Dates \cup {NoDate},
           IsFiniteSet(p.destinations)
    PROVE  process' \in Processes /\ PlanOK'
<1>1. /\ process' \in Processes
      /\ process'.plan = p
  BY ProcessType DEF TypeInv, TypeOK
<1> QED
  BY <1>1 DEF PlanOK, plan

\* The version of the space remains a number.
LEMMA SaveType ==
    ASSUME TypeInv, NEW v, Save(v)
    PROVE  version' \in Nat
BY DEF TypeInv, TypeOK, Save

\* Every command of a member keeps the types.
LEMMA TypeCommand ==
    ASSUME TypeInv, NEW m \in members, Command(m)
    PROVE  TypeInv'
<1> DEFINE r == plan.revision
           f == Fingerprint(books, TargetCutoff(plan))
<1> USE DEF TypeInv
<1>m. m \in Persons
  BY DEF TypeOK
<1>p. plan \in Plans /\ IsFiniteSet(plan.destinations) /\ books \in Books
  BY PlanType DEF TypeOK, PlanOK
<1>c. ASSUME process.status = "OPEN"
      PROVE  /\ plan.cutoff \in Dates /\ TargetCutoff(plan) \in Dates
             /\ plan.proposed \in Dates \cup {NoDate}
  BY <1>c, PlanType DEF PlanOK
<1>f. f \in Fingerprints
  BY <1>p, FingerprintType, TargetCutoffType
<1>r. r \in Nat /\ process.number \in Nat
  BY <1>p DEF Plans, TypeOK, Processes
<1>1. CASE Start(m, version)
  <2> DEFINE s == StartPlan(m, members, today)
  <2>1. s \in Plans
    BY <1>m, StartPlanType, DatesType DEF TypeOK
  <2>2. s.cutoff = today /\ s.proposed = NoDate /\ s.destinations = {}
    BY DEF StartPlan
  <2>3. process' = [status |-> "OPEN", number |-> process.number + 1,
                    plan |-> s]
    BY <1>1 DEF Start
  <2> HIDE DEF s
  <2>4. process' \in Processes
    BY <2>1, <2>3, <1>r DEF Processes
  <2>5. PlanOK'
    BY <2>2, <2>3, FS_EmptySet DEF PlanOK, plan, TypeOK
  <2> QED
    BY <1>1, <2>4, <2>5, SaveType DEF Start, TypeOK
<1>2. CASE \E date \in Dates : ProposeCutoff(m, version, r, date)
  <2>1. PICK date \in Dates : ProposeCutoff(m, version, r, date)
    BY <1>2
  <2> DEFINE next == WithCutoff(plan, date)
  <2>2. process.status = "OPEN" /\ process' = [process EXCEPT !.plan = next]
    BY <2>1 DEF ProposeCutoff, OpenCommand
  <2>3. /\ next \in Plans /\ next.destinations = plan.destinations
        /\ next.cutoff = plan.cutoff /\ next.proposed \in {NoDate, date}
    BY <1>p, WithCutoffType, DatesType
  <2> HIDE DEF next
  <2>4. process' \in Processes /\ PlanOK'
    BY <1>c, <1>p, <2>2, <2>3, TypePlanStep
  <2> QED
    BY <2>1, <2>4, SaveType DEF ProposeCutoff, OpenCommand, TypeOK
<1>3. CASE \E o \in Origins, choice \in Choices :
               ChooseDestination(m, version, r, o, choice)
  <2>1. PICK o \in Origins, choice \in Choices :
                 ChooseDestination(m, version, r, o, choice)
    BY <1>3
  <2> DEFINE d    == Destination(books, o, choice, TargetCutoff(plan))
             next == WithDestination(plan, d)
  <2>2. process.status = "OPEN" /\ process' = [process EXCEPT !.plan = next]
    BY <2>1 DEF ChooseDestination, OpenCommand
  <2>3. d \in Destinations
    BY <1>c, <1>p, <2>2, DestinationType
  <2> HIDE DEF d
  <2>4. /\ next \in Plans /\ next.cutoff = plan.cutoff
        /\ next.proposed = plan.proposed
        /\ next.destinations =
               {e \in plan.destinations : e.origin # d.origin} \cup {d}
    BY <1>p, <2>3, WithDestinationType
  <2> HIDE DEF next
  <2>5. IsFiniteSet(next.destinations)
    <3>1. {e \in plan.destinations : e.origin # d.origin}
              \subseteq plan.destinations
      OBVIOUS
    <3>2. IsFiniteSet({e \in plan.destinations : e.origin # d.origin})
      BY <1>p, <3>1, FS_Subset
    <3> QED
      BY <2>4, <3>2, FS_AddElement
  <2>6. process' \in Processes /\ PlanOK'
    BY <1>c, <2>2, <2>4, <2>5, TypePlanStep
  <2> QED
    BY <2>1, <2>6, SaveType DEF ChooseDestination, OpenCommand, TypeOK
<1>4. CASE Propose(m, version, r, f)
  <2> DEFINE next == Proposed(plan, m, f)
  <2>1. process.status = "OPEN" /\ process' = [process EXCEPT !.plan = next]
    BY <1>4 DEF Propose, OpenCommand
  <2>2. /\ next \in Plans /\ next.destinations = plan.destinations
        /\ next.cutoff \in {plan.cutoff, TargetCutoff(plan)}
        /\ next.proposed \in {plan.proposed, NoDate}
    BY <1>m, <1>p, <1>f, ProposedType
  <2>3. ApplyIfApproved(next)
    BY <1>4 DEF Propose
  <2> HIDE DEF next
  <2>4. process' \in Processes /\ PlanOK'
    BY <1>c, <1>p, <2>1, <2>2, TypePlanStep
  <2>5. /\ next.destinations \in SUBSET Destinations
        /\ next.revision \in Nat
    BY <2>2 DEF Plans
  <2>6. books' \in Books
    BY <1>c, <1>p, <1>r, <2>1, <2>2, <2>3, <2>5, AppliedType
    DEF ApplyIfApproved
  <2> QED
    BY <1>4, <2>4, <2>6, SaveType DEF Propose, OpenCommand, TypeOK
<1>5. CASE Approve(m, version, r, f)
  <2> DEFINE next == Approved(plan, m)
  <2>1. process.status = "OPEN" /\ process' = [process EXCEPT !.plan = next]
    BY <1>5 DEF Approve, OpenCommand
  <2>2. /\ next \in Plans /\ next.destinations = plan.destinations
        /\ next.cutoff = TargetCutoff(plan) /\ next.proposed = NoDate
    BY <1>m, <1>p, ApprovedType
  <2>3. ApplyIfApproved(next)
    BY <1>5 DEF Approve
  <2> HIDE DEF next
  <2>4. process' \in Processes /\ PlanOK'
    BY <1>c, <1>p, <2>1, <2>2, TypePlanStep
  <2>5. /\ next.destinations \in SUBSET Destinations
        /\ next.revision \in Nat
    BY <2>2 DEF Plans
  <2>6. books' \in Books
    BY <1>c, <1>p, <1>r, <2>1, <2>2, <2>3, <2>5, AppliedType
    DEF ApplyIfApproved
  <2> QED
    BY <1>5, <2>4, <2>6, SaveType DEF Approve, OpenCommand, TypeOK
<1>6. CASE Reject(m, version, r)
  <2> DEFINE next == Rejected(plan)
  <2>1. process.status = "OPEN" /\ process' = [process EXCEPT !.plan = next]
    BY <1>6 DEF Reject, OpenCommand
  <2>2. /\ next \in Plans /\ next.destinations = plan.destinations
        /\ next.cutoff = plan.cutoff /\ next.proposed = plan.proposed
    BY <1>p, RejectedType
  <2> HIDE DEF next
  <2>3. process' \in Processes /\ PlanOK'
    BY <1>c, <1>p, <2>1, <2>2, TypePlanStep
  <2> QED
    BY <1>6, <2>3, SaveType DEF Reject, OpenCommand, TypeOK
<1>7. CASE Confirm(m, version, r, Fingerprint(books, plan.cutoff))
  <2> DEFINE g    == Fingerprint(books, plan.cutoff)
             next == Confirmed(plan, m, g)
  <2>0. g \in Fingerprints
    BY <1>p, FingerprintType DEF Plans
  <2> HIDE DEF g
  <2>1. /\ process.status = "OPEN"
        /\ \/ process' = [process EXCEPT !.plan = next]
           \/ process' = [process EXCEPT !.status = "COMPLETED",
                                         !.plan = next]
    BY <1>7 DEF Confirm, OpenCommand, g
  <2>2. /\ next \in Plans /\ next.destinations = plan.destinations
        /\ next.cutoff = plan.cutoff /\ next.proposed = plan.proposed
    BY <1>m, <1>p, <2>0, ConfirmedType
  <2> HIDE DEF next
  <2>3. process' \in Processes /\ PlanOK'
    <3>1. CASE process' = [process EXCEPT !.plan = next]
      BY <1>c, <1>p, <2>1, <2>2, <3>1, TypePlanStep
    <3>2. CASE process' = [process EXCEPT !.status = "COMPLETED",
                                          !.plan = next]
      BY <1>p, <2>2, <3>2 DEF TypeOK, Processes, PlanOK, plan
    <3> QED
      BY <2>1, <3>1, <3>2
  <2> QED
    BY <1>7, <2>3, SaveType DEF Confirm, OpenCommand, TypeOK
<1>8. CASE Cancel(m, version, r)
  <2> DEFINE next == WithConsent(plan, m, version)
             gone == Dissolved(next)
  <2>1. /\ process.status = "OPEN"
        /\ \/ process' = [process EXCEPT !.plan = next]
           \/ process' = [process EXCEPT !.status = "CANCELLED",
                                         !.plan = gone]
    BY <1>8 DEF Cancel, OpenCommand
  <2>2. /\ next \in Plans /\ next.destinations = plan.destinations
        /\ next.cutoff = plan.cutoff /\ next.proposed = plan.proposed
    BY <1>m, <1>p, WithConsentType DEF TypeOK
  <2> HIDE DEF next
  <2>3. gone \in Plans /\ gone.destinations = plan.destinations
    BY <2>2, DissolvedType
  <2> HIDE DEF gone
  <2>4. process' \in Processes /\ PlanOK'
    <3>1. CASE process' = [process EXCEPT !.plan = next]
      BY <1>c, <1>p, <2>1, <2>2, <3>1, TypePlanStep
    <3>2. CASE process' = [process EXCEPT !.status = "CANCELLED",
                                          !.plan = gone]
      BY <1>p, <2>3, <3>2 DEF TypeOK, Processes, PlanOK, plan
    <3> QED
      BY <2>1, <3>1, <3>2
  <2> QED
    BY <1>8, <2>4, SaveType DEF Cancel, OpenCommand, TypeOK
<1> QED
  BY <1>1, <1>2, <1>3, <1>4, <1>5, <1>6, <1>7, <1>8 DEF Command

\* Everything else that happens keeps the types.
LEMMA TypeElsewhere ==
    ASSUME TypeInv, Elsewhere
    PROVE  TypeInv'
<1> USE DEF TypeInv
<1>p. process' = process => (process' \in Processes /\ PlanOK')
  BY DEF TypeOK, PlanOK, plan
<1>1. CASE \E p \in Persons : Join(p)
  BY <1>1, <1>p, SaveType DEF Join, TypeOK
<1>2. CASE ChangeInvitation
  BY <1>2, <1>p, SaveType DEF ChangeInvitation, TypeOK
<1>3. CASE ChangeWork
  BY <1>3, <1>p DEF ChangeWork, TypeOK
<1>4. CASE \E owed \in BOOLEAN : RecordExpense(owed)
  BY <1>4, <1>p, WithFactType DEF RecordExpense, TypeOK
<1>5. CASE \E waived \in BOOLEAN : ResolveDebt(waived)
  BY <1>5, <1>p, WithoutDebtType DEF ResolveDebt, TypeOK
<1>6. CASE ReverseSettlement
  BY <1>6, <1>p, WithDebtAgainType DEF ReverseSettlement, TypeOK
<1>7. CASE \E o \in Origins, d \in Dates, owed \in BOOLEAN :
               FulfillItem(o, d, owed)
  BY <1>7, <1>p, FulfilledType DEF FulfillItem, TypeOK
<1>8. CASE NextDay
  <2>1. today' \in Dates
    BY <1>8, MaxDateAssumption DEF NextDay, TypeOK, Dates
  <2> QED
    BY <1>8, <1>p, <2>1 DEF NextDay, TypeOK
<1> QED
  BY <1>1, <1>2, <1>3, <1>4, <1>5, <1>6, <1>7, <1>8 DEF Elsewhere

\* Types are kept by every step.
LEMMA TypeNext == TypeInv /\ [Next]_vars => TypeInv'
<1> SUFFICES ASSUME TypeInv, [Next]_vars
             PROVE  TypeInv'
  OBVIOUS
<1>1. CASE \E m \in members : Command(m)
  BY <1>1, TypeCommand
<1>2. CASE Elsewhere
  BY <1>2, TypeElsewhere
<1>3. CASE UNCHANGED vars
  BY <1>3 DEF vars, TypeInv, TypeOK, PlanOK, plan
<1> QED
  BY <1>1, <1>2, <1>3 DEF Next

\* The columns keep their types, whatever the members and the rest do.
THEOREM TypeCorrect == Spec => []TypeOK
<1>1. Spec => []TypeInv
  BY TypeInit, TypeNext, PTL DEF Spec
<1>2. TypeInv => TypeOK
  BY DEF TypeInv
<1> QED
  BY <1>1, <1>2, PTL

-----------------------------------------------------------------------------
(***************************************************************************)
(* The space and its process agree.                                        *)
(***************************************************************************)
\* Whatever is done to a plan, it stays the plan of the same participants, and
\* of the member who asked for it.
LEMMA SameParties ==
    ASSUME NEW p \in Plans, NEW m, NEW x, NEW y
    PROVE  LET Kept(q) == /\ q.participants = p.participants
                          /\ q.requestedBy = p.requestedBy
           IN  /\ Kept(WithCutoff(p, x))
               /\ Kept(WithDestination(p, x))
               /\ Kept(Proposed(p, m, x))
               /\ Kept(Rejected(p))
               /\ Kept(Approved(p, m))
               /\ Kept(Confirmed(p, m, x))
               /\ Kept(WithConsent(p, m, x))
               /\ Kept(Dissolved(WithConsent(p, m, x)))
BY DEF WithCutoff, WithDestination, Redrafted, Proposed, Rejected, Approved,
       Confirmed, WithConsent, Dissolved, Plans

\* A command of an open process keeps it open or ends it with the space, and
\* never changes the members.
LEMMA ProcessCommand ==
    ASSUME TypeInv, NEW m \in members, Command(m)
    PROVE  /\ members' = members
           /\ \/ /\ status = "ACTIVE" /\ process.status # "OPEN"
                 /\ status' = "CLOSING" /\ process'.status = "OPEN"
                 /\ plan'.participants = members
              \/ /\ status = "CLOSING" /\ process.status = "OPEN"
                 /\ plan'.participants = plan.participants
                 /\ \/ status' = "CLOSING" /\ process'.status = "OPEN"
                    \/ status' = "ACTIVE"  /\ process'.status = "CANCELLED"
                    \/ status' = "CLOSED"  /\ process'.status = "COMPLETED"
<1> DEFINE r == plan.revision
           f == Fingerprint(books, TargetCutoff(plan))
           g == Fingerprint(books, plan.cutoff)
           Kept(q) == q.participants = plan.participants
<1>p. plan \in Plans /\ process \in Processes
  BY PlanType DEF TypeInv, TypeOK
<1>u. ASSUME NEW q, process' = [process EXCEPT !.plan = q]
      PROVE  plan' = q /\ process'.status = process.status
  BY <1>p, <1>u DEF Processes, plan
<1>k. /\ \A x : Kept(WithCutoff(plan, x)) /\ Kept(WithDestination(plan, x))
      /\ \A x : Kept(Proposed(plan, m, x)) /\ Kept(Confirmed(plan, m, x))
      /\ \A x : /\ Kept(WithConsent(plan, m, x))
               /\ Kept(Dissolved(WithConsent(plan, m, x)))
      /\ Kept(Rejected(plan)) /\ Kept(Approved(plan, m))
  BY <1>p, SameParties
<1> HIDE DEF f, g, r
<1>1. CASE Start(m, version)
  BY <1>1 DEF Start, StartPlan, plan
<1>2. CASE \E date \in Dates : ProposeCutoff(m, version, r, date)
  BY <1>2, <1>k, <1>u DEF ProposeCutoff, OpenCommand
<1>3. CASE \E o \in Origins, choice \in Choices :
               ChooseDestination(m, version, r, o, choice)
  BY <1>3, <1>k, <1>u DEF ChooseDestination, OpenCommand
<1>4. CASE Propose(m, version, r, f)
  BY <1>4, <1>k, <1>u DEF Propose, OpenCommand
<1>5. CASE Approve(m, version, r, f)
  BY <1>5, <1>k, <1>u DEF Approve, OpenCommand
<1>6. CASE Reject(m, version, r)
  BY <1>6, <1>k, <1>u DEF Reject, OpenCommand
<1>7. CASE Confirm(m, version, r, g)
  <2> DEFINE next == Confirmed(plan, m, g)
  <2>1. Kept(next)
    BY <1>k
  <2> HIDE DEF next
  <2>2. /\ status = "CLOSING" /\ process.status = "OPEN"
        /\ members' = members
        /\ \/ /\ status' = "CLOSED"
              /\ process' = [process EXCEPT !.status = "COMPLETED",
                                            !.plan   = next]
           \/ status' = "CLOSING" /\ process' = [process EXCEPT !.plan = next]
    BY <1>7 DEF Confirm, OpenCommand, next
  <2> QED
    BY <1>p, <1>u, <2>1, <2>2 DEF Processes, plan
<1>8. CASE Cancel(m, version, r)
  <2> DEFINE next == WithConsent(plan, m, version)
             gone == Dissolved(next)
  <2>1. Kept(next) /\ Kept(gone)
    BY <1>k
  <2> HIDE DEF next
  <2>2. /\ status = "CLOSING" /\ process.status = "OPEN"
        /\ members' = members
        /\ \/ /\ status' = "ACTIVE"
              /\ process' = [process EXCEPT !.status = "CANCELLED",
                                            !.plan   = gone]
           \/ status' = "CLOSING" /\ process' = [process EXCEPT !.plan = next]
    BY <1>8 DEF Cancel, OpenCommand, next
  <2> HIDE DEF gone
  <2> QED
    BY <1>p, <1>u, <2>1, <2>2 DEF Processes, plan
<1> QED
  BY <1>1, <1>2, <1>3, <1>4, <1>5, <1>6, <1>7, <1>8 DEF Command, f, g, r

\* Nothing else touches the process, and a member joins an active space only.
LEMMA ProcessElsewhere ==
    ASSUME Elsewhere
    PROVE  /\ process' = process
           /\ status' = status
           /\ status # "ACTIVE" => members' = members /\ version' = version
BY DEF Elsewhere, Join, ChangeInvitation, ChangeWork, RecordExpense,
       ResolveDebt, ReverseSettlement, FulfillItem, NextDay

\* The agreement of the two rows is kept.
LEMMA ProcessNext ==
    TypeInv /\ ProcessMatchesStatus /\ [Next]_vars => ProcessMatchesStatus'
<1> SUFFICES ASSUME TypeInv, ProcessMatchesStatus, [Next]_vars
             PROVE  ProcessMatchesStatus'
  OBVIOUS
<1>1. CASE \E m \in members : Command(m)
  <2>1. PICK m \in members : Command(m)
    BY <1>1
  <2> QED
    BY <2>1, ProcessCommand DEF ProcessMatchesStatus
<1>2. CASE Elsewhere
  BY <1>2, ProcessElsewhere DEF ProcessMatchesStatus, plan
<1>3. CASE UNCHANGED vars
  BY <1>3 DEF vars, ProcessMatchesStatus, plan
<1> QED
  BY <1>1, <1>2, <1>3 DEF Next

\* A space is closing exactly while its process is open, closed exactly when the
\* process was completed, and its members are the participants from the start
\* of the process on: two rows that one transaction always writes together.
THEOREM ProcessCorrect == Spec => []ProcessMatchesStatus
<1>1. Init => ProcessMatchesStatus
  BY DEF Init, NoProcess, ProcessMatchesStatus
<1>2. Spec => []TypeInv
  BY TypeInit, TypeNext, PTL DEF Spec
<1> QED
  BY <1>1, <1>2, ProcessNext, PTL DEF Spec

-----------------------------------------------------------------------------
(***************************************************************************)
(* What the members have agreed to is what is on the table.  That the      *)
(* second consent ends the process, and so never outlives the version it   *)
(* was given for, takes that those who consent are participants.           *)
(***************************************************************************)
Current(p, v) ==
    /\ \A a \in p.approvals     : a.revision = p.revision
    /\ \A c \in p.confirmations : c.revision = p.revision
    /\ \A c \in p.consents : /\ c.revision = p.revision
                             /\ c.version = v
                             /\ c.member \in p.participants
    /\ p.confirmations # {} => ApprovedByAll(p) /\ p.consents = {}

ConsentInv == process.status = "OPEN" => Current(plan, version)

\* Of two participants, two different ones are all of them.
LEMMA TwoOfTwo ==
    ASSUME NEW S, IsFiniteSet(S), Cardinality(S) = 2,
           NEW a \in S, NEW b \in S, a # b
    PROVE  \A x \in S : x = a \/ x = b
<1> DEFINE T == {a} \cup {b}
<1>1. IsFiniteSet({a}) /\ Cardinality({a}) = 1
  BY FS_Singleton
<1>2. Cardinality(T) = 2
  BY <1>1, FS_AddElement
<1>3. T \in SUBSET S
  OBVIOUS
<1> HIDE DEF T
<1>4. S = T
  BY <1>2, <1>3, FS_Subset
<1> QED
  BY <1>4 DEF T

\* A new or redrafted plan binds nobody.
LEMMA DraftCurrent ==
    /\ \A m, P, date, v : Current(StartPlan(m, P, date), v)
    /\ \A p \in Plans : \A x, v : /\ Current(WithCutoff(p, x), v)
                                  /\ Current(WithDestination(p, x), v)
BY DEF Current, StartPlan, WithCutoff, WithDestination, Redrafted, Plans

\* A proposal is the approval of its author alone.
LEMMA ProposedCurrent ==
    ASSUME NEW p \in Plans, NEW m, NEW f, NEW v
    PROVE  Current(Proposed(p, m, f), v)
BY DEF Current, Proposed, Plans

\* An answer to the proposal is one to its revision.
LEMMA AnswerCurrent ==
    ASSUME NEW p \in Plans, NEW m, NEW v, NEW w, Current(p, v), CanAnswer(p, m)
    PROVE  Current(Rejected(p), w) /\ Current(Approved(p, m), w)
BY DEF Current, CanAnswer, Rejected, Approved, Plans

\* A confirmation stands beside approvals, never beside a consent to cancel.
LEMMA ConfirmedCurrent ==
    ASSUME NEW p \in Plans, NEW m, NEW f, NEW v, NEW w, Current(p, v),
           CanConfirm(p, m, f)
    PROVE  Current(Confirmed(p, m, f), w)
<1>1. /\ Confirmed(p, m, f).approvals = p.approvals
      /\ Confirmed(p, m, f).revision = p.revision
      /\ Confirmed(p, m, f).status = p.status
      /\ Confirmed(p, m, f).participants = p.participants
      /\ Confirmed(p, m, f).consents = {}
      /\ \A c \in Confirmed(p, m, f).confirmations : c.revision = p.revision
  BY DEF Confirmed, CanConfirm, ValidConfirmations, Plans
<1>2. ApprovedByAll(Confirmed(p, m, f))
  BY <1>1 DEF CanConfirm, ApprovedByAll
<1> QED
  BY <1>1, <1>2 DEF Current

\* A consent that does not end the process is the first one, and is recorded for
\* the version that its own command gives the space.
LEMMA ConsentCurrent ==
    ASSUME NEW p \in Plans, NEW m, NEW v \in Nat, Current(p, v),
           IsFiniteSet(p.participants), CanCancel(p, m, v),
           ~ CancellationComplete(WithConsent(p, m, v))
    PROVE  Current(WithConsent(p, m, v), v + 1)
<1> DEFINE next  == WithConsent(p, m, v)
           valid == ValidConsents(p, v)
<1>1. /\ next.approvals = p.approvals /\ next.revision = p.revision
      /\ next.participants = p.participants /\ next.confirmations = {}
      /\ next.bilateral = p.bilateral /\ next.requestedBy = p.requestedBy
      /\ next.consents = valid \cup
             {[member |-> m, revision |-> p.revision,
               version |-> IF valid = {} THEN v + 1 ELSE v]}
  BY DEF WithConsent, Plans
<1>2. m \in p.participants
  BY DEF CanCancel
<1>3. valid = {}
  <2>1. SUFFICES ASSUME NEW c \in valid
                 PROVE  FALSE
    OBVIOUS
  <2>2. c.member \in p.participants /\ c.member # m
    BY DEF ValidConsents, Current, CanCancel
  <2>3. Cardinality(p.participants) = 2
    BY <1>1 DEF CancellationComplete, Bilateral
  <2>4. \A x \in p.participants : x = c.member \/ x = m
    BY <1>2, <2>2, <2>3, TwoOfTwo
  <2>5. c \in next.consents
    BY <1>1
  <2>6. \E d \in next.consents : d.member = m
    <3> DEFINE own == [member |-> m, revision |-> p.revision,
                       version |-> IF valid = {} THEN v + 1 ELSE v]
    <3>1. own \in next.consents
      BY <1>1
    <3>2. own.member = m
      OBVIOUS
    <3> QED
      BY <3>1, <3>2
  <2>7. \A x \in p.participants : \E d \in next.consents : d.member = x
    BY <2>4, <2>5, <2>6
  <2> QED
    BY <1>1, <2>7 DEF CancellationComplete
<1> QED
  BY <1>1, <1>2, <1>3 DEF Current

\* The commands of the members keep agreements current.
LEMMA ConsentCommand ==
    ASSUME TypeInv, ConsentInv, NEW m \in members, Command(m)
    PROVE  ConsentInv'
<1> DEFINE r == plan.revision
           f == Fingerprint(books, TargetCutoff(plan))
           g == Fingerprint(books, plan.cutoff)
<1>p. plan \in Plans /\ process \in Processes /\ version \in Nat
  BY PlanType DEF TypeInv, TypeOK
<1>u. ASSUME NEW q, process' = [process EXCEPT !.plan = q],
             Current(q, version')
      PROVE  ConsentInv'
  BY <1>p, <1>u DEF Processes, plan, ConsentInv
<1>v. ASSUME process.status = "OPEN"
      PROVE  Current(plan, version)
  BY <1>v DEF ConsentInv
<1> HIDE DEF f, g, r
<1>1. CASE Start(m, version)
  BY <1>1, DraftCurrent DEF Start, ConsentInv, plan
<1>2. CASE \E date \in Dates : ProposeCutoff(m, version, r, date)
  BY <1>2, <1>p, <1>u, DraftCurrent DEF ProposeCutoff
<1>3. CASE \E o \in Origins, choice \in Choices :
               ChooseDestination(m, version, r, o, choice)
  BY <1>3, <1>p, <1>u, DraftCurrent DEF ChooseDestination
<1>4. CASE Propose(m, version, r, f)
  BY <1>4, <1>p, <1>u, ProposedCurrent DEF Propose
<1>5. CASE Approve(m, version, r, f)
  BY <1>5, <1>p, <1>u, <1>v, AnswerCurrent
  DEF Approve, OpenCommand, CanApprove
<1>6. CASE Reject(m, version, r)
  BY <1>6, <1>p, <1>u, <1>v, AnswerCurrent DEF Reject, OpenCommand
<1>7. CASE Confirm(m, version, r, g)
  <2>1. /\ process.status = "OPEN" /\ CanConfirm(plan, m, g)
        /\ \/ process' = [process EXCEPT !.plan = Confirmed(plan, m, g)]
           \/ process' = [process EXCEPT !.status = "COMPLETED",
                                         !.plan   = Confirmed(plan, m, g)]
    BY <1>7 DEF Confirm, OpenCommand
  <2>2. Current(Confirmed(plan, m, g), version')
    BY <1>p, <1>v, <2>1, ConfirmedCurrent
  <2>3. CASE process' = [process EXCEPT !.plan = Confirmed(plan, m, g)]
    BY <1>u, <2>2, <2>3
  <2>4. CASE process' = [process EXCEPT !.status = "COMPLETED",
                                        !.plan   = Confirmed(plan, m, g)]
    BY <1>p, <2>4 DEF Processes, ConsentInv
  <2> QED
    BY <2>1, <2>3, <2>4
<1>8. CASE Cancel(m, version, r)
  <2> DEFINE next == WithConsent(plan, m, version)
  <2>1. /\ process.status = "OPEN" /\ CanCancel(plan, m, version)
        /\ version' = version + 1
        /\ \/ /\ ~ CancellationComplete(next)
              /\ process' = [process EXCEPT !.plan = next]
           \/ process' = [process EXCEPT !.status = "CANCELLED",
                                         !.plan   = Dissolved(next)]
    BY <1>8 DEF Cancel, OpenCommand, Save
  <2>2. CASE /\ ~ CancellationComplete(next)
             /\ process' = [process EXCEPT !.plan = next]
    <3>1. IsFiniteSet(plan.participants)
      BY <1>p, PersonsAssumption, FS_Subset DEF Plans
    <3>2. Current(next, version')
      BY <1>p, <1>v, <2>1, <2>2, <3>1, ConsentCurrent
    <3> QED
      BY <1>u, <2>2, <3>2
  <2>3. CASE process' = [process EXCEPT !.status = "CANCELLED",
                                        !.plan   = Dissolved(next)]
    BY <1>p, <2>3 DEF Processes, ConsentInv
  <2> QED
    BY <2>1, <2>2, <2>3
<1> QED
  BY <1>1, <1>2, <1>3, <1>4, <1>5, <1>6, <1>7, <1>8 DEF Command, f, g, r

\* While a process is open its members alone write the space, so that a consent
\* is not made stale by anything but a command of the closure.
LEMMA ConsentNext ==
    TypeInv /\ ProcessMatchesStatus /\ ConsentInv /\ [Next]_vars => ConsentInv'
<1> SUFFICES ASSUME TypeInv, ProcessMatchesStatus, ConsentInv, [Next]_vars
             PROVE  ConsentInv'
  OBVIOUS
<1>1. CASE \E m \in members : Command(m)
  BY <1>1, ConsentCommand
<1>2. CASE Elsewhere
  <2>1. /\ process' = process
        /\ status # "ACTIVE" => version' = version
    BY <1>2, ProcessElsewhere
  <2>2. process.status = "OPEN" => status = "CLOSING"
    BY DEF ProcessMatchesStatus
  <2> QED
    BY <2>1, <2>2 DEF ConsentInv, plan
<1>3. CASE UNCHANGED vars
  BY <1>3 DEF vars, ConsentInv, plan
<1> QED
  BY <1>1, <1>2, <1>3 DEF Next

\* While a process is open, approvals and confirmations are of the revision of
\* the plan, a consent to cancel is of the version of the space (so the next
\* command decides it), and confirmations and consents exclude each other.
THEOREM ConsentsCorrect == Spec => []ConsentsAreCurrent
<1>1. Init => ConsentInv
  BY DEF Init, NoProcess, ConsentInv
<1>2. Init => ProcessMatchesStatus
  BY DEF Init, NoProcess, ProcessMatchesStatus
<1>3. ConsentInv => ConsentsAreCurrent
  BY DEF ConsentInv, Current, ConsentsAreCurrent
<1>4. Spec => []TypeInv
  BY TypeInit, TypeNext, PTL DEF Spec
<1>5. Spec => []ConsentInv
  BY <1>1, <1>2, <1>4, ProcessNext, ConsentNext, PTL DEF Spec
<1> QED
  BY <1>3, <1>5, PTL

-----------------------------------------------------------------------------
(***************************************************************************)
(* A command does one of three things: it begins a process, it discusses   *)
(* the plan of the open one and leaves the books alone, or it applies the  *)
(* plan that it makes approved.                                            *)
(***************************************************************************)
Begins ==
    /\ process.status # "OPEN"
    /\ process'.number = process.number + 1
    /\ plan'.destinations = {}
    /\ plan'.proposed = NoDate
    /\ ~ ApprovedByAll(plan')
    /\ books' = books

\* The process goes on under the same number, with the same participants; its
\* cutoff may become the one that was proposed.
GoesOn ==
    /\ process.status = "OPEN"
    /\ process'.number = process.number
    /\ plan'.participants = plan.participants
    /\ plan.bilateral => plan'.bilateral

\* A destination is chosen for an origin that has none applied.
Chooses(d) ==
    /\ EffectsOn(books, d.origin) = {}
    /\ plan'.destinations =
           {e \in plan.destinations : e.origin # d.origin} \cup {d}
    /\ ~ ApprovedByAll(plan')

Discusses ==
    /\ GoesOn
    /\ books' = books
    /\ \/ /\ plan'.cutoff = plan.cutoff
          /\ \/ plan'.proposed \in {plan.proposed, NoDate}
             \/ plan'.proposed >= plan.cutoff
       \/ plan'.cutoff = TargetCutoff(plan) /\ plan'.proposed = NoDate
    /\ \/ \E d : Chooses(d)
       \/ /\ plan'.destinations = plan.destinations
          /\ ApprovedByAll(plan') => ApprovedByAll(plan)

Applies ==
    /\ GoesOn
    /\ process'.status = "OPEN"
    /\ plan'.cutoff = TargetCutoff(plan)
    /\ plan'.proposed = NoDate
    /\ plan'.destinations = plan.destinations
    /\ plan'.snapshot = Fingerprint(books, plan'.cutoff)
    /\ Cardinality(plan.participants) = 2 => plan'.bilateral
    /\ ApprovedByAll(plan')
    /\ ReviewPasses(books, plan'.cutoff, plan.destinations)
    /\ books' = Applied(books, plan'.destinations, process'.number,
                        plan'.revision, plan'.cutoff)

\* Only the proposal of a single participant is approved at once.
LEMMA ProposedDecision ==
    ASSUME NEW p \in Plans, NEW m, NEW f
    PROVE  LET q == Proposed(p, m, f)
           IN  /\ q.destinations = p.destinations
               /\ q.bilateral = p.bilateral
               /\ q.participants = p.participants
               /\ q.snapshot = f
               /\ \/ /\ Cardinality(p.participants) = 1
                     /\ q.cutoff = TargetCutoff(p) /\ q.proposed = NoDate
                  \/ /\ ~ ApprovedByAll(q)
                     /\ q.cutoff = p.cutoff /\ q.proposed = p.proposed
BY DEF Proposed, ApprovedByAll, Plans

\* The answer of the second participant approves the cutoff with the plan.
LEMMA ApprovedDecision ==
    ASSUME NEW p \in Plans, NEW m
    PROVE  LET q == Approved(p, m)
           IN  /\ q.destinations = p.destinations
               /\ q.bilateral = TRUE
               /\ q.participants = p.participants
               /\ q.snapshot = p.snapshot
               /\ q.cutoff = TargetCutoff(p) /\ q.proposed = NoDate
BY DEF Approved, Plans

\* What is neither chosen nor approved leaves the destinations as they are, and
\* makes no plan approved.
LEMMA OtherDecisions ==
    ASSUME NEW p \in Plans, NEW m, NEW f, NEW v
    PROVE  LET Kept(q) == /\ q.destinations = p.destinations
                          /\ q.bilateral = p.bilateral
                          /\ q.participants = p.participants
                          /\ q.cutoff = p.cutoff
                          /\ q.proposed \in {p.proposed, NoDate}
                          /\ ApprovedByAll(q) => ApprovedByAll(p)
           IN  /\ Kept(Rejected(p))
               /\ Kept(Confirmed(p, m, f))
               /\ Kept(WithConsent(p, m, v))
               /\ Kept(Dissolved(WithConsent(p, m, v)))
BY DEF Rejected, Confirmed, WithConsent, Dissolved, ApprovedByAll, Plans

\* A redraft is of the same participants, and approved by none of them.
LEMMA RedraftDecisions ==
    ASSUME NEW p \in Plans, NEW x
    PROVE  /\ ~ ApprovedByAll(WithCutoff(p, x))
           /\ WithCutoff(p, x).destinations = p.destinations
           /\ WithCutoff(p, x).bilateral = p.bilateral
           /\ WithCutoff(p, x).cutoff = p.cutoff
           /\ WithCutoff(p, x).proposed \in {NoDate, x}
           /\ ~ ApprovedByAll(WithDestination(p, x))
           /\ WithDestination(p, x).bilateral = p.bilateral
           /\ WithDestination(p, x).cutoff = p.cutoff
           /\ WithDestination(p, x).proposed = p.proposed
           /\ WithDestination(p, x).destinations =
                  {e \in p.destinations : e.origin # x.origin} \cup {x}
BY DEF WithCutoff, WithDestination, Redrafted, ApprovedByAll, Plans

\* Every command is of one of the three kinds.
LEMMA CommandKinds ==
    ASSUME TypeInv, NEW m \in members, Command(m)
    PROVE  Begins \/ Discusses \/ Applies
<1> DEFINE r == plan.revision
           f == Fingerprint(books, TargetCutoff(plan))
           g == Fingerprint(books, plan.cutoff)
<1>p. plan \in Plans /\ process \in Processes
  BY PlanType DEF TypeInv, TypeOK
<1>u. ASSUME NEW q, process' = [process EXCEPT !.plan = q]
      PROVE  /\ plan' = q /\ process'.status = process.status
             /\ process'.number = process.number
  BY <1>p, <1>u DEF Processes, plan
<1> HIDE DEF f, g, r
<1>1. CASE Start(m, version)
  BY <1>1 DEF Start, StartPlan, plan, Begins, ApprovedByAll
<1>2. CASE \E date \in Dates : ProposeCutoff(m, version, r, date)
  <2>1. PICK date \in Dates : ProposeCutoff(m, version, r, date)
    BY <1>2
  <2> DEFINE q == WithCutoff(plan, date)
  <2>2. /\ process.status = "OPEN" /\ books' = books /\ plan' = q
        /\ process'.number = process.number /\ date >= plan.cutoff
    BY <2>1, <1>u DEF ProposeCutoff, OpenCommand, CanProposeCutoff
  <2>3. q.participants = plan.participants
    BY <1>p, SameParties
  <2> HIDE DEF q
  <2> QED
    BY <1>p, <2>2, <2>3, RedraftDecisions DEF Discusses, GoesOn, q
<1>3. CASE \E o \in Origins, choice \in Choices :
               ChooseDestination(m, version, r, o, choice)
  <2>1. PICK o \in Origins, choice \in Choices :
                 ChooseDestination(m, version, r, o, choice)
    BY <1>3
  <2> DEFINE d == Destination(books, o, choice, TargetCutoff(plan))
             q == WithDestination(plan, d)
  <2>2. /\ process.status = "OPEN" /\ books' = books /\ plan' = q
        /\ process'.number = process.number
        /\ EffectsOn(books, d.origin) = {}
    BY <2>1, <1>u DEF ChooseDestination, OpenCommand, CanPreview, Destination
  <2> HIDE DEF d
  <2>3. q.participants = plan.participants
    BY <1>p, SameParties
  <2>4. Chooses(d)
    BY <1>p, <2>2, RedraftDecisions DEF Chooses
  <2> QED
    BY <1>p, <2>2, <2>3, <2>4, RedraftDecisions DEF Discusses, GoesOn
<1>4. CASE Propose(m, version, r, f)
  <2> DEFINE q == Proposed(plan, m, f)
  <2>1. /\ process.status = "OPEN" /\ plan' = q
        /\ process'.number = process.number /\ process'.status = "OPEN"
        /\ ApplyIfApproved(q)
        /\ ReviewPasses(books, TargetCutoff(plan), plan.destinations)
    BY <1>4, <1>u DEF Propose, OpenCommand, Reviewed
  <2> HIDE DEF q
  <2>2. CASE ApprovedByAll(q)
    BY <1>p, <2>1, <2>2, ProposedDecision
    DEF Applies, GoesOn, ApplyIfApproved, q, f
  <2>3. CASE ~ ApprovedByAll(q)
    BY <1>p, <2>1, <2>3, ProposedDecision
    DEF Discusses, GoesOn, ApplyIfApproved, q
  <2> QED
    BY <2>2, <2>3
<1>5. CASE Approve(m, version, r, f)
  <2> DEFINE q == Approved(plan, m)
  <2>1. /\ process.status = "OPEN" /\ plan' = q
        /\ process'.number = process.number /\ process'.status = "OPEN"
        /\ ApplyIfApproved(q)
        /\ ReviewPasses(books, TargetCutoff(plan), plan.destinations)
        /\ f = plan.snapshot
    BY <1>5, <1>u DEF Approve, OpenCommand, Reviewed, CanApprove
  <2> HIDE DEF q
  <2>2. CASE ApprovedByAll(q)
    BY <1>p, <2>1, <2>2, ApprovedDecision
    DEF Applies, GoesOn, ApplyIfApproved, q, f
  <2>3. CASE ~ ApprovedByAll(q)
    BY <1>p, <2>1, <2>3, ApprovedDecision
    DEF Discusses, GoesOn, ApplyIfApproved, q
  <2> QED
    BY <2>2, <2>3
<1>6. CASE Reject(m, version, r)
  BY <1>6, <1>p, <1>u, OtherDecisions
  DEF Reject, OpenCommand, Discusses, GoesOn
<1>7. CASE Confirm(m, version, r, g)
  <2> DEFINE q == Confirmed(plan, m, g)
  <2>1. /\ process.status = "OPEN" /\ books' = books /\ plan' = q
        /\ process'.number = process.number
    BY <1>7, <1>p DEF Confirm, OpenCommand, Processes, plan
  <2> QED
    BY <1>p, <2>1, OtherDecisions DEF Discusses, GoesOn
<1>8. CASE Cancel(m, version, r)
  <2> DEFINE n == WithConsent(plan, m, version)
  <2>1. /\ process.status = "OPEN" /\ books' = books
        /\ plan' \in {n, Dissolved(n)}
        /\ process'.number = process.number
    BY <1>8, <1>p DEF Cancel, OpenCommand, Processes, plan
  <2> QED
    BY <1>p, <2>1, OtherDecisions DEF Discusses, GoesOn
<1> QED
  BY <1>1, <1>2, <1>3, <1>4, <1>5, <1>6, <1>7, <1>8 DEF Command, f, g, r

-----------------------------------------------------------------------------
(***************************************************************************)
(* The invariant.  That an origin gets one effect takes one destination of *)
(* the plan for it, and that the cutoff of an effect is not after the one  *)
(* of its plan takes that a proposed cutoff never is before it.  That one  *)
(* member alone cannot take back what two have applied takes that the plan *)
(* remembers they both approved, whatever its revision is now.             *)
(***************************************************************************)
OneEffect ==
    \A e1, e2 \in books.effects :
        e1.snapshot.origin = e2.snapshot.origin => e1 = e2

OneDestination ==
    \A d1, d2 \in plan.destinations : d1.origin = d2.origin => d1 = d2

ShownAsApplied ==
    \A e \in books.effects, d \in plan.destinations :
        d.origin = e.snapshot.origin => d = e.snapshot

ApprovedIsApplied ==
    ApprovedByAll(plan) =>
        \A d \in plan.destinations : \E e \in books.effects : e.snapshot = d

OfThisProcess ==
    \A e \in books.effects :
        e.process = process.number =>
            /\ e.cutoff <= plan.cutoff
            /\ Cardinality(plan.participants) = 2 => plan.bilateral

ProposedLater == plan.proposed = NoDate \/ plan.proposed >= plan.cutoff

EffectsInv ==
    /\ \A e \in books.effects : e.process <= process.number
    /\ OneEffect
    /\ NothingPaidTwice
    /\ process.status = "OPEN" => /\ OneDestination
                                 /\ ShownAsApplied
                                 /\ ApprovedIsApplied
                                 /\ OfThisProcess
                                 /\ ProposedLater

\* What applying the destinations of a plan does to the books.
LEMMA AppliedBooks ==
    ASSUME NEW b \in Books, NEW D, NEW n, NEW r, NEW date
    PROVE  LET next == Applied(b, D, n, r, date)
           IN  /\ next.effects = b.effects \cup
                      {[snapshot |-> d, process |-> n, revision |-> r,
                        cutoff |-> date] : d \in Pending(b, D)}
               /\ next.items = b.items
               /\ next.ledger \in {b.ledger, b.ledger + 1}
BY DEF Applied, Books

\* A destination the review lets pass takes items that are still to be paid.
LEMMA ReviewedItems ==
    ASSUME NEW b, NEW date, NEW D, ReviewPasses(b, date, D),
           NEW d \in Pending(b, D)
    PROVE  d.source.items \subseteq b.items[d.origin]
<1>1. d \in D /\ EffectsOn(b, d.origin) = {}
  BY DEF Pending
<1>2. d = Destination(b, d.origin, d.choice, date)
  BY <1>1 DEF ReviewPasses, StillHolds
<1>3. d.source.items = {x \in b.items[d.origin] : x >= date}
  BY <1>2 DEF Destination, Source
<1> QED
  BY <1>3

\* In the beginning nothing has been applied.
LEMMA EffectsInit == Init => EffectsInv
<1> SUFFICES ASSUME Init
             PROVE  EffectsInv
  OBVIOUS
<1>1. books.effects = {} /\ process.status = "NONE"
  BY DEF Init, NoProcess
<1> QED
  BY <1>1 DEF EffectsInv, OneEffect, NothingPaidTwice

\* A new process has no effects and no destinations.
LEMMA EffectsBegin ==
    ASSUME TypeInv, EffectsInv, Begins
    PROVE  EffectsInv'
<1>1. process.number \in Nat /\ \A e \in books.effects : e.process \in Nat
  BY DEF TypeInv, TypeOK, Processes, Books, Effects
<1>2. \A e \in books'.effects : e.process < process'.number
  BY <1>1 DEF Begins, EffectsInv
<1>3. books' = books
  BY DEF Begins
<1>4. OneEffect' /\ NothingPaidTwice'
  BY <1>3 DEF EffectsInv, OneEffect, NothingPaidTwice
<1>5. OneDestination' /\ ShownAsApplied' /\ ApprovedIsApplied'
      /\ ProposedLater'
  BY DEF Begins, OneDestination, ShownAsApplied, ApprovedIsApplied,
         ProposedLater
<1>6. OfThisProcess'
  BY <1>1, <1>2, <1>3 DEF OfThisProcess, Begins
<1>7. \A e \in books'.effects : e.process <= process'.number
  BY <1>1, <1>2, <1>3 DEF Begins
<1> QED
  BY <1>4, <1>5, <1>6, <1>7 DEF EffectsInv

\* The cutoff of a plan never moves back.
LEMMA LaterCutoff ==
    ASSUME TypeInv, ProposedLater
    PROVE  TargetCutoff(plan) >= plan.cutoff
<1>1. plan.cutoff \in Nat /\ plan.proposed \in Nat
  BY PlanType DEF Plans
<1> QED
  BY <1>1 DEF ProposedLater, TargetCutoff

\* Effects were dated by the plan as it was, or as it still is.
LEMMA OfThisProcessLater ==
    ASSUME TypeInv, OfThisProcess, ProposedLater, GoesOn,
           plan'.cutoff \in {plan.cutoff, TargetCutoff(plan)},
           NEW e \in books.effects, e.process = process'.number
    PROVE  /\ e.cutoff <= plan'.cutoff
           /\ Cardinality(plan'.participants) = 2 => plan'.bilateral
<1>1. e.cutoff \in Nat
  BY DatesType DEF TypeInv, TypeOK, Books, Effects
<1>2. plan.cutoff \in Nat /\ TargetCutoff(plan) \in Nat
  BY PlanType, TargetCutoffType DEF Plans
<1>3. e.cutoff <= plan.cutoff
  BY DEF OfThisProcess, GoesOn
<1>4. TargetCutoff(plan) >= plan.cutoff
  BY LaterCutoff
<1>5. e.cutoff <= plan'.cutoff
  BY <1>1, <1>2, <1>3, <1>4
<1> QED
  BY <1>5 DEF OfThisProcess, GoesOn

\* While a plan is discussed its destinations stay those of the effects: one is
\* chosen for an origin without an effect only.
LEMMA EffectsDiscuss ==
    ASSUME TypeInv, EffectsInv, Discusses
    PROVE  EffectsInv'
<1>1. books' = books /\ GoesOn /\ process.status = "OPEN"
  BY DEF Discusses, GoesOn
<1>2. /\ OneDestination /\ ShownAsApplied /\ ApprovedIsApplied
      /\ OfThisProcess /\ ProposedLater
  BY <1>1 DEF EffectsInv
<1>3. plan.cutoff \in Nat /\ plan.proposed \in Nat
      /\ TargetCutoff(plan) \in Nat
  BY PlanType, TargetCutoffType DEF Plans
<1>4. /\ \A e \in books'.effects : e.process <= process'.number
      /\ OneEffect' /\ NothingPaidTwice'
  BY <1>1 DEF EffectsInv, OneEffect, NothingPaidTwice, GoesOn
<1>5. OneDestination' /\ ShownAsApplied' /\ ApprovedIsApplied'
  <2>1. CASE \E d : Chooses(d)
    <3>1. PICK d : Chooses(d)
      BY <2>1
    <3>2. \A e \in books.effects : e.snapshot.origin # d.origin
      BY <3>1 DEF Chooses, EffectsOn
    <3> QED
      BY <1>1, <1>2, <3>1, <3>2
      DEF Chooses, OneDestination, ShownAsApplied, ApprovedIsApplied
  <2>2. CASE /\ plan'.destinations = plan.destinations
             /\ ApprovedByAll(plan') => ApprovedByAll(plan)
    BY <1>1, <1>2, <2>2 DEF OneDestination, ShownAsApplied, ApprovedIsApplied
  <2> QED
    BY <2>1, <2>2 DEF Discusses
<1>6. OfThisProcess'
  <2>1. plan'.cutoff \in {plan.cutoff, TargetCutoff(plan)}
    BY DEF Discusses
  <2> QED
    BY <1>1, <1>2, <2>1, OfThisProcessLater DEF OfThisProcess
<1>7. ProposedLater'
  BY <1>2, <1>3 DEF ProposedLater, Discusses
<1> QED
  BY <1>4, <1>5, <1>6, <1>7 DEF EffectsInv

\* Applying a plan gives each of its destinations an effect: the ones that had
\* none their first, dated by the plan, of items still to be paid.
LEMMA EffectsApply ==
    ASSUME TypeInv, EffectsInv, Applies
    PROVE  EffectsInv'
<1> DEFINE D == plan.destinations
           pending == Pending(books, D)
           fresh == {[snapshot |-> d, process |-> process'.number,
                      revision |-> plan'.revision, cutoff |-> plan'.cutoff] :
                         d \in pending}
<1>b. books \in Books
  BY DEF TypeInv, TypeOK
<1>1. GoesOn /\ process.status = "OPEN" /\ plan'.destinations = D
  BY DEF Applies, GoesOn
<1>2. /\ OneDestination /\ ShownAsApplied /\ OfThisProcess /\ ProposedLater
      /\ OneEffect /\ NothingPaidTwice
  BY <1>1 DEF EffectsInv
<1>3. books'.effects = books.effects \cup fresh /\ books'.items = books.items
  BY <1>1, <1>b, AppliedBooks DEF Applies
<1>4. \A e \in fresh : /\ e.snapshot \in pending
                       /\ e.process = process'.number
                       /\ e.cutoff = plan'.cutoff
  OBVIOUS
<1>5. ASSUME NEW d \in pending
      PROVE  \E e \in fresh : e.snapshot = d
  <2> DEFINE e == [snapshot |-> d, process |-> process'.number,
                   revision |-> plan'.revision, cutoff |-> plan'.cutoff]
  <2>1. e \in fresh
    OBVIOUS
  <2>2. e.snapshot = d
    OBVIOUS
  <2> QED
    BY <2>1, <2>2
<1>6. \A e1, e2 \in fresh : e1.snapshot = e2.snapshot => e1 = e2
  OBVIOUS
<1> HIDE DEF fresh
<1>7. /\ pending \subseteq D
      /\ \A d \in pending, e \in books.effects : e.snapshot.origin # d.origin
      /\ \A d \in D \ pending : \E e \in books.effects :
             e.snapshot.origin = d.origin
  BY DEF Pending, EffectsOn
<1>8. \A d \in pending : d.source.items \subseteq books.items[d.origin]
  BY ReviewedItems DEF Applies
<1> HIDE DEF pending
<1>9. \A e \in books'.effects : e.process <= process'.number
  <2>1. process.number \in Nat
    BY DEF TypeInv, TypeOK, Processes
  <2> QED
    BY <1>1, <1>3, <1>4, <2>1 DEF EffectsInv, GoesOn
<1>10. OneEffect'
  BY <1>2, <1>3, <1>4, <1>6, <1>7 DEF OneEffect, OneDestination
<1>11. NothingPaidTwice'
  BY <1>2, <1>3, <1>4, <1>8 DEF NothingPaidTwice
<1>12. OneDestination'
  BY <1>1, <1>2 DEF OneDestination
<1>13. ShownAsApplied'
  BY <1>1, <1>2, <1>3, <1>4, <1>7 DEF ShownAsApplied, OneDestination
<1>14. ApprovedIsApplied'
  <2>1. \A d \in D : \E e \in books'.effects : e.snapshot = d
    BY <1>2, <1>3, <1>5, <1>7 DEF ShownAsApplied
  <2> QED
    BY <1>1, <2>1 DEF ApprovedIsApplied
<1>15. OfThisProcess'
  <2>1. plan'.cutoff \in Nat
    BY PlanType, TargetCutoffType DEF Applies
  <2>2. \A e \in books.effects : e.process = process'.number =>
            /\ e.cutoff <= plan'.cutoff
            /\ Cardinality(plan'.participants) = 2 => plan'.bilateral
    BY <1>1, <1>2, OfThisProcessLater DEF Applies
  <2>3. Cardinality(plan'.participants) = 2 => plan'.bilateral
    BY DEF Applies, GoesOn
  <2> QED
    BY <1>3, <1>4, <2>1, <2>2, <2>3 DEF OfThisProcess
<1>16. ProposedLater'
  BY DEF Applies, ProposedLater
<1> QED
  BY <1>9, <1>10, <1>11, <1>12, <1>13, <1>14, <1>15, <1>16 DEF EffectsInv

\* What happens elsewhere applies nothing, and pays what is not moved away.
LEMMA BooksElsewhere ==
    ASSUME TypeInv, Elsewhere
    PROVE  /\ process' = process
           /\ books'.effects = books.effects
           /\ \/ books'.items = books.items
              \/ \E o \in Origins : \E date \in OpenItems(books, o) :
                    books'.items = [books.items EXCEPT ![o] = @ \ {date}]
           /\ \/ books' = books
              \/ /\ status \in {"ACTIVE", "CLOSING"}
                 /\ books'.ledger = books.ledger + 1
                 /\ UNCHANGED <<status, members>>
<1>b. books \in Books
  BY DEF TypeInv, TypeOK
<1>1. CASE \/ \E p \in Persons : Join(p)
           \/ ChangeInvitation \/ ChangeWork \/ NextDay
  BY <1>1 DEF Join, ChangeInvitation, ChangeWork, NextDay
<1>2. CASE \E owed \in BOOLEAN : RecordExpense(owed)
  BY <1>2, <1>b DEF RecordExpense, MayWrite, WithFact, Books
<1>3. CASE \E waived \in BOOLEAN : ResolveDebt(waived)
  BY <1>3, <1>b DEF ResolveDebt, MaySettle, WithoutDebt, Books
<1>4. CASE ReverseSettlement
  BY <1>4, <1>b DEF ReverseSettlement, MaySettle, WithDebtAgain, Books
<1>5. CASE \E o \in Origins, d \in Dates, owed \in BOOLEAN :
               FulfillItem(o, d, owed)
  <2>1. PICK o \in Origins, d \in Dates, owed \in BOOLEAN :
                 FulfillItem(o, d, owed)
    BY <1>5
  <2>2. /\ d \in OpenItems(books, o) /\ books' = Fulfilled(books, o, d, owed)
        /\ status \in {"ACTIVE", "CLOSING"} /\ process' = process
        /\ UNCHANGED <<status, members>>
    BY <2>1 DEF FulfillItem, MaySettle
  <2>3. /\ Fulfilled(books, o, d, owed).effects = books.effects
        /\ Fulfilled(books, o, d, owed).items =
               [books.items EXCEPT ![o] = @ \ {d}]
        /\ Fulfilled(books, o, d, owed).ledger = books.ledger + 1
    BY <1>b DEF Fulfilled, Books
  <2> QED
    BY <2>2, <2>3
<1> QED
  BY <1>1, <1>2, <1>3, <1>4, <1>5 DEF Elsewhere

\* An item that is open is in no snapshot, and so its payment leaves the
\* snapshots of the effects where they were.
LEMMA EffectsElsewhere ==
    ASSUME TypeInv, EffectsInv, Elsewhere
    PROVE  EffectsInv'
<1>1. process' = process /\ books'.effects = books.effects
  BY BooksElsewhere
<1>2. OneEffect' /\ \A e \in books'.effects : e.process <= process'.number
  BY <1>1 DEF EffectsInv, OneEffect
<1>3. process'.status = "OPEN" =>
          /\ OneDestination' /\ ShownAsApplied' /\ ApprovedIsApplied'
          /\ OfThisProcess' /\ ProposedLater'
  BY <1>1 DEF EffectsInv, OneDestination, ShownAsApplied, ApprovedIsApplied,
              OfThisProcess, ProposedLater, plan
<1>4. NothingPaidTwice'
  <2>1. CASE books'.items = books.items
    BY <1>1, <2>1 DEF EffectsInv, NothingPaidTwice
  <2>2. CASE \E o \in Origins : \E date \in OpenItems(books, o) :
                 books'.items = [books.items EXCEPT ![o] = @ \ {date}]
    <3>1. PICK o \in Origins : \E date \in OpenItems(books, o) :
                   books'.items = [books.items EXCEPT ![o] = @ \ {date}]
      BY <2>2
    <3>d. PICK date \in OpenItems(books, o) :
                   books'.items = [books.items EXCEPT ![o] = @ \ {date}]
      BY <3>1
    <3>2. \A e \in EffectsOn(books, o) : date \notin e.snapshot.source.items
      BY DEF OpenItems, IsMoved, Moved
    <3>3. books.items \in [Origins -> SUBSET Dates]
      BY DEF TypeInv, TypeOK, Books
    <3>4. \A e \in books.effects : e.snapshot.origin \in Origins
      BY DEF TypeInv, TypeOK, Books, Effects, Destinations
    <3> QED
      BY <1>1, <3>d, <3>2, <3>3, <3>4
      DEF EffectsInv, NothingPaidTwice, EffectsOn
  <2> QED
    BY <2>1, <2>2, BooksElsewhere
<1> QED
  BY <1>2, <1>3, <1>4 DEF EffectsInv

\* The invariant is kept by every step.
LEMMA EffectsNext == TypeInv /\ EffectsInv /\ [Next]_vars => EffectsInv'
<1> SUFFICES ASSUME TypeInv, EffectsInv, [Next]_vars
             PROVE  EffectsInv'
  OBVIOUS
<1>1. CASE \E m \in members : Command(m)
  BY <1>1, CommandKinds, EffectsBegin, EffectsDiscuss, EffectsApply
<1>2. CASE Elsewhere
  BY <1>2, EffectsElsewhere
<1>3. CASE UNCHANGED vars
  BY <1>3 DEF vars, EffectsInv, OneEffect, NothingPaidTwice, OneDestination,
              ShownAsApplied, ApprovedIsApplied, OfThisProcess, ProposedLater,
              plan
<1> QED
  BY <1>1, <1>2, <1>3 DEF Next

\* The invariant holds throughout.
LEMMA EffectsAlways == Spec => [](TypeInv /\ EffectsInv)
<1>1. Spec => []TypeInv
  BY TypeInit, TypeNext, PTL DEF Spec
<1> QED
  BY <1>1, EffectsInit, EffectsNext, PTL DEF Spec

\* An item that was handed over to a personal successor, or ended, stays unpaid
\* in the shared space, whatever is paid in whatever order and however often the
\* closure is called off and begun again.
THEOREM PaymentsCorrect == Spec => []NothingPaidTwice
<1>1. EffectsInv => NothingPaidTwice
  BY DEF EffectsInv
<1> QED
  BY <1>1, EffectsAlways, PTL

\* An origin has at most one effect, in all processes of the space together; the
\* plan in force shows it as it was applied; and this process applied none of
\* its effects after its own cutoff.
THEOREM ApplicationsCorrect == Spec => []AppliedOnce
<1>1. EffectsInv => AppliedOnce
  BY DEF EffectsInv, OneEffect, ShownAsApplied, OfThisProcess, AppliedOnce
<1> QED
  BY <1>1, EffectsAlways, PTL

-----------------------------------------------------------------------------
(***************************************************************************)
(* Who applies, who calls off and who closes.                              *)
(***************************************************************************)
\* Effects are never taken back, and the step that adds some is the one that
\* makes the plan approved by every participant, on the books its proposal shows
\* and for destinations of the plan alone.
THEOREM EffectsApproved == Spec => EffectsNeedEveryApproval
<1> DEFINE Step ==
        /\ books.effects \subseteq books'.effects
        /\ books'.effects # books.effects =>
             /\ ApprovedByAll(plan')
             /\ plan'.snapshot = Fingerprint(books, plan'.cutoff)
             /\ \A e \in books'.effects \ books.effects :
                    e.snapshot \in plan'.destinations
<1>1. TypeInv /\ [Next]_vars => Step
  <2> SUFFICES ASSUME TypeInv, [Next]_vars
               PROVE  Step
    OBVIOUS
  <2>1. books'.effects = books.effects => Step
    OBVIOUS
  <2>2. Applies => Step
    <3> SUFFICES ASSUME Applies
                 PROVE  Step
      OBVIOUS
    <3>1. books \in Books
      BY DEF TypeInv, TypeOK
    <3>2. books'.effects = books.effects \cup
              {[snapshot |-> d, process |-> process'.number,
                revision |-> plan'.revision, cutoff |-> plan'.cutoff] :
                   d \in Pending(books, plan'.destinations)}
      BY <3>1, AppliedBooks DEF Applies
    <3> QED
      BY <3>2 DEF Applies, Pending
  <2>3. CASE \E m \in members : Command(m)
    <3>1. Begins \/ Discusses => books'.effects = books.effects
      BY DEF Begins, Discusses
    <3> HIDE DEF Step
    <3> QED
      BY <2>1, <2>2, <2>3, <3>1, CommandKinds
  <2>4. CASE Elsewhere
    BY <2>1, <2>4, BooksElsewhere
  <2>5. CASE UNCHANGED vars
    BY <2>1, <2>5 DEF vars
  <2> QED
    BY <2>3, <2>4, <2>5 DEF Next
<1>2. TypeInv /\ [Next]_vars => [Step]_vars
  BY <1>1
<1>3. Spec => []TypeInv
  BY TypeInit, TypeNext, PTL DEF Spec
<1> QED
  BY <1>2, <1>3, PTL DEF Spec, EffectsNeedEveryApproval

\* A process is cancelled by the consent that completes its cancellation.
LEMMA CancelledBy ==
    ASSUME TypeInv, NEW m \in members, Command(m),
           process.status = "OPEN", process'.status = "CANCELLED"
    PROVE  LET next == WithConsent(plan, m, version)
           IN  CancellationComplete(next) /\ plan' = Dissolved(next)
<1> DEFINE r == plan.revision
           f == Fingerprint(books, TargetCutoff(plan))
           g == Fingerprint(books, plan.cutoff)
<1>p. process \in Processes
  BY DEF TypeInv, TypeOK
<1>u. ASSUME NEW q, process' = [process EXCEPT !.plan = q]
      PROVE  FALSE
  BY <1>p, <1>u DEF Processes
<1> HIDE DEF f, g, r
<1>1. ~ Start(m, version)
  BY DEF Start
<1>2. ~ \E date \in Dates : ProposeCutoff(m, version, r, date)
  BY <1>u DEF ProposeCutoff
<1>3. ~ \E o \in Origins, choice \in Choices :
             ChooseDestination(m, version, r, o, choice)
  BY <1>u DEF ChooseDestination
<1>4. ~ Propose(m, version, r, f) /\ ~ Approve(m, version, r, f)
  BY <1>u DEF Propose, Approve
<1>5. ~ Reject(m, version, r)
  BY <1>u DEF Reject
<1>6. ~ Confirm(m, version, r, g)
  BY <1>p, <1>u DEF Confirm, Processes
<1>7. Cancel(m, version, r)
  BY <1>1, <1>2, <1>3, <1>4, <1>5, <1>6 DEF Command, f, g, r
<1> QED
  BY <1>p, <1>7, <1>u DEF Cancel, Processes, plan

\* Where two members have applied anything, the cancellation of their process
\* holds a consent of each of them, though redrafts emptied the approvals.
THEOREM CancellationsCorrect == Spec => NoLoneCancellation
<1> DEFINE Step ==
        (/\ process.status = "OPEN"
         /\ process'.status = "CANCELLED"
         /\ Cardinality(plan.participants) = 2
         /\ \E e \in books.effects : e.process = process.number)
        => \A p \in plan.participants : \E c \in plan'.consents : c.member = p
<1>1. TypeInv /\ EffectsInv /\ [Next]_vars => Step
  <2> SUFFICES ASSUME TypeInv, EffectsInv, [Next]_vars,
                      process.status = "OPEN",
                      process'.status = "CANCELLED",
                      Cardinality(plan.participants) = 2,
                      \E e \in books.effects : e.process = process.number
               PROVE  \A p \in plan.participants :
                          \E c \in plan'.consents : c.member = p
    OBVIOUS
  <2>1. ~ Elsewhere /\ ~ UNCHANGED vars
    BY ProcessElsewhere DEF vars
  <2>2. PICK m \in members : Command(m)
    BY <2>1 DEF Next
  <2> DEFINE next == WithConsent(plan, m, version)
  <2>3. CancellationComplete(next) /\ plan' = Dissolved(next)
    BY <2>2, CancelledBy
  <2>4. plan.bilateral /\ plan \in Plans
    BY PlanType DEF EffectsInv, OfThisProcess
  <2>5. /\ next.bilateral = plan.bilateral
        /\ next.participants = plan.participants
        /\ Dissolved(next).consents = next.consents
    BY <2>4 DEF WithConsent, Dissolved, Plans
  <2> HIDE DEF next
  <2> QED
    BY <2>3, <2>4, <2>5 DEF CancellationComplete, Bilateral
<1>2. TypeInv /\ EffectsInv /\ [Next]_vars => [Step]_vars
  BY <1>1
<1> QED
  BY <1>2, EffectsAlways, PTL DEF Spec, NoLoneCancellation

\* A space is closed by the confirmation that completes them.
LEMMA ClosedBy ==
    ASSUME TypeInv, NEW m \in members, Command(m), status' = "CLOSED"
    PROVE  LET g    == Fingerprint(books, plan.cutoff)
               next == Confirmed(plan, m, g)
           IN  /\ status = "CLOSING" /\ process.status = "OPEN"
               /\ SameParticipants
               /\ FinanciallyReady(books)
               /\ CanConfirm(plan, m, g)
               /\ AllConfirmed(next)
               /\ plan' = next
               /\ work' = FALSE
               /\ members' = members /\ books' = books
<1> DEFINE r == plan.revision
           f == Fingerprint(books, TargetCutoff(plan))
           g == Fingerprint(books, plan.cutoff)
<1>p. process \in Processes
  BY DEF TypeInv, TypeOK
<1> HIDE DEF f, g, r
<1>1. ~ Start(m, version)
  BY DEF Start
<1>2. ~ \E date \in Dates : ProposeCutoff(m, version, r, date)
  BY DEF ProposeCutoff, OpenCommand
<1>3. ~ \E o \in Origins, choice \in Choices :
             ChooseDestination(m, version, r, o, choice)
  BY DEF ChooseDestination, OpenCommand
<1>4. ~ Propose(m, version, r, f) /\ ~ Approve(m, version, r, f)
  BY DEF Propose, Approve, OpenCommand
<1>5. ~ Reject(m, version, r)
  BY DEF Reject, OpenCommand
<1>6. ~ Cancel(m, version, r)
  BY DEF Cancel, OpenCommand
<1>7. Confirm(m, version, r, g)
  BY <1>1, <1>2, <1>3, <1>4, <1>5, <1>6 DEF Command, f, g, r
<1>8. AllConfirmed(Confirmed(plan, m, g)) /\ plan' = Confirmed(plan, m, g)
  BY <1>p, <1>7 DEF Confirm, OpenCommand, Processes, plan
<1> QED
  BY <1>7, <1>8 DEF Confirm, OpenCommand, g

\* The step that closes a space leaves it as its members agreed.
LEMMA ClosingStep ==
    ASSUME TypeInv, ProcessMatchesStatus, EffectsInv, NEW m \in members,
           Command(m), status' = "CLOSED"
    PROVE  ClosedAsAgreed'
<1> DEFINE g    == Fingerprint(books, plan.cutoff)
           next == Confirmed(plan, m, g)
<1>1. /\ process.status = "OPEN" /\ members = plan.participants
      /\ FinanciallyReady(books) /\ CanConfirm(plan, m, g)
      /\ AllConfirmed(next) /\ plan' = next /\ work' = FALSE
      /\ members' = members /\ books' = books
  BY ClosedBy DEF SameParticipants
<1>2. plan \in Plans
  BY PlanType
<1>3. /\ next.status = plan.status /\ next.participants = plan.participants
      /\ next.revision = plan.revision /\ next.approvals = plan.approvals
      /\ next.destinations = plan.destinations
      /\ next.cutoff = plan.cutoff
      /\ \A c \in next.confirmations : c.fingerprint = g
  BY <1>2 DEF Confirmed, ValidConfirmations, Plans
<1> HIDE DEF next
<1>4. ApprovedByAll(plan) /\ ApprovedByAll(next)
  BY <1>1, <1>3 DEF CanConfirm, ApprovedByAll
<1>5. \A d \in plan.destinations : \E e \in books.effects : e.snapshot = d
  BY <1>1, <1>4 DEF EffectsInv, ApprovedIsApplied
<1>6. \A p \in members : \E c \in next.confirmations :
          c.member = p /\ c.fingerprint = Fingerprint(books, next.cutoff)
  BY <1>1, <1>3 DEF AllConfirmed
<1> QED
  BY <1>1, <1>3, <1>4, <1>5, <1>6 DEF ClosedAsAgreed

\* Nothing but the clock goes on in a closed space.
LEMMA ClosedStays ==
    ASSUME TypeInv, status = "CLOSED", [Next]_vars
    PROVE  UNCHANGED <<status, members, process, books, work>>
<1>1. ASSUME NEW m \in members
      PROVE  ~ Command(m)
  BY DEF Command, Start, ProposeCutoff, ChooseDestination, Propose, Approve,
         Reject, Confirm, Cancel, OpenCommand
<1>2. Elsewhere => NextDay
  BY DEF Elsewhere, Join, ChangeInvitation, ChangeWork, RecordExpense,
         ResolveDebt, ReverseSettlement, FulfillItem, MayWrite, MaySettle
<1> QED
  BY <1>1, <1>2 DEF Next, NextDay, vars

\* A closed space is one whose members all confirmed its approved plan for its
\* books as they are, with every destination applied, nothing left to be paid
\* and no task pending; and it stays so for ever.
THEOREM ClosureCorrect == Spec => []ClosedAsAgreed
<1>1. Init => ClosedAsAgreed
  BY DEF Init, ClosedAsAgreed
<1>2. /\ TypeInv /\ ProcessMatchesStatus /\ EffectsInv
      /\ ClosedAsAgreed /\ [Next]_vars
      => ClosedAsAgreed'
  <2> SUFFICES ASSUME TypeInv, ProcessMatchesStatus, EffectsInv,
                      ClosedAsAgreed, [Next]_vars, status' = "CLOSED"
               PROVE  ClosedAsAgreed'
    BY DEF ClosedAsAgreed
  <2>1. CASE status = "CLOSED"
    <3>1. UNCHANGED <<status, members, process, books, work>>
      BY <2>1, ClosedStays
    <3>2. UNCHANGED plan
      BY <3>1 DEF plan
    <3> QED
      BY <3>1, <3>2 DEF ClosedAsAgreed
  <2>2. CASE status # "CLOSED"
    <3>1. ~ Elsewhere /\ ~ UNCHANGED vars
      BY <2>2, ProcessElsewhere DEF vars
    <3>2. PICK m \in members : Command(m)
      BY <3>1 DEF Next
    <3> QED
      BY <3>2, ClosingStep
  <2> QED
    BY <2>1, <2>2
<1>3. Spec => []ProcessMatchesStatus
  BY ProcessCorrect
<1> QED
  BY <1>1, <1>2, <1>3, EffectsAlways, PTL DEF Spec

-----------------------------------------------------------------------------
(***************************************************************************)
(* The negotiation of plans, with its revisions, versions and              *)
(* fingerprints, implements the unanimous agreement of ClosureAgreement.   *)
(***************************************************************************)

(***************************************************************************)
(* What the mapping takes of the states: confirmations are of participants *)
(* and of books as they were at the time, and no process that was called   *)
(* off, or never begun, has any.                                           *)
(***************************************************************************)
AgreedInv ==
    /\ \A c \in plan.confirmations : /\ c.member \in plan.participants
                                     /\ c.fingerprint.ledger <= books.ledger
    /\ process.status \in {"NONE", "CANCELLED"} => plan.confirmations = {}

\* All but a confirmation empties the confirmations of the plan.
LEMMA Emptied ==
    ASSUME NEW p \in Plans, NEW m, NEW x
    PROVE  /\ WithCutoff(p, x).confirmations = {}
           /\ WithDestination(p, x).confirmations = {}
           /\ Proposed(p, m, x).confirmations = {}
           /\ Rejected(p).confirmations = {}
           /\ Approved(p, m).confirmations = {}
           /\ WithConsent(p, m, x).confirmations = {}
           /\ Dissolved(WithConsent(p, m, x)).confirmations = {}
BY DEF WithCutoff, WithDestination, Redrafted, Proposed, Rejected, Approved,
       WithConsent, Dissolved, Plans

\* A confirmation is added to those of the same books, and nothing else changes
\* that the mapping reads.
LEMMA ConfirmedPlan ==
    ASSUME NEW p \in Plans, NEW m, NEW f
    PROVE  LET next == Confirmed(p, m, f)
           IN  /\ next.cutoff = p.cutoff
               /\ next.participants = p.participants
               /\ next.confirmations = ValidConfirmations(p, f) \cup
                      {[member |-> m, revision |-> p.revision,
                        fingerprint |-> f]}
               /\ ValidConfirmations(next, f) = next.confirmations
BY DEF Confirmed, ValidConfirmations, Plans

\* Without confirmations nobody has agreed.
LEMMA NobodyAgrees == plan.confirmations = {} => Agreed = {}
BY DEF Agreed, ValidConfirmations

-----------------------------------------------------------------------------
(***************************************************************************)
(* A command either confirms the plan or empties its confirmations.        *)
(***************************************************************************)
Confirming(m) ==
    LET g == Fingerprint(books, plan.cutoff)
    IN  /\ status = "CLOSING" /\ process.status = "OPEN"
        /\ members = plan.participants
        /\ CanConfirm(plan, m, g)
        /\ plan' = Confirmed(plan, m, g)
        /\ status' = IF AllConfirmed(plan') THEN "CLOSED" ELSE "CLOSING"
        /\ process'.status \in {"OPEN", "COMPLETED"}
        /\ members' = members /\ books' = books

Emptying ==
    /\ plan'.confirmations = {}
    /\ members' = members
    /\ \/ /\ status = "ACTIVE" /\ status' = "CLOSING"
          /\ books' = books
       \/ /\ status = "CLOSING" /\ status' = "CLOSING"
          /\ books'.ledger \in {books.ledger, books.ledger + 1}
       \/ /\ status = "CLOSING" /\ status' = "ACTIVE"
          /\ books' = books

\* Every command is of one of the two kinds.
LEMMA ConfirmingOrEmptying ==
    ASSUME TypeInv, NEW m \in members, Command(m)
    PROVE  Confirming(m) \/ Emptying
<1> DEFINE r == plan.revision
           f == Fingerprint(books, TargetCutoff(plan))
           g == Fingerprint(books, plan.cutoff)
<1>p. plan \in Plans /\ process \in Processes /\ books \in Books
  BY PlanType DEF TypeInv, TypeOK
<1>u. ASSUME NEW q, process' = [process EXCEPT !.plan = q]
      PROVE  plan' = q
  BY <1>p, <1>u DEF Processes, plan
<1>a. ASSUME NEW q, ApplyIfApproved(q)
      PROVE  books'.ledger \in {books.ledger, books.ledger + 1}
  BY <1>a, <1>p, AppliedBooks DEF ApplyIfApproved
<1> HIDE DEF f, g, r
<1>1. CASE Start(m, version)
  BY <1>1 DEF Start, StartPlan, plan, Emptying
<1>2. CASE \E date \in Dates : ProposeCutoff(m, version, r, date)
  BY <1>2, <1>p, <1>u, Emptied DEF ProposeCutoff, OpenCommand, Emptying
<1>3. CASE \E o \in Origins, choice \in Choices :
               ChooseDestination(m, version, r, o, choice)
  BY <1>3, <1>p, <1>u, Emptied DEF ChooseDestination, OpenCommand, Emptying
<1>4. CASE Propose(m, version, r, f)
  BY <1>4, <1>a, <1>p, <1>u, Emptied DEF Propose, OpenCommand, Emptying
<1>5. CASE Approve(m, version, r, f)
  BY <1>5, <1>a, <1>p, <1>u, Emptied DEF Approve, OpenCommand, Emptying
<1>6. CASE Reject(m, version, r)
  BY <1>6, <1>p, <1>u, Emptied DEF Reject, OpenCommand, Emptying
<1>7. CASE Confirm(m, version, r, g)
  <2> DEFINE next == Confirmed(plan, m, g)
  <2> HIDE DEF next
  <2>1. /\ status = "CLOSING" /\ process.status = "OPEN"
        /\ members = plan.participants /\ CanConfirm(plan, m, g)
        /\ members' = members /\ books' = books
        /\ IF AllConfirmed(next)
           THEN /\ status' = "CLOSED"
                /\ process' = [process EXCEPT !.status = "COMPLETED",
                                              !.plan   = next]
           ELSE /\ process' = [process EXCEPT !.plan = next]
                /\ status' = status
    BY <1>7 DEF Confirm, OpenCommand, SameParticipants, next
  <2>2. plan' = next /\ process'.status \in {"OPEN", "COMPLETED"}
    BY <1>p, <2>1 DEF Processes, plan
  <2> QED
    BY <2>1, <2>2 DEF Confirming, next, g
<1>8. CASE Cancel(m, version, r)
  <2> DEFINE next == WithConsent(plan, m, version)
  <2>1. /\ status = "CLOSING" /\ members' = members /\ books' = books
        /\ status' \in {"CLOSING", "ACTIVE"}
        /\ plan' \in {next, Dissolved(next)}
    BY <1>8, <1>p DEF Cancel, OpenCommand, Processes, plan
  <2>2. plan'.confirmations = {}
    BY <1>p, <2>1, Emptied
  <2> QED
    BY <2>1, <2>2 DEF Emptying
<1> QED
  BY <1>1, <1>2, <1>3, <1>4, <1>5, <1>6, <1>7, <1>8 DEF Command, f, g, r

\* The members who agree after a confirmation.
LEMMA ConfirmingAgreed ==
    ASSUME TypeInv, AgreedInv, NEW m, Confirming(m)
    PROVE  /\ m \in members \ Agreed
           /\ Agreed' = Agreed \cup {m}
           /\ AllConfirmed(plan') <=> Agreed' = members
           /\ \A c \in plan'.confirmations :
                  \/ c \in plan.confirmations
                  \/ /\ c.member = m
                     /\ c.fingerprint = Fingerprint(books, plan.cutoff)
<1> DEFINE g    == Fingerprint(books, plan.cutoff)
           next == Confirmed(plan, m, g)
           own  == [member |-> m, revision |-> plan.revision,
                    fingerprint |-> g]
<1>1. plan \in Plans
  BY PlanType
<1>2. /\ members = plan.participants /\ CanConfirm(plan, m, g)
      /\ plan' = next /\ books' = books
  BY DEF Confirming
<1>3. /\ next.cutoff = plan.cutoff /\ next.participants = plan.participants
      /\ next.confirmations = ValidConfirmations(plan, g) \cup {own}
      /\ ValidConfirmations(next, g) = next.confirmations
  BY <1>1, ConfirmedPlan
<1>4. own.member = m /\ own.fingerprint = g
  OBVIOUS
<1>5. Agreed = {c.member : c \in ValidConfirmations(plan, g)}
  BY DEF Agreed
<1>6. Agreed' = {c.member : c \in next.confirmations}
  BY <1>2, <1>3 DEF Agreed, Fingerprint
<1> HIDE DEF next, own, g
<1>7. Agreed' = Agreed \cup {m}
  BY <1>3, <1>4, <1>5, <1>6
<1>8. m \in members /\ m \notin Agreed
  BY <1>2, <1>5 DEF CanConfirm
<1>9. Agreed \subseteq members
  BY <1>2, <1>5 DEF AgreedInv, ValidConfirmations
<1>10. AllConfirmed(next) <=> members \subseteq Agreed'
  BY <1>2, <1>3, <1>6 DEF AllConfirmed
<1>11. \A c \in next.confirmations :
           \/ c \in plan.confirmations
           \/ c.member = m /\ c.fingerprint = g
  BY <1>3, <1>4 DEF ValidConfirmations
<1> QED
  BY <1>2, <1>7, <1>8, <1>9, <1>10, <1>11 DEF g

-----------------------------------------------------------------------------
(***************************************************************************)
(* The invariant.                                                          *)
(***************************************************************************)
\* At first nobody has confirmed anything.
LEMMA AgreedInit == Init => AgreedInv
BY DEF Init, NoProcess, StartPlan, AgreedInv, plan

\* Confirmations are given by participants, for the books as they are, and the
\* books only move on.
LEMMA AgreedNext == TypeInv /\ AgreedInv /\ [Next]_vars => AgreedInv'
<1> SUFFICES ASSUME TypeInv, AgreedInv, [Next]_vars
             PROVE  AgreedInv'
  OBVIOUS
<1>t. /\ books \in Books /\ books.ledger \in Nat
      /\ \A c \in plan.confirmations : c.fingerprint.ledger \in Nat
  BY PlanType DEF TypeInv, TypeOK, Books, Plans, Confirmations, Fingerprints
<1>1. CASE \E m \in members : Command(m)
  <2>1. PICK m \in members : Command(m)
    BY <1>1
  <2>2. CASE Confirming(m)
    <3>1. /\ plan'.participants = plan.participants
          /\ books' = books /\ m \in plan.participants
          /\ process'.status \in {"OPEN", "COMPLETED"}
      BY <2>2, PlanType, ConfirmedPlan DEF Confirming, CanConfirm
    <3>2. Fingerprint(books, plan.cutoff).ledger = books.ledger
      BY DEF Fingerprint
    <3> QED
      BY <1>t, <2>2, <3>1, <3>2, ConfirmingAgreed DEF AgreedInv
  <2>3. CASE Emptying
    BY <2>3 DEF Emptying, AgreedInv
  <2> QED
    BY <2>1, <2>2, <2>3, ConfirmingOrEmptying
<1>2. CASE Elsewhere
  <2>1. /\ process' = process /\ plan' = plan
        /\ books'.ledger \in {books.ledger, books.ledger + 1}
    BY <1>2, BooksElsewhere DEF plan
  <2> QED
    BY <1>t, <2>1 DEF AgreedInv
<1>3. CASE UNCHANGED vars
  BY <1>3 DEF vars, AgreedInv, plan
<1> QED
  BY <1>1, <1>2, <1>3 DEF Next

-----------------------------------------------------------------------------
(***************************************************************************)
(* The refinement, step by step.                                           *)
(***************************************************************************)
\* A new space is one nobody has agreed to close.
LEMMA AgreementStart == Init => Agreement!AgreementInit
<1> SUFFICES ASSUME Init
             PROVE  Agreement!AgreementInit
  OBVIOUS
<1>1. Agreed = {}
  BY NobodyAgrees DEF Init, NoProcess, StartPlan, plan
<1> QED
  BY <1>1, PersonsAssumption DEF Init, Agreement!AgreementInit

\* A confirmation is a member's agreement, and the last one closes the space.
LEMMA ConfirmingAgrees ==
    ASSUME TypeInv, AgreedInv, NEW m \in members, Confirming(m)
    PROVE  Agreement!AgreementNext
<1>1. m \in Persons
  BY DEF TypeInv, TypeOK
<1>2. Agreement!Agree(m)
  BY ConfirmingAgreed DEF Confirming, Agreement!Agree
<1> QED
  BY <1>1, <1>2 DEF Agreement!AgreementNext

\* Any other command begins the closure, calls it off, writes the books or undoes
\* what was agreed.
LEMMA EmptyingUndoes ==
    ASSUME Emptying
    PROVE  Agreement!AgreementNext
<1>1. Agreed' = {}
  BY DEF Emptying, Agreed, ValidConfirmations
<1>2. CASE status = "ACTIVE" /\ status' = "CLOSING" /\ books' = books
  BY <1>1, <1>2 DEF Emptying, Agreement!AgreementNext, Agreement!Begin
<1>3. CASE status = "CLOSING" /\ status' = "ACTIVE" /\ books' = books
  BY <1>1, <1>3 DEF Emptying, Agreement!AgreementNext, Agreement!CallOff
<1>4. CASE /\ status = "CLOSING" /\ status' = "CLOSING"
           /\ books'.ledger = books.ledger
  BY <1>1, <1>4 DEF Emptying, Agreement!AgreementNext, Agreement!Retract
<1>5. CASE /\ status = "CLOSING" /\ status' = "CLOSING"
           /\ books'.ledger = books.ledger + 1
  BY <1>1, <1>5 DEF Emptying, Agreement!AgreementNext, Agreement!Write
<1> QED
  BY <1>2, <1>3, <1>4, <1>5 DEF Emptying

\* A member enters, the books are written, or nothing the agreement knows of
\* happens.  A confirmation is of the books before the write, so that none is left
\* after it.
LEMMA ElsewhereAgrees ==
    ASSUME TypeInv, AgreedInv, Elsewhere
    PROVE  Agreement!AgreementNext \/ UNCHANGED Agreement!agreementVars
<1>1. /\ status' = status /\ process' = process /\ plan' = plan
  BY ProcessElsewhere DEF plan
<1>2. CASE books' = books
  <2>1. Agreed' = Agreed
    BY <1>1, <1>2 DEF Agreed
  <2>2. CASE \E p \in Persons : Join(p)
    BY <1>1, <1>2, <2>1, <2>2
    DEF Join, Agreement!AgreementNext, Agreement!Enter
  <2>3. CASE ~ \E p \in Persons : Join(p)
    <3>1. members' = members
      BY <2>3 DEF Elsewhere, ChangeInvitation, ChangeWork, RecordExpense,
                  ResolveDebt, ReverseSettlement, FulfillItem, NextDay
    <3> QED
      BY <1>1, <1>2, <2>1, <3>1 DEF Agreement!agreementVars
  <2> QED
    BY <2>2, <2>3
<1>3. CASE /\ status \in {"ACTIVE", "CLOSING"}
           /\ books'.ledger = books.ledger + 1
           /\ UNCHANGED <<status, members>>
  <2>1. books.ledger \in Nat /\ \A c \in plan.confirmations :
                                    c.fingerprint.ledger \in Nat
    BY PlanType
    DEF TypeInv, TypeOK, Books, Plans, Confirmations, Fingerprints
  <2>2. \A c \in plan.confirmations : c.fingerprint.ledger # books'.ledger
    BY <1>3, <2>1 DEF AgreedInv
  <2>3. ValidConfirmations(plan', Fingerprint(books', plan'.cutoff)) = {}
    BY <1>1, <2>2 DEF ValidConfirmations, Fingerprint
  <2>4. Agreed' = {}
    BY <2>3 DEF Agreed
  <2> QED
    BY <1>3, <2>4 DEF Agreement!AgreementNext, Agreement!Write
<1> QED
  BY <1>2, <1>3, BooksElsewhere

\* Every step is one of the agreement, or leaves it alone.
LEMMA AgreementStep ==
    TypeInv /\ AgreedInv /\ [Next]_vars
        => [Agreement!AgreementNext]_(Agreement!agreementVars)
<1> SUFFICES ASSUME TypeInv, AgreedInv, [Next]_vars
             PROVE  Agreement!AgreementNext \/ UNCHANGED Agreement!agreementVars
  OBVIOUS
<1>1. CASE \E m \in members : Command(m)
  BY <1>1, ConfirmingOrEmptying, ConfirmingAgrees, EmptyingUndoes
<1>2. CASE Elsewhere
  BY <1>2, ElsewhereAgrees
<1>3. CASE UNCHANGED vars
  BY <1>3 DEF vars, Agreement!agreementVars, Agreed, plan
<1> QED
  BY <1>1, <1>2, <1>3 DEF Next

\* A space is closed by the unanimous agreement of its members on its books as
\* they are: a write to the books, a change of the terms or a call to cancel
\* undoes what was agreed so far, and nobody agrees for another.
THEOREM AgreementCorrect == Spec => ImplementsAgreement
<1>1. Spec => []TypeInv
  BY TypeInit, TypeNext, PTL DEF Spec
<1>2. Spec => []AgreedInv
  BY <1>1, AgreedInit, AgreedNext, PTL DEF Spec
<1> QED
  BY <1>1, <1>2, AgreementStart, AgreementStep, PTL
  DEF Spec, ImplementsAgreement, Agreement!AgreementSpec
=============================================================================
