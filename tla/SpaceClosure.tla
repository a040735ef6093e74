---------------------------- MODULE SpaceClosure ---------------------------
(***************************************************************************)
(* The bilateral closure of a shared space: its members negotiate a plan,  *)
(* the destinations of the plan are applied to the books once all have     *)
(* approved it, and the space is closed when all have confirmed it for the *)
(* same state of the books; until then they may call the closure off.      *)
(*                                                                         *)
(* Every command is one transaction that first locks the row of the space  *)
(* FOR UPDATE, and every write of the other modules holds the same row FOR *)
(* SHARE, so that a command is one step.  What its client knew when it was *)
(* sent, the expected version, revision and fingerprint, may be stale: the *)
(* commands take them as parameters.  A command that throws is rolled back *)
(* and is no step, and so is a command whose receipt is found.  The        *)
(* receipts, the history and the audit are therefore left out here: no     *)
(* other command reads them.                                               *)
(***************************************************************************)
EXTENDS ClosurePlan, ClosureBooks

CONSTANTS Persons,     \* the people who may be members
          Creator,     \* the one who created the space
          MaxVersion,  \* bound on the version of the space
          MaxLedger    \* bound on the writes to the books

ASSUME PersonsAssumption == Creator \in Persons /\ IsFiniteSet(Persons)
ASSUME BoundsAssumption  == MaxVersion \in Nat /\ MaxLedger \in Nat

VARIABLES
    status,   \* spaces.status
    version,  \* spaces.version
    members,  \* space_members: the persons whose membership is active
    process,  \* the latest row of space_closure_processes
    books,    \* the finances of the space
    work,     \* routine tasks are pending or shopping lists are active
    today     \* the civil date of the server's clock

vars == <<status, version, members, process, books, work, today>>

NoProcess == [status |-> "NONE", number |-> 0,
              plan   |-> StartPlan(Creator, {Creator}, NoDate)]

Init ==
    /\ status = "ACTIVE"
    /\ version = 1
    /\ members = {Creator}
    /\ process = NoProcess
    /\ books \in [ledger   : {0},
                  debts    : {0},
                  settled  : {0},
                  items    : [Origins -> SUBSET Dates],
                  versions : [Origins -> {1}],
                  effects  : {{}}]
    /\ work = FALSE
    /\ today = 1

-----------------------------------------------------------------------------
plan == process.plan

\* saveSpace: the optimistic write every command of the aggregate ends with.
Save(expected) ==
    /\ version = expected
    /\ version < MaxVersion
    /\ version' = version + 1

\* The preconditions all commands of an open process share.
OpenCommand(m, expected, revision) ==
    /\ m \in members
    /\ status = "CLOSING"
    /\ process.status = "OPEN"
    /\ plan.revision = revision
    /\ Save(expected)

-----------------------------------------------------------------------------
(***************************************************************************)
(* The closure commands.                                                   *)
(***************************************************************************)
Start(m, expected) ==
    /\ m \in members
    /\ Save(expected)
    /\ status = "ACTIVE"
    /\ process.status # "OPEN"
    /\ Cardinality(members) = 1 => m = Creator
    /\ status' = "CLOSING"
    /\ process' = [status |-> "OPEN", number |-> process.number + 1,
                   plan   |-> StartPlan(m, members, today)]
    /\ UNCHANGED <<members, books, work, today>>

ProposeCutoff(m, expected, revision, date) ==
    /\ OpenCommand(m, expected, revision)
    /\ CanProposeCutoff(plan, date)
    /\ process' = [process EXCEPT !.plan = WithCutoff(plan, date)]
    /\ UNCHANGED <<status, members, books, work, today>>

ChooseDestination(m, expected, revision, origin, choice) ==
    LET destination == Destination(books, origin, choice, TargetCutoff(plan))
    IN  /\ OpenCommand(m, expected, revision)
        /\ CanPreview(books, origin, TargetCutoff(plan))
        /\ CanUpsert(plan, destination)
        /\ process' =
               [process EXCEPT !.plan = WithDestination(plan, destination)]
        /\ UNCHANGED <<status, members, books, work, today>>

\* The review both PROPOSE and APPROVE make of the plan on the present books.
Reviewed(fingerprint) ==
    /\ ReviewPasses(books, TargetCutoff(plan), plan.destinations)
    /\ MissingOrigins(books, TargetCutoff(plan), plan.destinations) = {}
    /\ fingerprint = Fingerprint(books, TargetCutoff(plan))

\* Mistake: a plan is applied when it is proposed.
ApplyIfProposed(next) ==
    books' = IF next.status \in {"PROPOSED", "APPROVED"}
             THEN Applied(books, next.destinations, process.number,
                          next.revision, next.cutoff)
             ELSE books

\* A plan that has become approved is applied in the same transaction.
ApplyIfApproved(next) ==
    books' = IF ApprovedByAll(next)
             THEN Applied(books, next.destinations, process.number,
                          next.revision, next.cutoff)
             ELSE books

Propose(m, expected, revision, fingerprint) ==
    LET next == Proposed(plan, m, fingerprint)
    IN  /\ OpenCommand(m, expected, revision)
        /\ Reviewed(fingerprint)
        /\ CanPropose(plan, m, fingerprint)
        /\ process' = [process EXCEPT !.plan = next]
        /\ ApplyIfApproved(next)
        /\ UNCHANGED <<status, members, work, today>>

Approve(m, expected, revision, fingerprint) ==
    LET next == Approved(plan, m)
    IN  /\ OpenCommand(m, expected, revision)
        /\ Reviewed(fingerprint)
        /\ CanApprove(plan, m, fingerprint)
        /\ process' = [process EXCEPT !.plan = next]
        /\ ApplyIfApproved(next)
        /\ UNCHANGED <<status, members, work, today>>

Reject(m, expected, revision) ==
    /\ OpenCommand(m, expected, revision)
    /\ CanAnswer(plan, m)
    /\ process' = [process EXCEPT !.plan = Rejected(plan)]
    /\ UNCHANGED <<status, members, books, work, today>>

\* requireClosureConclusion and assertHistoricalParticipants.
SameParticipants ==
    /\ members = plan.participants
    /\ Cardinality(plan.participants) = 1 => plan.participants = {Creator}

Confirm(m, expected, revision, fingerprint) ==
    LET next == Confirmed(plan, m, fingerprint)
    IN  /\ OpenCommand(m, expected, revision)
        /\ SameParticipants
        /\ fingerprint = Fingerprint(books, plan.cutoff)
        /\ ReviewPasses(books, plan.cutoff, plan.destinations)
        /\ MissingOrigins(books, plan.cutoff, plan.destinations) = {}
        /\ FinanciallyReady(books)
        /\ CanConfirm(plan, m, fingerprint)
        /\ IF AllConfirmed(next)
           THEN /\ status' = "CLOSED"
                /\ process' = [process EXCEPT !.status = "COMPLETED",
                                              !.plan   = next]
                /\ work' = FALSE
           ELSE /\ process' = [process EXCEPT !.plan = next]
                /\ UNCHANGED <<status, work>>
        /\ UNCHANGED <<members, books, today>>

Cancel(m, expected, revision) ==
    LET next == WithConsent(plan, m, version)
    IN  /\ OpenCommand(m, expected, revision)
        /\ SameParticipants
        /\ CanCancel(plan, m, version)
        /\ IF CancellationComplete(next)
           THEN /\ status' = "ACTIVE"
                /\ process' = [process EXCEPT !.status = "CANCELLED",
                                              !.plan   = Dissolved(next)]
           ELSE /\ process' = [process EXCEPT !.plan = next]
                /\ UNCHANGED status
        /\ UNCHANGED <<members, books, work, today>>

-----------------------------------------------------------------------------
(***************************************************************************)
(* The rest of the system, as far as a closure can meet it.                *)
(***************************************************************************)
\* An invitation is accepted: the second member joins an active space.
Join(p) ==
    /\ p \in Persons \ members
    /\ status = "ACTIVE"
    /\ Cardinality(members) < 2
    /\ Save(version)
    /\ members' = members \cup {p}
    /\ UNCHANGED <<status, process, books, work, today>>

\* An invitation is issued, replaced or rejected.
ChangeInvitation ==
    /\ status = "ACTIVE"
    /\ Cardinality(members) < 2
    /\ Save(version)
    /\ UNCHANGED <<status, members, process, books, work, today>>

\* Tasks and lists are written in active spaces only.
ChangeWork ==
    /\ status = "ACTIVE"
    /\ work' = ~ work
    /\ UNCHANGED <<status, version, members, process, books, today>>

\* lockForWrite, and lockForSettlement and lockForFulfillment.
MayWrite  == status = "ACTIVE" /\ books.ledger < MaxLedger

\* Mistake: a closed space can still be settled.
MaySettleAlways == books.ledger < MaxLedger

MaySettle == status \in {"ACTIVE", "CLOSING"} /\ books.ledger < MaxLedger

RecordExpense(owed) ==
    /\ MayWrite
    /\ owed => Cardinality(members) = 2
    /\ books' = WithFact(books, owed)
    /\ UNCHANGED <<status, version, members, process, work, today>>

ResolveDebt(waived) ==
    /\ MaySettle
    /\ books.debts > 0
    /\ books' = WithoutDebt(books, waived)
    /\ UNCHANGED <<status, version, members, process, work, today>>

ReverseSettlement ==
    /\ MaySettle
    /\ books.settled > 0
    /\ books' = WithDebtAgain(books)
    /\ UNCHANGED <<status, version, members, process, work, today>>

\* assertRecurringClosureCutoff: while a process is open, no first fact of an
\* occurrence from the cutoff on.
BeforeCutoff(origin, date) ==
    origin \in Recurring /\ process.status = "OPEN" => date < plan.cutoff

FulfillItem(origin, date, owed) ==
    /\ MaySettle
    /\ date \in OpenItems(books, origin)
    /\ BeforeCutoff(origin, date)
    /\ owed => Cardinality(members) = 2
    /\ books' = Fulfilled(books, origin, date, owed)
    /\ UNCHANGED <<status, version, members, process, work, today>>

NextDay ==
    /\ today < MaxDate
    /\ today' = today + 1
    /\ UNCHANGED <<status, version, members, process, books, work>>
-----------------------------------------------------------------------------
\* A command sent with stale expectations is refused, which is no step: the
\* steps are those of the commands whose client knows the present state.
Command(m) ==
    LET v == version
        r == plan.revision
        f == Fingerprint(books, TargetCutoff(plan))
    IN  \/ Start(m, v)
        \/ \E date \in Dates : ProposeCutoff(m, v, r, date)
        \/ \E o \in Origins, choice \in Choices :
               ChooseDestination(m, v, r, o, choice)
        \/ Propose(m, v, r, f)
        \/ Approve(m, v, r, f)
        \/ Reject(m, v, r)
        \/ Confirm(m, v, r, Fingerprint(books, plan.cutoff))
        \/ Cancel(m, v, r)

Elsewhere ==
    \/ \E p \in Persons : Join(p)
    \/ ChangeInvitation
    \/ ChangeWork
    \/ \E owed \in BOOLEAN : RecordExpense(owed)
    \/ \E waived \in BOOLEAN : ResolveDebt(waived)
    \/ ReverseSettlement
    \/ \E o \in Origins, d \in Dates, owed \in BOOLEAN : FulfillItem(o, d, owed)
    \/ NextDay

Next == (\E m \in members : Command(m)) \/ Elsewhere

Spec == Init /\ [][Next]_vars
-----------------------------------------------------------------------------
(***************************************************************************)
(* Types.                                                                  *)
(***************************************************************************)
Sources      == [version : Nat, items : SUBSET Dates]
Destinations == [origin : Origins, choice : Choices, cutoff : Dates,
                 source : Sources]
Effects      == [snapshot : Destinations, process : Nat, revision : Nat,
                 cutoff : Dates]

Fingerprints  == [cutoff : Nat, ledger : Nat]
Approvals     == [member : Persons, revision : Nat]
Confirmations == [member : Persons, revision : Nat, fingerprint : Fingerprints]
Consents      == [member : Persons, revision : Nat, version : Nat]

Plans ==
    [requestedBy   : Persons,
     participants  : SUBSET Persons,
     cutoff        : Nat,
     proposed      : Nat,
     revision      : Nat,
     status        : {"DRAFT", "PROPOSED", "APPROVED", "REJECTED"},
     approvals     : SUBSET Approvals,
     confirmations : SUBSET Confirmations,
     destinations  : SUBSET Destinations,
     snapshot      : Fingerprints,
     bilateral     : BOOLEAN,
     consents      : SUBSET Consents]

Processes == [status : {"NONE", "OPEN", "COMPLETED", "CANCELLED"},
              number : Nat, plan : Plans]

Books == [ledger   : Nat,
          debts    : Nat,
          settled  : Nat,
          items    : [Origins -> SUBSET Dates],
          versions : [Origins -> Nat],
          effects  : SUBSET Effects]

\* The types of the columns.
TypeOK ==
    /\ status \in {"ACTIVE", "CLOSING", "CLOSED"}
    /\ version \in Nat
    /\ members \in SUBSET Persons
    /\ process \in Processes
    /\ books \in Books
    /\ work \in BOOLEAN
    /\ today \in Dates

-----------------------------------------------------------------------------
(***************************************************************************)
(* Safety.                                                                 *)
(***************************************************************************)
\* A closed space is the one its members agreed on, and stays it: each of them
\* confirmed the approved plan for the books as they are, every destination of
\* the plan has been applied, nothing is left to be paid, and no task is pending.
ClosedAsAgreed ==
    status = "CLOSED" =>
        /\ ApprovedByAll(plan)
        /\ \A p \in members : \E c \in plan.confirmations :
               /\ c.member = p
               /\ c.fingerprint = Fingerprint(books, plan.cutoff)
        /\ \A d \in plan.destinations :
               \E e \in books.effects : e.snapshot = d
        /\ FinanciallyReady(books)
        /\ ~ work

\* The space and its process, two rows, tell the same story, and nobody joins
\* or leaves while the plan is negotiated.
ProcessMatchesStatus ==
    /\ (status = "CLOSING") <=> (process.status = "OPEN")
    /\ (status = "CLOSED")  <=> (process.status = "COMPLETED")
    /\ status # "ACTIVE" => plan.participants = members

\* What members have agreed to is what is on the table: approvals and
\* confirmations are of the present revision, a consent to cancel of the present
\* version of the space, and nobody is both confirming and calling it off.
ConsentsAreCurrent ==
    process.status = "OPEN" =>
        /\ \A a \in plan.approvals     : a.revision = plan.revision
        /\ \A c \in plan.confirmations : c.revision = plan.revision
        /\ \A c \in plan.consents : /\ c.revision = plan.revision
                                    /\ c.version = version
        /\ plan.confirmations # {} => ApprovedByAll(plan) /\ plan.consents = {}

\* An origin is given one destination for ever: it has at most one effect, the
\* plan in force shows an applied origin as it was applied, and what this
\* process applied it applied no later than its own cutoff.
AppliedOnce ==
    /\ \A e1, e2 \in books.effects :
           e1.snapshot.origin = e2.snapshot.origin => e1 = e2
    /\ process.status = "OPEN" =>
           \A e \in books.effects :
               /\ \A d \in plan.destinations :
                      d.origin = e.snapshot.origin => d = e.snapshot
               /\ e.process = process.number => e.cutoff <= plan.cutoff

\* What an effect handed over to a personal successor, or ended, is never also
\* paid in the shared space.
NothingPaidTwice ==
    \A e \in books.effects :
        e.snapshot.source.items \subseteq books.items[e.snapshot.origin]

\* Destinations are applied only in the step in which the last participant
\* approves them, on the books the proposal was made for; and what has been
\* applied is never taken back, not even when the closure is called off.
EffectsNeedEveryApproval ==
    [][/\ books.effects \subseteq books'.effects
       /\ books'.effects # books.effects =>
            /\ ApprovedByAll(plan')
            /\ plan'.snapshot = Fingerprint(books, plan'.cutoff)
            /\ \A e \in books'.effects \ books.effects :
                   e.snapshot \in plan'.destinations]_vars

\* Once a closure of two members has had effects, one of them alone cannot call
\* it off, whatever became of the plan since they were applied.
NoLoneCancellation ==
    [][(/\ process.status = "OPEN"
        /\ process'.status = "CANCELLED"
        /\ Cardinality(plan.participants) = 2
        /\ \E e \in books.effects : e.process = process.number)
       => \A p \in plan.participants :
              \E c \in plan'.consents : c.member = p]_vars

-----------------------------------------------------------------------------
(***************************************************************************)
(* The refinement: a member agrees to close the space when its plan holds  *)
(* a confirmation of that member for the books as they are.                *)
(***************************************************************************)
Agreed ==
    {c.member : c \in ValidConfirmations(plan,
                                         Fingerprint(books, plan.cutoff))}

Agreement == INSTANCE ClosureAgreement
    WITH phase <- status, parties <- members, ledger <- books.ledger,
         agreed <- Agreed

\* The negotiation of plans implements the unanimous agreement.
ImplementsAgreement == Agreement!AgreementSpec
=============================================================================
