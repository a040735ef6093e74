---------------------------- MODULE ClosureBooks ---------------------------
(***************************************************************************)
(* What the closure of a space reads and writes of its books: the debts    *)
(* between the members, the commitments with items still to be fulfilled   *)
(* (the origins a plan gives a destination), and the destinations already  *)
(* applied, the rows of financial_closure_effects.                         *)
(*                                                                         *)
(* An origin is a recurrence without an end or an installment plan; its    *)
(* items are the dates whose occurrence or installment is unpaid.  Amounts *)
(* are abstracted: an item is wholly paid or not at all, debts counts the  *)
(* open obligations, whoever owes them, and settled the settlements that   *)
(* can still be reversed.  The tables the fingerprint hashes only ever     *)
(* gain rows or versions, so ledger, the number of writes, stands for      *)
(* their contents.                                                         *)
(***************************************************************************)
EXTENDS Naturals, FiniteSets

CONSTANTS Recurring,     \* the commitments that are recurrences
          Installments,  \* the commitments that are installment plans
          Choices,       \* the destinations the members choose from
          MaxDate        \* the last date of the model

ASSUME OriginsAssumption ==
    /\ Recurring \cap Installments = {}
    /\ IsFiniteSet(Recurring \cup Installments)

ASSUME MaxDateAssumption == MaxDate \in Nat \ {0}

ASSUME ChoicesAssumption ==
    Choices \subseteq {"TERMINATE", "PERSONAL_SUCCESSOR",
                      "SETTLE_BEFORE_CLOSURE"}

Origins == Recurring \cup Installments
Dates   == 1 .. MaxDate

\* The digest of the state of the books, as reviewPlan computes it at a cutoff.
Fingerprint(books, cutoff) == [cutoff |-> cutoff, ledger |-> books.ledger]

EffectsOn(books, origin) == {e \in books.effects : e.snapshot.origin = origin}

\* An effect takes from its origin the items of its snapshot and, from a
\* recurrence, every occurrence from the cutoff on.
Moved(effect, date) ==
    \/ date \in effect.snapshot.source.items
    \/ effect.snapshot.origin \in Recurring /\ date >= effect.cutoff

IsMoved(books, origin, date) ==
    \E e \in EffectsOn(books, origin) : Moved(e, date)

\* Mistake: the items an effect has taken away are still to be paid.
AllItems(books, origin) == books.items[origin]

\* The items the diagnostics still report as open.
OpenItems(books, origin) ==
    {d \in books.items[origin] : ~ IsMoved(books, origin, d)}

\* A recurrence goes on for ever unless a destination terminated it.
Endless(books, origin) ==
    origin \in Recurring /\ EffectsOn(books, origin) = {}

\* The diagnostics find no blocker left.
FinanciallyReady(books) ==
    /\ books.debts = 0
    /\ \A o \in Origins : ~ Endless(books, o) /\ OpenItems(books, o) = {}

(***************************************************************************)
(* inspect and snapshot: the future of an origin at a cutoff.              *)
(***************************************************************************)
Source(books, origin, cutoff) ==
    [version |-> books.versions[origin],
     items   |-> {d \in books.items[origin] : d >= cutoff}]

HasFuture(books, origin, cutoff) ==
    origin \in Recurring \/ \E d \in books.items[origin] : d >= cutoff

Destination(books, origin, choice, cutoff) ==
    [origin |-> origin, choice |-> choice, cutoff |-> cutoff,
     source |-> Source(books, origin, cutoff)]

(***************************************************************************)
(* preview: a destination is chosen for an origin that has none applied.   *)
(***************************************************************************)
CanPreview(books, origin, cutoff) ==
    /\ EffectsOn(books, origin) = {}
    /\ HasFuture(books, origin, cutoff)

(***************************************************************************)
(* reviewPlan: every destination is either applied as it is planned, or    *)
(* still describes the books; and no future is left without a destination. *)
(***************************************************************************)
StillHolds(books, cutoff, destination) ==
    LET origin == destination.origin
    IN  IF EffectsOn(books, origin) # {}
        THEN \A e \in EffectsOn(books, origin) : e.snapshot = destination
        ELSE /\ destination.cutoff = cutoff
             /\ HasFuture(books, origin, cutoff)
             /\ destination =
                    Destination(books, origin, destination.choice, cutoff)

ReviewPasses(books, cutoff, destinations) ==
    \A destination \in destinations : StillHolds(books, cutoff, destination)

FutureOpen(books, origin, cutoff) ==
    \/ Endless(books, origin)
    \/ \E d \in OpenItems(books, origin) : d >= cutoff

MissingOrigins(books, cutoff, destinations) ==
    {o \in Origins :
        /\ FutureOpen(books, o, cutoff)
        /\ \/ \A destination \in destinations : destination.origin # o
           \/ \E e \in EffectsOn(books, o), d \in OpenItems(books, o) :
                  cutoff <= d /\ d < e.cutoff}

(***************************************************************************)
(* applyApproved: the destinations without an effect are applied, once.    *)
(* An agreement to settle becomes a debt between the members.              *)
(***************************************************************************)
\* Mistake: what has been applied is applied again.
PendingAgain(books, destinations) == destinations

Pending(books, destinations) ==
    {d \in destinations : EffectsOn(books, d.origin) = {}}

Applied(books, destinations, process, revision, cutoff) ==
    LET pending == Pending(books, destinations)
    IN  [books EXCEPT
            !.effects  = @ \cup {[snapshot |-> d, process |-> process,
                                  revision |-> revision, cutoff |-> cutoff] :
                                     d \in pending},
            !.versions = [o \in Origins |->
                             IF \E d \in pending : d.origin = o
                             THEN @[o] + 1 ELSE @[o]],
            !.debts    = @ + Cardinality({d \in pending :
                                 d.choice = "SETTLE_BEFORE_CLOSURE"}),
            !.ledger   = IF pending = {} THEN @ ELSE @ + 1]

(***************************************************************************)
(* The writes of the finance handlers that change what a closure reads.    *)
(***************************************************************************)
\* A fact is recorded; owed says that one member paid what the other owes.
WithFact(books, owed) ==
    [books EXCEPT !.debts  = IF owed THEN @ + 1 ELSE @,
                  !.ledger = @ + 1]

\* An obligation is resolved, by a transfer or an offset, which may be reversed
\* later, or by a waiver, which may not.
WithoutDebt(books, waived) ==
    [books EXCEPT !.debts   = @ - 1,
                  !.settled = IF waived THEN @ ELSE @ + 1,
                  !.ledger  = @ + 1]

\* A transfer or an offset is reversed, once: what it had resolved is owed again.
WithDebtAgain(books) ==
    [books EXCEPT !.debts = @ + 1, !.settled = @ - 1, !.ledger = @ + 1]

\* An item of an origin is fulfilled.  Installments bump their commitment.
Fulfilled(books, origin, date, owed) ==
    [books EXCEPT
        !.items[origin]    = @ \ {date},
        !.versions[origin] = IF origin \in Installments THEN @ + 1 ELSE @,
        !.debts            = IF owed THEN @ + 1 ELSE @,
        !.ledger           = @ + 1]
=============================================================================
