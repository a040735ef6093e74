# Prospera+ API: a verification project in TLA+

Prospera+ is a NestJS/PostgreSQL service in which people keep a personal
financial space and share others with one more person. What makes it hard is
that two people, their retries and the passing of time act on the same rows, and
that much of what they do binds the other: an invitation admits a member, an
expense makes the other owe, a closure ends the space for both. This directory
holds TLA+ modules translated from `src/src`, TLC runs that check them on small
instances, and proofs checked by TLAPS.

## The system

| part | state it keeps | operations | what makes it correct |
| --- | --- | --- | --- |
| spaces: closure of a shared space (`modules/spaces/domain/space`, `typeorm-space-closure.ts`, `composition/space-closure`) | `spaces.status/version`, `space_closure_processes` (the plan), history, audit, receipts | start, propose cutoff, choose destination, propose, approve, reject, confirm, cancel | a space ends as both agreed, on the books as they are; nothing agreed to is stale; nobody is bound or released alone |
| spaces: invitations and membership (`domain/invitation`, invitation services and handlers) | `space_invitations`, `space_members`, `space_command_receipts` | create, issue, replace, accept, reject, preview | one open link, one member per accepted link, retries answered once and truly |
| finances: closure destinations and diagnostics | `financial_closure_effects`, terminations, successors | review, preview, apply, diagnose | an origin has one destination, applied once, and nothing is paid twice |
| finances: obligations and settlement | obligations, settlement cycles, transfers, offsets, waivers, adjustments, reversals | reconcile, move, transfer, offset, waive, finalise a cycle, reverse | outstanding amounts follow from the events, are never negative and are never settled twice; a finalised cycle does not change |
| finances: one-time commitments (expenses, card purchases, incomes) | commitments, versions, disbursements, external liabilities, proposals | create, change, record (partially), adjust, propose, accept, settle, cancel, reverse | a commitment can always be read; what was shown is what is accepted; a past month stays as it was |
| finances: recurrences | series with versions, terminations, materialised occurrences | create, change, terminate, record, set a value, adjust, reverse, cancel | one occurrence a month; the screens and the SQL agree with the projection of the domain |
| finances: installments | installments, anticipations, payoffs, resolutions | create, record, anticipate, pay off, cancel, adjust, reverse, change | what is left follows from the money; what a screen offers is accepted |
| routine | tasks, recurrences, their occurrences, closure | create, complete, skip, reopen, change, cancel, list | the SQL and the domain schedule the same dates; a list read page by page skips nothing |
| shopping | lists, items, purchases, corrections, links to tasks | add, purchase, correct, remove, rename, archive, link | an answer is what the history tells; nothing is linked to an archived list |
| compositions (today, review, shopping tasks) | none | reads, cross-module commands | what is put together from several reads does not contradict itself |
| identity | accounts, sessions | register, log in, log out | a session that was ended stays ended |
| shared | unit of work, entity manager, clock, guards | transactions | all or nothing |

How they interact. Every command is one transaction (`UnitOfWork.execute`; a
nested call joins the outer one), under READ COMMITTED. Two locking disciplines
meet on the row of the space. *Closure* commands take it `FOR UPDATE` at once
and so run alone. *Financial* commands take it `FOR SHARE`, then lock origins,
cycles and obligations in that order. *Invitation* commands lock nothing: they
read, decide, and write with `UPDATE ... WHERE version = expected`. *Shopping*
commands take an advisory lock on their key, share the space and update their
list on the condition of its version. Most commands carry an idempotency key; a
receipt with the hash of the request is the last row they write, and a command
that loses a race looks for the receipt of its twin in a second transaction. The
modules call each other through ports, in the same process and transaction;
there are no messages or background jobs. The only asynchrony is that of
concurrent requests, retries, lost connections and the clock.

The hard behaviours are listed with their lines under `hazards` in
`PROJECT.json`.

## The modules

In every module a definition keeps the name the code has for it where TLA+
admits it, the variables are the columns (or the value objects) they are named
after, a command is an action whose guard is made of its early returns and
refusals, and a plausible mistake stands beside the definition it would change,
under "Mistake:". These are the mutants: with each of them TLC finds the
property that `PROJECT.json` names violated, in the run that checks it.

### The closure of a shared space

* `ClosurePlan` - the value object `ClosurePlan`. Each method is a pair of
  operators: when it returns (`CanProposeCutoff`, `CanUpsert`, `CanPropose`,
  `CanAnswer`, `CanApprove`, `CanConfirm`, `CanCancel`) and what it returns
  (`WithCutoff`, `WithDestination`, `Proposed`, ...).
* `ClosureBooks` - what a closure reads and writes of the finances: open
  obligations, the commitments that have a future (*origins*), and the effects
  already applied. `ReviewPasses`, `MissingOrigins`, `CanPreview` and `Applied`
  are `reviewPlan`, `preview` and `applyApproved` of
  `typeorm-financial-closure-destinations.ts`.
* `SpaceClosure` - the state machine. One action per command, each with the
  whole transaction in it (the review, the aggregate, the conditional write, the
  effects, the completion of tasks and lists), and one per kind of thing that
  can happen meanwhile: an invitation, an expense, a settlement or its reversal,
  the fulfilment of an item, a new day.
* `ClosureAgreement` - what it promises, in six actions: members agree one by
  one on the books as they are, any write undoes their agreement, unanimity
  closes the space. `SpaceClosure` implements it under the mapping that takes
  as agreed those with a valid confirmation for the present fingerprint.
* `SpaceClosureProofs` - the theorems.

A command is one atomic step here because it holds the row of the space `FOR
UPDATE` from its first statement, and everything else that could change what it
reads holds it `FOR SHARE` (finances) or must update it (invitations). A
command that throws is rolled back and is no step. A replayed command is no
step either, so receipts, history and audit are left out: no other command reads
them. The client's expected version, revision and fingerprint are parameters; a
stale one is refused, so `Next` offers the present ones.

Data abstractions: amounts are gone (an obligation or an item is paid or not);
`ledger` counts the writes to the books and stands for the digest of the tables
they change, which only gain rows and versions; the fingerprint is the pair of
the cutoff and the ledger, i.e. the hash is taken to be injective. Dates are
`1..MaxDate`. The blockers that have no destination (external liabilities,
planned expenses) are not modelled apart from obligations.

### Invitations

* `Invitations` - the value object `Invitation`, the guards of the aggregate,
  and what each command leaves in the tables.
* `SpaceInvitations` - requests as they are executed: `LoadSpace`,
  `FindIssuerReceipt`, `AssertCanWrite` (or `FindResponseReceipt`, `LoadByLink`)
  read one after the other what may change in between; `Commit` is the
  conditional update with the rows and the receipt; `Rollback` and `Recover` are
  the lost race. `Send` is a client that may send a new command or repeat any
  that is running or has been carried out. The write is one step because the
  conditional update locks the root until the commit, and every other write of
  these tables starts with the same update.
* `InvitationCommands` - the same commands, each as one step on the tables as
  they are: what the interleaved transactions are shown to implement.
* `SpaceInvitationsProofs` - the theorems.

A new command carries the version that is current when it is sent (it is often
out of date when it arrives); an older one would be refused in the same way. The
space starts with the invitation that `createShared` issues. Of the closure only
what touches invitations is there.

### The settlement ledger

* `Obligations` - the value object `InterMemberObligation` (each method is an
  operator on the record), the two differences an expense may leave
  (`ExpenseDifference`, and `CorrectedDifference` once a payment has been
  reversed), and the two plans that write obligations: `Reused` and `ChangedIds`
  are `planObligationReconciliation`, `NetAfterReversal`, `WritableIds` and
  `ReusedInReversal` are `planSettlementReversal`.
* `SettlementLedger` - the state machine: the shares and the facts of each
  expense, the agreements of closures, the obligations, their resolutions and
  the cycles. `RecordFact`, `ReverseFact` and `Adjust` change an expense and
  `Reconcile` its obligations in the same step; `Agree` is the obligation of a
  closure agreement; `Transfer`, `Offset` and `WaiveObligation` resolve;
  `MoveObligation` and `FinalizeCycle` are those of the cycles; and
  `ReverseSettlement` takes back a transfer or an offset, source by source.
* `SettlementViews` - what the members are shown of it: the position between
  them, the cycles with their totals, the obligations and the histories, page by
  page, each computed as its own query computes it; and the transfer, the offset
  with its amounts, the waiver, the other cycle, the finalization and the
  reversal that a screen offers.
* `SettlementLedgerProofs` - the theorems;
  `SumTheorems` - the facts about sums they need.

A shared space has two members, so a difference is one integer: what the second
owes the first. An obligation is its place in the order of registration, which
together with the sequence of its fact is the chronology the reconciliation
sorts by. What has been resolved (`Resolved`) is never stored: like the code it
is summed from the resolutions whose reversal has not been recorded.

The versions a client sends are those of the rows it has read, and a stale one
is refused, so they are left out here (and are in `SettlementTransactions`); so
are the receipts, the change log and the audit, which are read by no other
command, and dates, of which only the identity of a cycle remains. A cycle of a
date that has none is created by the command that needs it (`ABSENT` becomes
`OPEN`). The acceptance an adjustment may need of the other member decides who
may send it, not what it does (it is in `OneTimeCommitments`).

What is owed follows from the facts (`OutstandingFollowsFacts`) for an expense
that was never adjusted. It is not claimed of an adjusted one for a reason TLC
shows: let an expense be partly paid, its obligation settled by a transfer and
its amount then raised; a reconciliation now makes the other owe less, or
nothing, but the reversal of the transfer does not look at the facts and
restores the whole amount. The next payment or correction of the expense heals
it, and once the expense is fully paid the members owe exactly what makes each
bear their share whatever happened (`SharesAreBorne`).

### The settlement transactions

* `SettlementCommands` - what the same commands promise, seen from the database:
  each is a single step that finds the rows as its client has seen them, changes
  them and leaves the receipt of its key. Amounts are reduced to one cent of
  every obligation named (they are the subject of `SettlementLedger`); versions,
  expected versions, cycles and receipts are all there.
* `SettlementTransactions` - the handlers statement by statement at READ
  COMMITTED: the receipt of the key, the space, the discovery of the rows, the
  origins, the cycles (inserted if they are not there), the obligations, one row
  at a time in the order of the ids; what was read before a lock and is looked at
  again under it; the commit, which is when the writes are seen; a lost
  connection at any statement, after which the client asks again with the same
  key. A statement that locks a row waits until nobody holds it in a conflicting
  mode.
* `SettlementTransactionsProofs` - the theorems.

Its steps implement the one-step commands (`OneCommandAtATime`), which is what
justifies that a command of `SettlementLedger` is atomic. It states fairness:
weak fairness of `Statement(r)` for every request, i.e. a statement that can run
is eventually run by the database. Under it every request ends
(`EveryRequestEnds`): no two wait for each other, because all take the space,
the origins, the cycles and the obligations in this order and each by id.

A reversal names the versions of the obligations it reverses and is compared
with as many as it locks (`expectedObligationVersions.length !== ids.length` in
`reverse-settlement.handler.ts`): planning the refinement proof showed that the
model had compared the versions only of rows that were both named and locked,
and it was corrected (`OutOfDate`).

### Shares, terms and one-time commitments

* `ResponsibilitySplit` - how an amount is divided between members, by amounts
  or by percentages with largest remainders.
* `NonRecurringTerms` - the facts (disbursements, liabilities, their settlement
  and reversal) and the versions that price what is due once: used by the next
  modules.
* `OneTimeCommitments` - an expense or an income that is due once: what it costs
  as its versions take effect and its amount is adjusted, what is paid or
  received of it and reversed, the proposals one member makes and the other
  decides on, and the difference its last reconciliation was given. Every command
  is one transaction under the lock of the commitment; it reads the commitment
  through its constructor, which refuses what is not consistent (`Reads`), and
  only some commands read it again before they commit.
* `FinancialReview` - the months of the same commitment as the review, the
  timeline and the forecast compute them: `dated` gives every row the day it was
  written.

### Recurrences

* `RecurrenceCalendar` - the dates of monthly and yearly rules, as the domain
  computes them.
* `RecurringOccurrences` - an occurrence with its facts, and what its constructor
  accepts.
* `RecurringCommitments` - one series: its versions, its termination, the
  occurrences that were materialised, the closure of its space, and the commands.
  A client acts on what it has just read or on what it read some steps ago
  (`seen`).
* `RecurringViews` - the commitment with its next occurrence, the totals of a
  month, what can still be paid of an occurrence, the impact of a change and of a
  termination, and the day's items. The code looks 13 months ahead for the next
  occurrence and judges a change on 25; the constants `Lookahead` and `Window`
  are 3 and 4 in the run, whose calendar has three months.

Left out: the agreement that a change of version needs, receipts, incomes, the
shares of adjusted occurrences, and the obligations the facts create
(`SettlementLedger` has those of an expense).

### Installments

* `InstallmentPlans` - the amounts, facts, anticipations, payoffs,
  cancellations, adjustments, reversals and terms of a plan. A command reads the
  plan through the constructors of `Installment` and `InstallmentPlan`; most, not
  all, read it again before they commit.
* `InstallmentViews` - how the plan was laid out, what each member bears, and
  what the screens of the anticipation and of the payoff offer and preview.

What the screens show is claimed of a plan as long as its terms and its amounts
are those it was planned with and it owes nothing to others (`AsPlanned`): the
code does not keep it afterwards, see below.

### Routine, shopping, today

* `TaskCalendar` - the calendar of recurring tasks twice: as the domain decides
  that a date is scheduled, and as the queries count scheduled dates and find the
  n-th with the date arithmetic of PostgreSQL.
* `RoutineItems` - tasks, recurrences whose occurrences are computed until
  somebody completes or skips one, and the list of both that a client reads page
  after page while the members go on. A list looks 365 days ahead in the code
  (`Ahead`, 3 in the run).
* `ShoppingLists` - lists, items, purchases, corrections and links to tasks,
  statement by statement with the advisory lock of the key, the shared space, the
  unlocked reads and the conditional update. `ShoppingListsProofs` - the
  theorems.
* `TodayScreen` - the screen of the day, composed from a snapshot of each module
  while `SpaceClosure` goes on, with queries that may fail.

## The runs

All runs say `CHECK_DEADLOCK FALSE`: a closed space really stops, and so does a
ledger in which everything has been recorded, resolved and reversed that its
bounds admit. That requests do not block each other is checked by
`EveryRequestEnds`. Fairness is assumed in that run alone: everywhere else
requests may be abandoned at every step, nobody is obliged to answer, and the
code schedules nothing by itself.

An MC module gives the constants their values and, where one instance would be
too large, splits it into *situations*: an extra variable chosen in the initial
state that bounds what the rest of the behaviour may do. All bounds are in the
`.cfg`, in the `Bounds` of the MC module or in its next-state relation.

| run | instance | shows |
| --- | --- | --- |
| `closure` | two members, a recurrence, an installment plan, two dates; three situations: a space of one (8 versions, 2 writes to the books), one whose second member has just joined (10 versions, 3 writes, two destinations to choose from), one that is closed and reopened (14 versions, no other writes) | closure as agreed, no stale agreement, nothing applied or paid twice, effects only by the last approval, nobody calls off alone what both put into effect, the refinement of `ClosureAgreement` |
| `invitations` | three people, two requests at a time, one key each, 5 versions, 3 ticks, validity of one tick | one open invitation, true answers, retries answered, refinement of `InvitationCommands` |
| `ledger` | an expense of 2 + 1, adjusted to 1 + 1 or 2 + 2, and an agreement; up to 3 payments with 2 obligations and as many resolutions as make 3 with them, or one payment, the agreement, 3 obligations and 3 resolutions | one open obligation per source; what is owed follows from the facts; each bears their share; what was agreed is owed or resolved |
| `ledger_views` | the expense, and two cycles or one of them and the agreement, one payment (of at most 2 with both cycles or with the agreement), 3 obligations, 2 resolutions, pages of one item | the position, the lists and the histories tell one story; what a screen offers is accepted; a finalized cycle is frozen |
| `transactions` | two origins with two obligations each, two cycles, three situations: two requests of commands that lock the same rows in different orders, three of what a finalization meets, three of which one is the twin of another with a connection lost | one command at a time, nothing overwritten, nothing owed in a finalized cycle, twins answered from the receipt, every request ends |
| `recurring` | January to March 2027 and three days; a series on the 31st whose versions move to the 10th and to March, or one of a meter with values, payments, liabilities, adjustments and reversals | one occurrence a month, rows that can be read, screens and SQL that agree with the domain, previews that come true |
| `installments` | a shared plan of two installments of 1 and 2, two days; four payments and payoffs in all while it is as planned, one of each otherwise | what is left follows from the money; what is shown, offered and previewed is what happens |
| `routine` | 28 February to 1 March 2024; a daily and a monthly recurrence and a task with 4 commands, or two recurrences and a task read one item a page with 3; every rule that differs over 91 days for the calendars | the SQL counts and finds the dates of the domain; counters match items; no page skips or repeats |
| `shopping` | one list, one item, two purchases, two corrections, or two tasks linked to a list that is renamed and archived; two requests at a time, 7 asked, one connection lost | answers retold by the history, no refusal of what took effect, nothing linked to an archived list |
| `commitments` | an expense or an income of 2 or 3 among two members; three situations: payments of days gone by with a dearer version, changes proposed while others are made, the months of the review | the commitment can be read, what was shown is accepted, months add up, explain what is owed and are kept |
| `today_answered` | four stages of a closure of a space with a recurrence, 3 changes around the request, one failing query | what is answered does not contradict itself |
| `installments_reversed` | a personal plan of two installments, one payment, one payoff | *violated*: see the next section |

Why the bounds are enough. A complete bilateral closure takes start, a
destination, proposal, approval and two confirmations: 6 commands, and a cutoff
or a lone confirmation fits beside them. Calling off a closure that took effect
and completing another takes 12. Three writes to the books suffice for any of
the races of a closure: the effects of the plan, one to invalidate what was
agreed, one more to restore the same balance. One item before and one from the
cutoff on are what the code tells apart. Two concurrent requests are what a
conditional update has to arbitrate; the third person is the one who must not
get in. One key is the interesting case, since every request then collides with
the others of its actor; validity of one tick lets every invitation expire.

In the ledger amounts go up to 3, enough for an expense whose shares differ, for
partial payments, settlements and reversals of each, and for an excess in either
direction. Two obligations of one expense are one in each direction (the code
keeps one open at a time); the third is the one a correction registers because
the others are frozen in cycles, for which two cycles are needed, one finalized
and one to correct in. Two resolutions are one that is reversed and one that
stands; with an agreement, a third offsets the two sources. Three payments are a
first, one by the other member and one after a reversal. Of the transactions two
requests are enough for a deadlock of two rows in opposite orders, and the third
is the one that finalizes a cycle, or asks again, between the two.

Two installments are one that is paid and one that is left; three months are one
that gains a version, the one it moves to and the one it moves from; two days
are today and the day on which a version takes effect. A page of one item is the
smallest on which a cursor can go wrong.

## Where the code and its documentation disagree

One disagreement is kept as a run that TLC must find violated,
`installments_reversed`: a part of an installment of a personal commitment is
paid, the rest cancelled, and the payment reversed, which
`typeorm-financial-fulfillment-reversal.repository.ts:220` admits and the
constructor of the installment (`installment-plan.ts:266`) refuses from then on.

The other disagreements met while modelling are reproduced by the same modules
with other constants, and are not runs of their own. `Spec` and, unless said
otherwise, the constants of the run of that module:

| property | constants | what TLC shows |
| --- | --- | --- |
| `PlanCanBeRead` (`InstallmentPlans`) | shared, payments only, `Totals = {3}`, one fact and payoff | new terms are scheduled, the plan is paid off, and their day comes: they change the price of an installment that was resolved (`typeorm-installment-commitment.repository.ts:208`), and its constructor refuses it |
| `PlanCanBeRead` | `Deltas = {-1}`, no new terms | a payoff at a discount is reversed, one installment is paid and the other adjusted downwards: the plan is not read again before the commit (`typeorm-financial-correction.repository.ts:364`) and its remainder is negative |
| `PreviewedPayoffIsAccepted` | payments only, no adjustments, no new terms | the preview of a payoff includes an installment whose anticipation was reversed (`installment-commitment.ts:230`); the payoff is refused |
| `PlannedAsLeft` (`InstallmentViews`) | the same, two payoffs | an anticipation at a discount is reversed: the list of what is planned shows the amount it was planned at (`planned-today.query.ts:106`), another one than what is left |
| `WalkListsWhatStays` (`RoutineItems`) | one daily recurrence, pages of one item, one day | the first occurrence generated for a page is the one of the cursor (`routine-items.sql.ts:60`), so that the last page is taken to be the last too early: four are counted, three listed |
| `CommitmentCanBeRead` (`OneTimeCommitments`) | `Personal = TRUE`, `Paid = {3}`, one fact, a dearer version | a payment of the new price is dated the day before it (`non-recurring-version-selection.ts:21`), and the constructor compares it with the old one |
| `OwedAsRead` | expense, `Retroactive = TRUE`, a dearer version | the handler reconciles with the version of today what is read with the version of the first payment (`record-expense-disbursement.handler.ts:121`) |
| `CommitmentCanBeRead` | `Deltas = {-1}`, a cheaper version | an adjustment downwards, checked on the present version, applies to the later one too (`financial-commitment-adjustments.ts:191`) |
| `AcceptedAsShown` | `Deltas = {1}`, a dearer version | an adjustment proposed before a version takes effect is accepted after it, with other shares than were shown (`financial-commitment-changes.handler.ts:283`) |
| `OwedAsRead` | income in percentages | a reversal reconciles with the shares in cents (`financial-correction-origin.ts:10`): the transfer differs by a cent from the shares that are shown |
| `ListedByStatus` | income, adjusted to zero | it is listed as received and shown as pending (`typeorm-income.repository.ts:400`) |
| `UpcomingIsCounted` (`RecurringViews`) | a series on the 31st | from 28 February the horizon of a month ends before 31 March (`finance-today-buckets.sql.ts:33`): the next date is planned but not counted |
| `TodayIsListed` (`RecurringViews`) | a series on the 10th, changed to the 31st from the 15th of February, and the 12th of February | both the 10th and the 28th of February are due by their versions: the screen of the day shows one date for each version (`finance-today-buckets.sql.ts:23`), the listing and the projection the first of the month, so that the 28th is shown as coming and can be neither found nor paid |
| `MonthCanBeRead` (`FinancialReview`) | income, `Deltas = {-1}`, two days | what was received in a month is more than the income is after a later adjustment (`typeorm-financial-review-reader.ts:276`): the month can no longer be shown |

The runs claim the neighbouring property that does hold: `PlanIsShown` as long as
the plan is as planned, `NothingIsSkipped` for every page but the end of the
list, `CommitmentCanBeRead` and `AcceptedAsShown` for the versions and dates of
the run, `TodayIsListed` for versions of which no two are due in one month.

## The proofs

The theorems hold for all values of the constants that meet the named
assumptions of the modules, which TLC evaluates in the runs.

*The closure*, for all persons, origins, dates, choices and bounds (finite sets
of persons and origins, no commitment of both kinds, at least one date):

* Of the two rows, in `SpaceClosureProofs`: `TypeCorrect`, from `TypeInv`: types, and that an open
  process has cutoffs that are dates (an effect copies them into a date column)
  and a finite set of destinations. `ProcessCorrect`: the space and its process
  agree, from `TypeInv`, lemma `ProcessCommand` (how any command moves the two
  rows together) and `SameParties` (no operation on a plan touches its
  participants). `ConsentsCorrect`: `ConsentInv` adds that those who consent are
  participants: a second, different consent is then that of the other one of two,
  and the only consent that survives a step is the one recorded by it.
* Of the effects, in its second part: every command begins a process, discusses the plan of
  the open one, or applies the plan that it makes approved (`Begins`,
  `Discusses`, `Applies`). `EffectsInv` says what each origin's effect means for
  its items and its process; from it `PaymentsCorrect`, `ApplicationsCorrect`,
  `EffectsApproved` and `CancellationsCorrect`. `ClosureCorrect` needs besides
  that an approved plan of an open process has an effect for each destination.
  `AgreementCorrect` is the refinement of `ClosureAgreement`, step by step:
  `AgreedInv` adds that confirmations are of
  participants and of books no newer than the present, so that a write to the
  books really undoes what was agreed.

*Invitations*, for any persons, keys, validity and number of requests:
`SpaceInvitationsProofs` proves `TypeCorrect`, `OneOpen`, `RetriesAnswered`,
`AnswersTrue` and `CommandsAtomic`, the refinement of `InvitationCommands`. Its
`Inv` relates what a request has read to the version it read it at: if the
version has not moved, what it holds is what the tables hold (`SeenAs`), which
is why the conditional update is enough; and every receipt is borne out by the
tables (`BorneOut`), for ever, since answered invitations do not change.

*The ledger*, for all expenses, agreements, cycles, shares, adjustments and
bounds (two different members, expenses that are not agreements, `NoCycle` not a
cycle, shares in `Nat`, an adjustment never back to the first shares, a positive
largest amount):

* Of the obligations and cycles, in `SettlementLedgerProofs`: `TypeCorrect`,
  `OneOpen`, `NothingOpen`, `Frozen`.
  `TypeOK` is more than types: no fact is reversed beyond its amount, no more
  remains of an obligation than was recognized. Inductive `Inv`: these, that
  every cycle of an obligation exists (`CyclesExist`: a cycle finalized later
  must not hold an open obligation unnoticed), and that an agreement has
  obligations only once it was made (`AgreedBefore`). The relation `Writes` says
  that a step changes only obligations in open cycles or in none, appends others
  there, and leaves one open per source at most; there is a lemma per command
  (`ReconcileWrites`, `SettlementWrites`, ..., `ReversalWrites`), and
  `WritesKeepInv` shows that it is enough.
* Of the balances, in its second part: `AgreementsKept`, `SharesBorne`,
  `OutstandingFollows`. The balance of a source is what is open of it and what
  was resolved. A resolution moves an amount from one to the other, and so does a
  reversal (`TakingKeepsBalances`, `ReversingKeepsBalances`); a reconciliation
  makes what is open of its source what is due (`OwedAsDue`, from `MadeToSay`)
  and leaves the others alone. None of the three properties is inductive. What is
  (`BalanceInv`) says of an expense, case by case, what its balance is: a fact
  was reversed (the corrected difference); it is fully paid; nothing is paid of
  it; or it has neither been adjusted nor had a fact reversed, and then *the
  member who paid beyond their share is the creditor of all its obligations*:
  without the directions, an excess that was already resolved could not be told
  from one that was not, and `OutstandingFollowsFacts` would not survive the next
  payment. TLC checked `BalanceInv` on the instance of `ledger` before it was
  proved.
* Of the screens, in its third part: `DischargesAreTold` and `ScreensAgree`, which
  is `ViewsAgree` of the run `ledger_views` for any dates and any size of a page.
  Two invariants carry it. `DischargeInv`: what was discharged of an obligation
  (recognized less remaining), unless its cycle is finalized, is what the
  resolutions that have not been reversed took of it, and no waiver is ever
  reversed. `OffsetsHaveHalves`: what an offset takes of all its parts
  together is even, half of it on either side. With them each part of `ViewsAgree` is a fact about
  sums: the breakdown of an obligation is a sum split by the kinds of its
  resolutions (`SumOfUnion`); the histories, the cycles and the selection add up
  the same parts in classes (`SumOfClasses`, `SumOfNamed`); resolutions against
  obligations are the rows and the columns of one table (`SumExchanged`). That the
  pages list everything once the cursors are followed (`PagesOfEach`) rests on
  `AllIsPaged`: pages whose cursors lead on reach every item in as many steps as
  there are keys; `PagesDescend` and `PagesAscend` show the two orders of the
  queries to be such pages.

*The transactions*, for any commands, rows and number of requests:
`SettlementTransactionsProofs` proves `TypeCorrect`, `CyclesSettled`,
`OneAtATime`, `TwinReplayed` and `NothingLost`. Its `Inv` says what each request knows at each
statement because of the locks it holds: with its origins locked the rows are as
it read them, with its cycles locked they are as it saw them, or it is refused;
locks never conflict; a cycle that is not there yet is locked `FOR UPDATE` by
who inserts it. At the commit this is the guard of the command of
`SettlementCommands`.

That nothing is lost is proved of those one-step commands (`StepExecutes`: a
statement writes nothing, or carries out its command) from a second invariant,
`MoneyOK`: the rows of an origin are finitely many and each owes a natural number,
so that they can be added up; the keys that were used are finitely many; the
original of a reversal is a transfer or an offset, so that no key is reversed
before it is used. `CommandOwes` says what each command makes of what an origin
owes: a resolution takes one from every row it names, a fact adds one, a reversal
adds as many as the original resolved of that origin (`Rebalanced`: after a fact or
a reversal one row owes all of it). `ReconciledAfter` and `SettledAfter` say the
same of the receipts, and `BalancedNext` puts them together. The model drops a
difference when no obligation can take it up and no id is left for a new one, which
the database does not: `NothingLost` assumes `[]RoomIsLeft`, an id left for every
origin, and `NothingLostEver` concludes it from there being infinitely many
(`Inexhaustible`, with `MoneyOK`).

*Shopping*, for any commands, lists, items, purchases, tasks, keys and number of
requests (commands name lists, items and tasks that can exist, an item belongs
to one list, ids of what is created are not drawn twice, finitely many
purchases): `ShoppingListsProofs` proves `AnswersRetold`, `RefusalsTrue` and
`LinkedActive`, i.e. every property of the run. Its `Inv` has two halves.

* *The rows* (`RowsOK`): the history of a list numbers its commands by the
  version they left (`Numbered`), and tells of every item what the rows hold
  (`Tells`: the last need is what is desired, a removal is there if it is
  removed, the purchases told are its purchases and the last thing told of each
  is what it counts for); what a command creates is not there before its receipt
  (`Made`); every receipt is what the history tells up to its version
  (`ReceiptOK`), for ever, since what comes later has greater versions.
* *The requests* (`RequestOK`): what a request holds locks on is as it saw it
  (`Kept`); what it read without a lock is as it read it or the version of its
  list has moved (`SeenAs`), which the conditional update finds out; a request
  that was refused is `Outdated`: closed, archived, a later version, an item
  removed, or a quantity that is too much *and stays so until the version moves*.
  Whoever could carry out the same command later would find it outdated too.

A commit writes rows in one of nine ways; `Leaves` says once what it leaves,
`CommitLeaves` proves it of `Written`, and one lemma per part of `RowsOK` follows
from it. All other steps of a request change no row (`Moves`). TLC checked `Inv`
on the instance of `shopping` before it was proved.

*A recurring commitment*, for any calendar, terms, closures and bounds
(`RecurringAssumption`: days and months are natural numbers, the terms that can
be given have a rule the calendar knows and a positive amount):
`RecurringCommitmentsProofs` proves `CommitmentIsSound`, `CommitmentIsTyped`,
`NoMonthHasTwo`, `EveryRowIsKept`, `DoneOnWhatWasSeen` and
`MovedAndReversedAsSaid`, and of its screens `ListingsAgree`, `NextIsTheFirst`,
`SeriesIsShownAsListed` and `SeriesOfOneDay`, and of its previews
`EndsAsItWasShown` and `DoneAsItWasShown`. The invariant `CommitmentInv` has these
parts.

* No versions of the terms without a version of the series (`SeriesIsTyped`), and
  what was moved to a destination was materialized (`SpaceIsTyped`).
* `RowsAreSound`: every row can be read by its constructor and is priced by its
  own terms or by the value it was given. This is `RowsAreKept` and more: a row
  nothing was paid of has one version per value, without which a row that was
  given a value could not be told from one that was changed otherwise.
* `OneOccurrencePerMonth`: a row is made only when its month has none, since the
  date of a month is looked up among the rows before it is projected.
* `SeenIsTrue`: what a client has seen of a row is the row while the version it
  names is current, and what was projected for it is projected still while the
  series and the space have theirs. `DoneOnWhatWasSeen` and
  `MovedAndReversedAsSaid` follow from nothing else: a command names versions, not
  what was on the screen.

`RowBecomes` says once what any command does to a row, and there is a lemma per
operation on an occurrence (a fact, a payment of a debt, both reversals, a value,
an adjustment, a cancellation: each writes the status in its own way, and each
leaves the one the constructor demands).

*What the screens of a recurring commitment show* is computed several times over:
by the versions in memory, by the SQL of a month's listing, by the SQL of its
totals and by that of the screen of the day. `CommitmentInv` is not enough to show
that they agree; `ScheduleInv` adds that versions stay in the order in which they
take effect, that an agreed closure moves nothing before its cutoff, and that a
row without an amount is a cancelled one, and `DatesInv` that occurrences lie on
days, none before the commitment began (`ScheduleIsSound`, `DatesAreSound`).
`CalendarAssumption` says what days, months and terms are: those a calendar has
and the constructor accepts.

* `IsDue` says once when a version is due on a month. The projection is the first
  of what is due (`ProjectionIsFirst`), and the listing gives the same date or the
  row that stands for it. With that, `ListingsAgree` needs no hypothesis. Its last
  part, that an occurrence is divided whole, is the theorem about largest
  remainders: what rounding leaves is less than the number of members, and as many
  members as that get one more.
* `NextIsTheFirst` has a hypothesis on the constants, `SearchIsEnough`: the months
  that are shown do not go beyond those that are searched.
* The screen of the day schedules a date for each version, the listing one for a
  month. `SeriesIsShownAsListed` says that all screens agree in every state in
  which no two versions are due in one month (`OneIsDue`), which is where the table
  above has them disagree; `SeriesOfOneDay` has in its place a condition on the
  terms, that none moves the day of the month. What is due by today and the items
  of the screen are then the same dates (`DueAreItems`, `ItemsAreDue`), with the
  same amounts left (`IsListedItem`); the months are counted by their rank, since
  the code walks them by number and by interval (`MonthsBetweenAre`). That the
  older list of what is planned shows one of these items needs `YearIsEnough`: it
  looks twelve months back, and a commitment that is older may have something late
  that it does not show. TLC checked the three hypotheses and `DatesInv` on the
  instance of `recurring`.

*What the members are told before they change or end a recurring commitment* is
computed by projecting the series that would be, and what it does by the listing of
the months afterwards. One more invariant is needed: an open space has no cutoff
(`CutoffInv`), so that a series that can still be changed has neither an end nor a
closure that moves anything (`OpenIs`).

* After a termination nothing is projected past the end, so only rows are left
  there: `EndsAsItWasShown` has no hypothesis.
* A change appends a version. What was due before it takes effect stays due, and
  from there on only the last version was (`DueAfterChange`); a month without a row
  projects either what it did or the new terms, in the place of the old last ones
  or of nothing (`ProjectedInMonth`). The dates of the preview are then those listed
  (`ChangeLists`). The preview covers `Window` months, and `WindowIsEnough` says
  that the months compared are among them: of later ones nothing is promised.
* A member who is not asked bears no more: the code compares, month by month, the
  amounts of fixed terms and the shares of variable ones, and in total their
  weights, from which it follows for the amount itself, whatever is read. Of fixed
  terms that become variable only the totals tell: a month alone may show the same
  share, now of an amount nobody knows (`ExposedToNoMore`). That a smaller share is never a
  cent more needs that the space has two members (`TwoMembers`; a space accepts no
  third, `space.ts:522`): of two each bears its part rounded to the nearest
  (`NearestPart`, `SmallerPart`). Of three the cents left go by the largest
  remainder, which the shares of the others decide, and a member whose share is
  unchanged may bear one more. TLC checked both hypotheses and `CutoffInv` on the
  instance of `recurring`.

*An installment plan*, for any installments, dates, amounts and bounds (positive
amounts and payments, integer adjustments): `InstallmentPlansProofs` proves
`PlanIsSound` and `RemainingFollows`. `RemainingFollowsMoney` is not inductive:
once a payoff stands, nothing in it ties the amount of the payoff to the
installments it resolved. `PlanInv` does. Every payoff but the last has been
reversed (`OnePayoffStands`); the one that stands is of what the installments it
resolved had left, with what earlier payoffs were dearer or cheaper, and without
it no installment is resolved by one (`PayoffCoversItems`). Only three commands
resolve anything (`PayOff`, `ReversePayoff`, `CancelFuture`); of all others it is
enough that they leave every installment resolved as it was (`OnlyPays`). What
is left then follows installment by installment (`ContributionIsLeft`, where the
constructor compares what was resolved with what the installment costs) and
payoff by payoff (`PayoffsContribute`). TLC checked `PlanInv` on the instance of
`installments` before it was proved.

`SumTheorems` states what the proofs need about the sums of the community
modules (a sum over one more, over others, over the same values, of a sequence to
which something is appended, of a function of which one value is replaced, within
a set closed under addition, over disjoint classes, over a table by rows or by
columns). They are folds, defined by recursion over finite sets;
the library's induction theorems take an operator as a parameter, which the
provers cannot instantiate, so the sums are proved from a least counterexample:
among the subsets for which a fact fails, one of least cardinality.

`ProcessMatchesStatus`, `NothingOpenInFinalized` and the type invariants are
proved only; the other properties named are also checked by a run.

Only model-checked:

* liveness (`EveryRequestEnds`): out of the prover's reach, as is `ENABLED`;
* `OfferedIsAccepted`: that a command offered by a screen can be carried out is a
  statement about `ENABLED`;
* the screens of installments (`PlanIsShown`): two computations of the same data,
  compared over bounded inputs;
* the one-time commitments, routine and today, and of installments what their
  screens show: those modules were built for runs, and `InstallmentViews` declares
  a recursive operator and cannot be used from a proof.

## What is left

1. *More theorems*: the one-time commitments, and the screens of installments, once
   `InstallmentViews` is written without a recursive operator.
2. *Models*: the acceptance of changes for installments and recurrences, the
   difference of an income in `SettlementLedger`, the obligations of occurrences,
   the default settlement rule, sessions.

Not modelled: HTTP, validation, OpenAPI and migrations (formatting and
declaration; the unique indexes that commands rely on are named where they are
modelled); identity; personal spaces and access queries, which only read.
