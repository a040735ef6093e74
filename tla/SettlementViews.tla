-------------------------- MODULE SettlementViews --------------------------
(***************************************************************************)
(* What the members are shown of the ledger: the position between them,    *)
(* the cycles with their totals, the histories, and the commands a screen  *)
(* offers, with the amounts it fills in beforehand.                        *)
(*                                                                         *)
(* A reader runs in one snapshot and changes nothing.  Lists are paged by  *)
(* the order of registration, which is that of the indices; a cursor is    *)
(* the index of the last item of a page, and carries the filters it was    *)
(* made for.  Of the space only an open one is considered: in a closed one *)
(* nothing is offered.                                                     *)
(***************************************************************************)
EXTENDS SettlementLedger, FiniteSetsExt

CONSTANTS TargetDate,   \* the date of every cycle
          PageSize,     \* the items of a page, and of a preview in each
                        \* direction (20 in the code)
          MaxToday      \* bound on the reference date

ASSUME DatesAssumption ==
    /\ MaxToday \in Nat \ {0}
    /\ TargetDate \in [Cycles -> 1 .. MaxToday]
    /\ \A c, d \in Cycles : TargetDate[c] = TargetDate[d] => c = d
ASSUME PagesAssumption == PageSize \in Nat \ {0}

Directions == {"ALL", "PAYABLE", "RECEIVABLE"}
Start      == 0  \* the key of the first page
NoCursor   == [filters |-> <<>>, key |-> Start]

-----------------------------------------------------------------------------
(***************************************************************************)
(* Sums and pages of obligations, as one of the members sees them.         *)
(***************************************************************************)
IsSeenAs(direction, actor, i) ==
    \/ direction = "ALL"
    \/ direction = "PAYABLE" /\ obligations[i].debtor = actor
    \/ direction = "RECEIVABLE" /\ obligations[i].debtor = Other(actor)

SeenAs(direction, actor, ids) == {i \in ids : IsSeenAs(direction, actor, i)}

Remaining(ids)  == SumFunction([i \in ids |-> obligations[i].remaining])
Recognized(ids) == SumFunction([i \in ids |-> obligations[i].recognized])

\* A page: the first PageSize that come after the key of the cursor.  Obligations
\* are listed from the last registered, cycles by their dates.
PageOf(ids, after) ==
    LET rest == {i \in ids : after = Start \/ i < after}
    IN  {i \in rest : Cardinality({j \in rest : j >= i}) <= PageSize}

PageOfCycles(S, after) ==
    LET rest == {c \in S : after = Start \/ TargetDate[c] > after}
    IN  {c \in rest : Cardinality({d \in rest : TargetDate[d] <= TargetDate[c]})
                          <= PageSize}

\* A cursor is given if there is one more than the page, and carries what the page
\* was read for; one that was given for anything else is refused.
NextCursor(filters, ids, after) ==
    LET page == PageOf(ids, after)
    IN  IF \E i \in ids : \A j \in page : i < j
        THEN [filters |-> filters, key |-> Min(page)]
        ELSE NoCursor

NextCursorOfCycles(filters, S, after) ==
    LET dates == {TargetDate[c] : c \in PageOfCycles(S, after)}
    IN  IF \E c \in S : \A n \in dates : TargetDate[c] > n
        THEN [filters |-> filters, key |-> Max(dates)]
        ELSE NoCursor

IsAccepted(cursor, filters) == cursor # NoCursor /\ cursor.filters = filters

PositionSummary(payable, receivable) ==
    [payable    |-> payable,
     receivable |-> receivable,
     direction  |-> IF payable > receivable THEN "PAYABLE"
                    ELSE IF payable < receivable THEN "RECEIVABLE"
                    ELSE "BALANCED",
     net        |-> Abs(payable - receivable)]

SummaryOf(actor, ids) ==
    PositionSummary(Remaining(SeenAs("PAYABLE", actor, ids)),
                    Remaining(SeenAs("RECEIVABLE", actor, ids)))

-----------------------------------------------------------------------------
(***************************************************************************)
(* The position, and the obligations with what has been resolved of them.  *)
(***************************************************************************)
PositionRead(actor, direction) ==
    LET open == OpenIds(obligations, Ids)
    IN  [payable    |-> Remaining(SeenAs("PAYABLE", actor, open)),
         receivable |-> Remaining(SeenAs("RECEIVABLE", actor, open)),
         items      |-> SeenAs(direction, actor, open)]

Position(actor, direction, after) ==
    LET read == PositionRead(actor, direction)
    IN  [summary |-> PositionSummary(read.payable, read.receivable),
         items   |-> PageOf(read.items, after),
         next    |-> NextCursor(<<actor, direction>>, read.items, after)]

\* What the resolutions of a kind have taken of an obligation, and what of it was
\* given back: the reversed applications keep the obligation they were made to.
OfKind(kind) == {k \in DOMAIN resolutions : resolutions[k].kind = kind}
Of(kind, i)  == {k \in OfKind(kind) : i \in DOMAIN resolutions[k].parts}

Applied(kind, i) ==
    SumFunction([k \in Of(kind, i) |-> resolutions[k].parts[i].amount])

Reversed(kind, i) ==
    SumFunction([k \in {k \in Of(kind, i) : resolutions[k].reversed} |->
                    resolutions[k].parts[i].amount])

ObligationView(i) ==
    [recognized  |-> obligations[i].recognized,
     remaining   |-> obligations[i].remaining,
     resolved    |-> obligations[i].recognized - obligations[i].remaining,
     transferred |-> Applied("TRANSFER", i) - Reversed("TRANSFER", i),
     compensated |-> Applied("OFFSET", i) - Reversed("OFFSET", i),
     waived      |-> Applied("WAIVER", i)]

-----------------------------------------------------------------------------
(***************************************************************************)
(* The cycles.  What was settled in a cycle is told by the cycle its       *)
(* allocations were made in, what is owed in it by that of the obligations *)
(* now.                                                                    *)
(***************************************************************************)
InCycle(c) == {i \in Ids : obligations[i].cycle = c}
Existing   == {c \in Cycles : cycles[c] # "ABSENT"}

PartsIn(kind, S) ==
    UNION {{<<k, i>> : i \in {i \in DOMAIN resolutions[k].parts :
                                 resolutions[k].parts[i].cycle \in S}} :
           k \in OfKind(kind)}

AmountOf(parts) ==
    SumFunction([p \in parts |-> resolutions[p[1]].parts[p[2]].amount])

AppliedIn(kind, S)  == AmountOf(PartsIn(kind, S))
ReversedIn(kind, S) ==
    AmountOf({p \in PartsIn(kind, S) : resolutions[p[1]].reversed})

CycleTotals(S) ==
    LET ids == UNION {InCycle(c) : c \in S}
    IN  [recognized  |-> Recognized(ids),
         remaining   |-> Remaining(ids),
         resolved    |-> Recognized(ids) - Remaining(ids),
         transferred |-> AppliedIn("TRANSFER", S) - ReversedIn("TRANSFER", S),
         compensated |-> AppliedIn("OFFSET", S) - ReversedIn("OFFSET", S),
         waived      |-> AppliedIn("WAIVER", S)]

IsOverdue(c, today) ==
    /\ cycles[c] = "OPEN"
    /\ TargetDate[c] < today
    /\ Remaining(InCycle(c)) > 0

Views == {"OPEN", "FINALIZED", "UPCOMING", "OVERDUE"}

ListedIn(view, today) ==
    CASE view = "OPEN"      -> {c \in Cycles : cycles[c] = "OPEN"}
      [] view = "FINALIZED" -> Finalized
      [] view = "UPCOMING"  -> {c \in Cycles : /\ cycles[c] = "OPEN"
                                               /\ TargetDate[c] >= today}
      [] view = "OVERDUE"   -> {c \in Cycles : IsOverdue(c, today)}

\* A page of the views that depend on the date is of that date only.
ListFilters(view, today) ==
    <<view, IF view \in {"UPCOMING", "OVERDUE"} THEN today ELSE 0>>

ListPage(view, today, after) ==
    [items |-> PageOfCycles(ListedIn(view, today), after),
     next  |-> NextCursorOfCycles(ListFilters(view, today),
                                  ListedIn(view, today), after)]

\* The cycles of the home screen: the next one, and those that are overdue.
TodayCycles(today) ==
    LET upcoming == ListedIn("UPCOMING", today)
    IN  [next    |-> {c \in upcoming : \A d \in upcoming :
                                          TargetDate[c] <= TargetDate[d]},
         overdue |-> ListedIn("OVERDUE", today)]

CycleDetail(c, actor, direction, after) ==
    LET open == OpenIds(obligations, InCycle(c))
        seen == SeenAs(direction, actor, InCycle(c))
    IN  [totals      |-> CycleTotals({c}),
         position    |-> SummaryOf(actor, InCycle(c)),
         canFinalize |-> cycles[c] = "OPEN" /\ open = {},
         items       |-> PageOf(seen, after),
         next        |-> NextCursor(<<actor, c, direction>>, seen, after)]

\* Several cycles at once: the same totals, and the transfers that touch them.
SelectedCycles(S, actor) ==
    LET ids == UNION {InCycle(c) : c \in S}
    IN  [totals          |-> CycleTotals(S),
         position        |-> SummaryOf(actor, ids),
         grossPayable    |-> Recognized(SeenAs("PAYABLE", actor, ids)),
         grossReceivable |-> Recognized(SeenAs("RECEIVABLE", actor, ids)),
         transfers       |-> {p[1] : p \in PartsIn("TRANSFER", S)}]

SelectedObligations(S, actor, direction) ==
    SeenAs(direction, actor, UNION {InCycle(c) : c \in S})

SelectedPage(S, actor, direction, after) ==
    LET seen == SelectedObligations(S, actor, direction)
    IN  [items |-> PageOf(seen, after),
         next  |-> NextCursor(<<actor, S, direction>>, seen, after)]

-----------------------------------------------------------------------------
(***************************************************************************)
(* The histories, of all the resolutions of a kind or of those that touch  *)
(* a cycle or an obligation; NoCycle and 0 filter nothing.                 *)
(***************************************************************************)
FilteredParts(k, c, i) ==
    {j \in DOMAIN resolutions[k].parts :
        /\ c = NoCycle \/ resolutions[k].parts[j].cycle = c
        /\ i = 0 \/ j = i}

History(kind, c, i) ==
    {k \in OfKind(kind) : FilteredParts(k, c, i) # {}}

AppliedInFilter(k, c, i) ==
    SumFunction([j \in FilteredParts(k, c, i) |-> resolutions[k].parts[j].amount])

HistoryPage(kind, c, i, after) ==
    LET found == History(kind, c, i)
    IN  [items |-> PageOf(found, after),
         next  |-> NextCursor(<<kind, c, i>>, found, after)]

TransferHistory(c, i, after) == HistoryPage("TRANSFER", c, i, after)
OffsetHistory(c, i, after)   == HistoryPage("OFFSET", c, i, after)

Waivers(i) == History("WAIVER", NoCycle, i)

WaiverHistory(i, after) ==
    [items |-> PageOf(Waivers(i), after),
     next  |-> NextCursor(<<"WAIVER", NoCycle, i>>, Waivers(i), after)]

\* A transfer or an offset with what is left of it after its reversal.
ViewOf(k, amount) ==
    [amount    |-> amount,
     effective |-> IF resolutions[k].reversed THEN 0 ELSE amount,
     cycles    |-> {resolutions[k].parts[j].cycle :
                      j \in DOMAIN resolutions[k].parts} \ {NoCycle}]

TransferView(k) == ViewOf(k, AppliedInFilter(k, NoCycle, 0))
OffsetView(k)   == ViewOf(k, AppliedInFilter(k, NoCycle, 0) \div 2)

-----------------------------------------------------------------------------
(***************************************************************************)
(* The commands that are offered.                                          *)
(***************************************************************************)
Offerable(ids) ==
    {i \in OpenIds(obligations, ids) :
        \/ obligations[i].cycle = NoCycle
        \/ cycles[obligations[i].cycle] = "OPEN"}

\* Those a member can pay, or be paid; NoCycle stands for all cycles.
TransferOptions(actor, direction, c) ==
    SeenAs(direction, actor,
           Offerable(IF c = NoCycle THEN Ids ELSE InCycle(c)))

\* The offset of the obligations in a scope, given by cycles and by obligations.
InScope(scope) ==
    {i \in Ids : obligations[i].cycle \in scope.cycles \/ i \in scope.ids}

CyclesOfScope(scope) ==
    scope.cycles \cup ({obligations[i].cycle : i \in scope.ids} \ {NoCycle})

\* By the date of the cycle, those in no cycle last, then as registered.
IsOfferedBefore(i, j) ==
    LET date(n) == IF obligations[n].cycle = NoCycle THEN MaxToday + 1
                   ELSE TargetDate[obligations[n].cycle]
    IN  date(i) < date(j) \/ (date(i) = date(j) /\ i < j)

Candidates(ids) ==
    {i \in ids :
        Cardinality({j \in ids : j = i \/ IsOfferedBefore(j, i)}) <= PageSize}

\* Mistake: as much is offered of either side as there is of it.
FilledInFull(ids, amount) ==
    [i \in Candidates(ids) |-> obligations[i].remaining]

\* The amount is taken from the candidates in order.
FilledIn(ids, amount) ==
    LET before(i) == {j \in Candidates(ids) : IsOfferedBefore(j, i)}
    IN  [i \in {i \in Candidates(ids) : Remaining(before(i)) < amount} |->
            Min({obligations[i].remaining, amount - Remaining(before(i))})]

OffsetOptions(actor, scope) ==
    LET eligible   == Offerable(InScope(scope))
        payable    == SeenAs("PAYABLE", actor, eligible)
        receivable == SeenAs("RECEIVABLE", actor, eligible)
        maximum    == Min({Remaining(payable), Remaining(receivable)})
        amount     == Min({maximum, Remaining(Candidates(payable)),
                           Remaining(Candidates(receivable))})
        left       == FilledIn(payable, amount)
        right      == FilledIn(receivable, amount)
    IN  [canRecord   |-> /\ CyclesOfScope(scope) \cap Finalized = {}
                         /\ maximum > 0,
         maximum     |-> maximum,
         amount      |-> amount,
         allocations |-> [i \in DOMAIN left \cup DOMAIN right |->
                             IF i \in DOMAIN left THEN left[i] ELSE right[i]]]

WaiverOption(actor, i) ==
    /\ obligations[i].debtor = Other(actor)
    /\ obligations[i].cycle \notin Finalized
    /\ obligations[i].remaining > 0

\* The cycles an obligation may be moved to, and whether it may.
AssignableCycles == {c \in Cycles : cycles[c] = "OPEN"}

AssignmentOptions(i) ==
    [eligible |-> /\ obligations[i].cycle \notin Finalized
                  /\ obligations[i].remaining > 0,
     cycles   |-> AssignableCycles]

\* The reversal of a transfer or of an offset, with what it makes each source owe.
ReversalOptions(k) ==
    LET parts   == DOMAIN resolutions[k].parts
        sources == {obligations[i].source : i \in parts}
        needs   == CorrectedParts(k) # {}
        plan(s) == ReversalPlan(k, s, NoCycle)
        signed(s, i) ==
            Signed(obligations[i],
                   IF i \in plan(s).changed
                   THEN Remainder(i, plan(s).reused, plan(s).net)
                   ELSE obligations[i].remaining)
    IN  [reason |-> IF resolutions[k].reversed THEN "ALREADY_REVERSED"
                    ELSE IF needs THEN "CORRECTION_CYCLE_REQUIRED"
                    ELSE "NONE",
         impact |-> [s \in IF resolutions[k].reversed THEN {} ELSE sources |->
                        IF plan(s).reused = {}
                        THEN plan(s).net
                        ELSE SumFunction([i \in plan(s).reused |-> signed(s, i)])]]

-----------------------------------------------------------------------------
(***************************************************************************)
(* What is offered is accepted, by the command as it is carried out.       *)
(***************************************************************************)
One(i, n) == [j \in {i} |-> n]

TransfersAreAccepted ==
    \A m \in Parties, i \in Ids :
        i \in TransferOptions(m, "PAYABLE", NoCycle)
            <=> \E n \in Amounts : ENABLED Transfer(m, One(i, n))

WaiversAreAccepted ==
    \A m \in Parties, i \in Ids :
        WaiverOption(m, i)
            <=> \E n \in Amounts : ENABLED WaiveObligation(m, i, n)

OffsetsAreAccepted ==
    \A m \in Parties, S \in SUBSET Existing, ids \in SUBSET Ids :
        LET offer == OffsetOptions(m, [cycles |-> S, ids |-> ids])
        IN  offer.canRecord => /\ Cardinality(DOMAIN offer.allocations) > 1
                               /\ ENABLED Offset(offer.allocations)

AssignmentsAreAccepted ==
    \A i \in Ids :
        \A c \in AssignmentOptions(i).cycles :
            AssignmentOptions(i).eligible <=> ENABLED MoveObligation(i, c)

FinalizationsAreAccepted ==
    \A c \in Existing, m \in Parties :
        CycleDetail(c, m, "ALL", 0).canFinalize <=> ENABLED FinalizeCycle(c)

\* The reversal, and every source left as the offer said.
ReversesAsShown(k, c) ==
    LET impact == ReversalOptions(k).impact
    IN  /\ ReverseSettlement(k, c)
        /\ \A s \in DOMAIN impact :
               Outstanding(obligations', IdsOf(s)') = impact[s]

\* The model has no room for the obligations a reversal might register.
IsRoomFor(offer) ==
    Len(obligations) + Cardinality(DOMAIN offer.impact) <= MaxObligations

ReversalsAreAccepted ==
    \A k \in {k \in DOMAIN resolutions : resolutions[k].kind # "WAIVER"} :
        LET offer == ReversalOptions(k)
        IN  IsRoomFor(offer) =>
                /\ (offer.reason = "NONE") <=> ENABLED ReversesAsShown(k, NoCycle)
                /\ \A c \in ListedIn("OPEN", 1) :
                       (offer.reason = "CORRECTION_CYCLE_REQUIRED")
                           <=> ENABLED ReversesAsShown(k, c)

\* The screens that offer a transfer, an offset with its amounts, a waiver, another
\* cycle, a finalization or a reversal offer what the handlers then accept, and a
\* reversal leaves of every expense what its screen said it would.
OfferedIsAccepted ==
    /\ Len(resolutions) < MaxResolutions =>
           TransfersAreAccepted /\ WaiversAreAccepted /\ OffsetsAreAccepted
    /\ AssignmentsAreAccepted
    /\ FinalizationsAreAccepted
    /\ ReversalsAreAccepted

-----------------------------------------------------------------------------
(***************************************************************************)
(* The screens tell one story.                                             *)
(***************************************************************************)
\* What is resolved of an obligation is what its resolutions took of it, less what
\* was given back.  In a finalized cycle nothing is given back to it any more: the
\* correction is another obligation.
BreakdownAddsUp ==
    \A i \in Ids :
        LET view == ObligationView(i)
        IN  obligations[i].cycle \notin Finalized =>
                view.resolved = view.transferred + view.compensated + view.waived

\* Whatever the date, all that is owed is in a cycle that is listed, or in none.
PositionIsListed ==
    \A m \in Parties, today \in 1 .. MaxToday :
        LET loose  == {i \in Ids : obligations[i].cycle = NoCycle}
            listed == ListedIn("UPCOMING", today) \cup TodayCycles(today).overdue
        IN  Position(m, "ALL", 0).summary =
                SummaryOf(m, loose \cup UNION {InCycle(c) : c \in listed})

HistoriesAddUp ==
    \A kind \in {"TRANSFER", "OFFSET", "WAIVER"} :
        /\ \A c \in Existing :
               SumFunction([k \in History(kind, c, 0) |-> AppliedInFilter(k, c, 0)])
                   = AppliedIn(kind, {c})
        /\ \A i \in Ids :
               SumFunction([k \in History(kind, NoCycle, i) |->
                               AppliedInFilter(k, NoCycle, i)])
                   = Applied(kind, i)

\* A transfer is what its parts are, an offset half of that, on either side; what is
\* left of them is what the obligations show.
ResolutionsAddUp ==
    /\ SumFunction([k \in OfKind("TRANSFER") |-> TransferView(k).effective])
           = SumFunction([i \in Ids |-> ObligationView(i).transferred])
    /\ 2 * SumFunction([k \in OfKind("OFFSET") |-> OffsetView(k).effective])
           = SumFunction([i \in Ids |-> ObligationView(i).compensated])

\* The cycles selected together show what they show one by one, and the transfers
\* that any of them shows.
SelectionAddsUp ==
    \A S \in SUBSET Existing, m \in Parties :
        LET selected == SelectedCycles(S, m)
        IN  /\ \A field \in DOMAIN selected.totals :
                   selected.totals[field] =
                       SumFunction([c \in S |->
                           CycleDetail(c, m, "ALL", Start).totals[field]])
            /\ selected.grossPayable + selected.grossReceivable
                   = selected.totals.recognized
            /\ selected.transfers =
                   UNION {History("TRANSFER", c, 0) : c \in S}

\* The keys of the pages that follow one another, in n steps at most; NoCursor ends
\* them.
Following(pages, filters, keys) ==
    {cursor.key : cursor \in {c \in {pages[a].next : a \in keys} :
                                 IsAccepted(c, filters)}}

Keys(pages, filters, n) ==
    LET key[k \in 0 .. n] ==
            IF k = 0 THEN {Start} ELSE Following(pages, filters, key[k - 1])
    IN  UNION {key[k] : k \in 0 .. n}

ArePaged(all, pages, filters, n) ==
    all = UNION {pages[a].items : a \in Keys(pages, filters, n)}

PagesListAll ==
    /\ \A m \in Parties, direction \in Directions :
           ArePaged(PositionRead(m, direction).items,
                    [a \in 0 .. Len(obligations) |-> Position(m, direction, a)],
                    <<m, direction>>, Len(obligations))
    /\ \A view \in Views, today \in 1 .. MaxToday :
           ArePaged(ListedIn(view, today),
                    [a \in 0 .. MaxToday |-> ListPage(view, today, a)],
                    ListFilters(view, today), MaxToday)
    /\ \A c \in Existing \cup {NoCycle}, i \in Ids \cup {0} :
           /\ ArePaged(History("TRANSFER", c, i),
                       [a \in 0 .. Len(resolutions) |-> TransferHistory(c, i, a)],
                       <<"TRANSFER", c, i>>, Len(resolutions))
           /\ ArePaged(History("OFFSET", c, i),
                       [a \in 0 .. Len(resolutions) |-> OffsetHistory(c, i, a)],
                       <<"OFFSET", c, i>>, Len(resolutions))
    /\ \A i \in Ids :
           ArePaged(Waivers(i),
                    [a \in 0 .. Len(resolutions) |-> WaiverHistory(i, a)],
                    <<"WAIVER", NoCycle, i>>, Len(resolutions))
    /\ \A S \in SUBSET Existing, m \in Parties, direction \in Directions :
           ArePaged(SelectedObligations(S, m, direction),
                    [a \in 0 .. Len(obligations) |-> SelectedPage(S, m, direction, a)],
                    <<m, S, direction>>, Len(obligations))

\* The position, the lists of cycles, the obligations and the histories, each read
\* by queries of their own and page by page, agree on what is owed and on what has
\* been resolved.
ViewsAgree ==
    /\ BreakdownAddsUp
    /\ PositionIsListed
    /\ HistoriesAddUp
    /\ ResolutionsAddUp
    /\ SelectionAddsUp
    /\ PagesListAll
=============================================================================
