---------------------------- MODULE TodayScreen ----------------------------
(***************************************************************************)
(* The screen of the day of a shared space, put together by TodayQuery     *)
(* from what the finances, the routine, the shopping and the closure hold  *)
(* of it.  Each of them is read in a snapshot of its own, the finances,    *)
(* the routine and the shopping at the same time and the closure after     *)
(* them, while the members go on (SpaceClosure, and the agenda below) and  *)
(* while the database may fail any of the queries.                         *)
(*                                                                         *)
(* Who a member is never changes and nobody leaves a space (the status of  *)
(* a member is ACTIVE by a constraint of its table), so that of the checks *)
(* of the access made before and after each read only the failure of their *)
(* queries is left.  Of what is read, a preview keeps the kinds of its     *)
(* first items and their total; the routine and the shopping hold one      *)
(* thing to do, or nothing.                                                *)
(***************************************************************************)
EXTENDS SpaceClosure, Sequences, TLC

Seqs == INSTANCE SequencesExt

CONSTANTS
    Agendas,          \* what the cycles and proposals of the space may be
    AttentionLimit,   \* the items shown of what needs attention
    BlockLimit,       \* the items shown in another block
    SourceLimit,      \* the items a source gives of anything but cycles
    CycleLimit,       \* the overdue cycles a source gives
    MaxChanges,       \* bound on what happens around the request
    MaxFailures       \* bound on the queries that fail

ASSUME LimitsAssumption ==
    /\ {AttentionLimit, BlockLimit, SourceLimit, CycleLimit} \subseteq Nat \ {0}
    /\ AttentionLimit <= CycleLimit /\ AttentionLimit <= SourceLimit
    /\ BlockLimit <= SourceLimit
    /\ {MaxChanges, MaxFailures} \subseteq Nat

VARIABLES
    agenda,    \* the open cycles, those with something owed, and the proposals
    request,   \* the request of a member, with what it has read so far
    changes,   \* the steps of others there were
    failures   \* the queries that failed

screenVars == <<vars, agenda, request, changes, failures>>

NotRead     == [status |-> "NOT_READ"]
Unavailable == [status |-> "UNAVAILABLE"]
Broken      == [status |-> "REJECTED"]
Available(data) == [status |-> "AVAILABLE", data |-> data]

NoRequest ==
    [stage |-> "IDLE", finance |-> NotRead, routine |-> NotRead,
     shopping |-> NotRead, closure |-> NotRead]

Preview(kind, count, limit) ==
    [items |-> [i \in 1 .. Seqs!Min({count, limit}) |-> kind], total |-> count]

-----------------------------------------------------------------------------
(***************************************************************************)
(* What the sources read.                                                  *)
(***************************************************************************)
\* TypeOrmSpaceFinancialContext.read
Cutoff == IF process.status = "OPEN" THEN plan.cutoff ELSE NoDate

Context == [members |-> members, cutoff |-> Cutoff, process |-> process.number]

Due(origin) ==
    {d \in OpenItems(books, origin) :
        origin \in Recurring /\ Cutoff # NoDate => d < Cutoff}

Commitments(dates) == {o \in Origins : Due(o) \cap dates # {}}

Committed(dates) ==
    Preview("COMMITMENT", Cardinality(Commitments(dates)), SourceLimit)

\* SettlementCycleReader.today: the cycles in which something is overdue, and the first of
\* those to come.
OverdueCycles(day) ==
    Preview("CYCLE", Cardinality({c \in agenda.owed : c < day}), CycleLimit)

NextCycle(day) ==
    Preview("CYCLE", Cardinality({c \in agenda.open : c >= day}), 1).items

\* GetFinanceTodayQuery.read
Settlements(day) ==
    [members |-> members, overdue |-> OverdueCycles(day), next |-> NextCycle(day)]

\* FinanceTodayCompositionQuery.readInSnapshot: it reads the cutoff again.
FinanceToday(day) ==
    [settlements |-> Settlements(day),
     cutoff      |-> Cutoff,
     process     |-> process.number,
     proposals   |-> Preview("PROPOSAL", agenda.proposals, SourceLimit),
     overdue     |-> Committed({d \in Dates : d < day}),
     today       |-> Committed({day}),
     upcoming    |-> Committed({d \in Dates : d > day})]

ToDo(kind) == Preview(kind, IF work THEN 1 ELSE 0, SourceLimit)

\* shoppingAttentionSql
ShoppingToday == ToDo("SHOPPING_LIST")

\* RoutineTodayQuery: a task that is due, as one that needs attention or not.
RoutineToday(late) ==
    LET none == Preview("TASK", 0, SourceLimit)
    IN  [attention |-> IF late THEN ToDo("TASK") ELSE none,
         today     |-> IF late THEN none ELSE ToDo("TASK"),
         tasks     |-> ToDo("TASK")]

\* nextAction
NextAction(m) ==
    IF status # "CLOSING" \/ process.status # "OPEN" THEN "READ_ONLY"
    ELSE IF plan.consents # {}
    THEN IF \E c \in plan.consents : c.member = m
         THEN "WAIT_CANCELLATION" ELSE "APPROVE_CANCELLATION"
    ELSE IF plan.status = "APPROVED" THEN "REVIEW_CLOSURE"
    ELSE IF plan.status = "PROPOSED"
    THEN IF \E a \in plan.approvals : a.member = m
         THEN "WAIT_APPROVAL" ELSE "REVIEW_PLAN"
    ELSE "PROPOSE_PLAN"

\* TypeOrmSpaceClosure.read: the open process, or the last one there was.
NoClosure == [status |-> "NONE", process |-> 0]

ClosureView(m) ==
    IF process.status = "NONE" THEN NoClosure
    ELSE [status  |-> status,
          process |-> process.number,
          cutoff  |-> plan.cutoff,
          action  |-> NextAction(m)]

-----------------------------------------------------------------------------
(***************************************************************************)
(* The request.                                                            *)
(***************************************************************************)
World == <<vars, agenda, changes>>

Fails ==
    /\ failures < MaxFailures
    /\ failures' = failures + 1

Reads(source, result) ==
    /\ request' = [request EXCEPT ![source] = result]
    /\ UNCHANGED World

\* findAccessible
CanRead(m) == m \in members

\* execute, up to the sources: the day is that of this instant in all of them.
Ask(m) ==
    /\ request.stage = "IDLE"
    /\ CanRead(m)
    /\ request' = [request EXCEPT !.stage = "SOURCES"]
                      @@ [by |-> m, day |-> today]
    /\ UNCHANGED <<World, failures>>

\* FinanceTodayCompositionQuery.read: the access and the context, the snapshot, and both
\* again.  A failure of the snapshot only makes the finances unavailable, once access and
\* context were confirmed; a failure of the other queries is that of the screen.
FinanceBegins ==
    /\ request.stage = "SOURCES" /\ request.finance.status = "NOT_READ"
    /\ \/ /\ Reads("finance", [status |-> "BEGUN", context |-> Context])
          /\ UNCHANGED failures
       \/ Fails /\ Reads("finance", Broken)

FinanceReads ==
    /\ request.stage = "SOURCES" /\ request.finance.status = "BEGUN"
    /\ \E outcome \in {Available(FinanceToday(request.day)), Unavailable} :
        /\ Reads("finance", [status  |-> "READ",
                             context |-> request.finance.context,
                             outcome |-> outcome])
        /\ IF outcome = Unavailable THEN Fails ELSE UNCHANGED failures

\* Mistake: the cutoff is not looked at again.
AsMembersConfirm(context, outcome) ==
    IF members # context.members THEN Broken ELSE outcome

AsConfirmed(context, outcome) ==
    IF members # context.members THEN Broken
    ELSE IF Cutoff # context.cutoff THEN Unavailable
    ELSE IF /\ outcome.status = "AVAILABLE"
            /\ outcome.data.settlements.members # context.members THEN Broken
    ELSE outcome

FinanceEnds ==
    /\ request.stage = "SOURCES" /\ request.finance.status = "READ"
    /\ \/ /\ Reads("finance", AsConfirmed(request.finance.context, request.finance.outcome)
                                  @@ [began |-> request.finance.context,
                                      ended |-> Context])
          /\ UNCHANGED failures
       \/ Fails /\ Reads("finance", Broken)

\* TaskQueries.read and ShoppingQueries.read: a snapshot between two checks of the access.
RoutineReads ==
    /\ request.stage = "SOURCES" /\ request.routine.status = "NOT_READ"
    /\ \/ /\ \E late \in BOOLEAN : Reads("routine", Available(RoutineToday(late)))
          /\ UNCHANGED failures
       \/ Fails /\ \E result \in {Unavailable, Broken} : Reads("routine", result)

ShoppingReads ==
    /\ request.stage = "SOURCES" /\ request.shopping.status = "NOT_READ"
    /\ \/ Reads("shopping", Available(ShoppingToday)) /\ UNCHANGED failures
       \/ Fails /\ \E result \in {Unavailable, Broken} : Reads("shopping", result)

\* Promise.allSettled, and sourceResult of each.
Gather ==
    LET results == {request[s] : s \in {"finance", "routine", "shopping"}}
    IN  /\ request.stage = "SOURCES"
        /\ \A r \in results : r.status \in {"AVAILABLE", "UNAVAILABLE", "REJECTED"}
        /\ request' = [request EXCEPT !.stage =
               IF \E r \in results : r.status = "REJECTED" THEN "FAILED" ELSE "CLOSURE"]
        /\ UNCHANGED <<World, failures>>

\* readClosure: whatever fails in it, the closure is unavailable and nothing else.
ClosureReads ==
    /\ request.stage = "CLOSURE" /\ request.closure.status = "NOT_READ"
    /\ \/ Reads("closure", Available(ClosureView(request.by))) /\ UNCHANGED failures
       \/ Fails /\ Reads("closure", Unavailable)

\* The last check of the access gives the status the screen shows.
Answer ==
    /\ request.stage = "CLOSURE" /\ request.closure.status # "NOT_READ"
    /\ \/ /\ request' = [request EXCEPT !.stage = "ANSWERED"] @@ [status |-> status]
          /\ UNCHANGED failures
       \/ Fails /\ request' = [request EXCEPT !.stage = "FAILED"]
    /\ UNCHANGED World

-----------------------------------------------------------------------------
(***************************************************************************)
(* The blocks of the screen.                                               *)
(***************************************************************************)
\* A block of the previews of its sources, Unavailable where there is none.
Block(previews, limit) ==
    LET known    == SelectSeq(previews, LAMBDA p : p # Unavailable)
        total    == Seqs!FoldLeft(LAMBDA sum, p : sum + p.total, 0, known)
        all      == Seqs!FlattenSeq([i \in DOMAIN known |-> known[i].items])
        items    == SubSeq(all, 1, Seqs!Min({limit, Len(all)}))
        complete == Len(known) = Len(previews)
    IN  [status  |-> IF complete THEN "AVAILABLE"
                     ELSE IF known # <<>> THEN "PARTIAL" ELSE "UNAVAILABLE",
         items   |-> items,
         total   |-> IF complete THEN total ELSE Unavailable,
         known   |-> total,
         hasMore |-> IF complete THEN total > Len(items) ELSE Unavailable]

Shown(source, preview(_)) ==
    IF source.status = "AVAILABLE" THEN preview(source.data) ELSE Unavailable

FinanceAttention(data) ==
    LET cycles == data.settlements.overdue
    IN  [items |-> cycles.items \o data.overdue.items \o data.proposals.items,
         total |-> cycles.total + data.overdue.total + data.proposals.total]

NextSettlement(data) ==
    [items |-> data.settlements.next, total |-> Len(data.settlements.next)]

ClosureAttention(data) ==
    Preview("SPACE_CLOSURE", IF data.status = "CLOSING" THEN 1 ELSE 0, 1)

\* todayBlocks
Blocks ==
    LET finance == request.finance
        routine == request.routine
    IN  [ATTENTION |->
             Block(<<Shown(request.closure, ClosureAttention),
                     Shown(finance, FinanceAttention),
                     Shown(routine, LAMBDA data : data.attention)>>, AttentionLimit),
         TODAY |->
             Block(<<Shown(finance, LAMBDA data : data.today),
                     Shown(routine, LAMBDA data : data.today)>>, BlockLimit),
         NEXT_SETTLEMENT |-> Block(<<Shown(finance, NextSettlement)>>, BlockLimit),
         UPCOMING |-> Block(<<Shown(finance, LAMBDA data : data.upcoming)>>, BlockLimit),
         TASKS |-> Block(<<Shown(routine, LAMBDA data : data.tasks)>>, BlockLimit),
         SHOPPING |-> Block(<<Shown(request.shopping, LAMBDA data : data)>>, BlockLimit)]

-----------------------------------------------------------------------------
(***************************************************************************)
(* The specification.                                                      *)
(***************************************************************************)
ChangeAgenda ==
    /\ status # "CLOSED"
    /\ agenda' \in Agendas \ {agenda}
    /\ UNCHANGED vars

Others ==
    /\ request.stage \notin {"ANSWERED", "FAILED"}
    /\ changes < MaxChanges
    /\ changes' = changes + 1
    /\ \/ Next /\ UNCHANGED agenda
       \/ ChangeAgenda
    /\ UNCHANGED <<request, failures>>

ScreenNext ==
    \/ \E m \in Persons : Ask(m)
    \/ FinanceBegins \/ FinanceReads \/ FinanceEnds
    \/ RoutineReads \/ ShoppingReads \/ Gather
    \/ ClosureReads \/ Answer
    \/ Others

ScreenInit ==
    /\ Init
    /\ agenda \in Agendas
    /\ request = NoRequest
    /\ changes = 0
    /\ failures = 0

ScreenSpec == ScreenInit /\ [][ScreenNext]_screenVars
-----------------------------------------------------------------------------
(***************************************************************************)
(* What the screen tells.                                                  *)
(***************************************************************************)
Answered(source) == request[source].status = "AVAILABLE"

\* The finances end where the closure in force when they were answered ends them, though
\* its cutoff was read in the middle, unless another closure was begun meanwhile.
EndsAtCutoff ==
    Answered("finance") =>
        \/ request.finance.began.process # request.finance.ended.process
        \/ request.finance.ended.cutoff = request.finance.data.cutoff

\* The closure is the newest of what is shown: it has not yet to hear of the one that
\* limited the finances, and is not ahead of the status of the space.
ClosureIsNewest ==
    Answered("closure") =>
        LET closure == request.closure.data
        IN  /\ Answered("finance") =>
                   LET finance == request.finance.data
                   IN  /\ closure.process >= finance.process
                       /\ (/\ finance.cutoff # NoDate
                           /\ closure.process = finance.process) =>
                              closure.cutoff >= finance.cutoff
            /\ closure.status = "CLOSED" => request.status = "CLOSED"

\* A block is full before it says that there is more, it says so of what is missing and
\* of nothing else, and it gives no total of sources it could not read.
NothingIsHidden ==
    \A kind \in DOMAIN Blocks :
        LET block == Blocks[kind]
            limit == IF kind = "ATTENTION" THEN AttentionLimit ELSE BlockLimit
        IN  /\ Len(block.items) = Seqs!Min({limit, block.known})
            /\ block.status = "AVAILABLE" =>
                   /\ block.total = block.known
                   /\ block.hasMore = (block.known > limit)
            /\ block.status # "AVAILABLE" => block.total = Unavailable

\* A closure that is going on is the first thing a member is shown.
ClosureComesFirst ==
    Answered("closure") /\ request.closure.data.status = "CLOSING" =>
        Head(Blocks.ATTENTION.items) = "SPACE_CLOSURE"

\* What a member is asked to do about a closure can be done, and not all are told to wait.
AskedCanAct(m) ==
    CASE NextAction(m) = "APPROVE_CANCELLATION" -> CanCancel(plan, m, version)
      [] NextAction(m) = "REVIEW_PLAN"          -> CanAnswer(plan, m)
      [] NextAction(m) = "REVIEW_CLOSURE"       -> ApprovedByAll(plan)
      [] NextAction(m) = "PROPOSE_PLAN"         ->
             CanPropose(plan, m, Fingerprint(books, TargetCutoff(plan)))
      [] OTHER -> TRUE

SomeoneIsAsked ==
    status = "CLOSING" =>
        /\ \A m \in members : AskedCanAct(m)
        /\ \E m \in members :
               NextAction(m) \notin {"READ_ONLY", "WAIT_APPROVAL", "WAIT_CANCELLATION"}

\* Put together from reads at different instants, some of which failed, the screen still
\* does not contradict itself: no block hides anything, the closure is there, the newest
\* and first, its cutoff limits the finances, and one of the members is asked to go on.
ScreenIsSound ==
    /\ SomeoneIsAsked
    /\ request.stage = "ANSWERED" =>
           EndsAtCutoff /\ ClosureIsNewest /\ NothingIsHidden /\ ClosureComesFirst
=============================================================================
