----------------------- MODULE SettlementTransactions -----------------------
(***************************************************************************)
(* The commands that write obligations as the database runs them: each     *)
(* request is a transaction at READ COMMITTED that reads the receipt of    *)
(* its key, takes the locks of the space, of its origins, of the cycles    *)
(* and of the obligations, one row at a time, looks again at what it had   *)
(* read before it had the locks, and commits.  Requests interleave at      *)
(* every statement; the connection of a request may be lost at any of      *)
(* them, and its client asks again with the same key.                      *)
(*                                                                         *)
(* A statement that locks a row waits until nobody holds it in a           *)
(* conflicting mode, and reads what is then committed.  The rows a         *)
(* transaction writes are those it has locked, so that what it writes is   *)
(* seen when it commits.                                                   *)
(***************************************************************************)
EXTENDS SettlementCommands

CONSTANTS Requests,  \* the requests on their way
          MaxLost    \* bound on the connections that are lost

ASSUME MaxLostAssumption == MaxLost \in Nat

VARIABLES
    request,  \* what every request has read, and where it is
    locks,    \* the locks held: [by, on, mode]
    lost      \* the number of connections lost

vars == <<db, request, locks, lost>>

NoRows     == [o \in {} |-> Absent]
NoVersions == [space |-> 0, commitments |-> NoRows, obligations |-> NoRows,
               cycles |-> NoRows]

\* What a request holds: its command and the versions it expects, the rows it has
\* read, what it has to lock, the cycles as it first saw them, and its answer.
Nobody == [stage |-> "IDLE", command |-> NoCommand, expects |-> NoVersions,
           seen |-> NoRows, origins |-> {}, cycles |-> {}, states |-> NoRows,
           answer |-> "NONE"]

Init ==
    /\ CommandsInit
    /\ request = [r \in Requests |-> Nobody]
    /\ locks = {}
    /\ lost = 0

-----------------------------------------------------------------------------
(***************************************************************************)
(* Locks.                                                                  *)
(***************************************************************************)
Holds(r, on) == \E l \in locks : l.by = r /\ l.on = on

Conflicts(l, r, on, mode) ==
    l.on = on /\ l.by # r /\ ~ (l.mode = "SHARE" /\ mode = "SHARE")

\* Mistake: every row is locked FOR SHARE.
LockShared(r, on, mode) ==
    locks' = locks \cup {[by |-> r, on |-> on, mode |-> "SHARE"]}

Lock(r, on, mode) ==
    /\ \A l \in locks : ~ Conflicts(l, r, on, mode)
    /\ locks' = locks \cup {[by |-> r, on |-> on, mode |-> mode]}

Unlocked(r) == {l \in locks : l.by # r}

\* Mistake: rows are locked in the order in which the client named them.
AsNamed(S, c) ==
    IF "targets" \in DOMAIN c /\ \E o \in ToSet(c.targets) : OriginOf[o] \in S
    THEN OriginOf[c.targets[Min({i \in DOMAIN c.targets : OriginOf[c.targets[i]] \in S})]]
    ELSE Min(S)

\* The ids of a kind are sorted before they are locked.
Sorted(S, c) == Min(S)

OriginsLeft(r) ==
    {f \in request[r].origins : ~ Holds(r, <<"ORIGIN", f>>)}
CyclesLeft(r) ==
    {k \in request[r].cycles : ~ Holds(r, <<"CYCLE", k>>)}
ObligationsLeft(r) ==
    {o \in DOMAIN request[r].seen : ~ Holds(r, <<"OBLIGATION", o>>)}

-----------------------------------------------------------------------------
(***************************************************************************)
(* A request ends: refused, its transaction is rolled back.                *)
(***************************************************************************)
Kind(r) == request[r].command.kind

\* What is left of a request whose transaction is over.
Ended(r, stage, answer) ==
    /\ request' = [request EXCEPT ![r] =
           [Nobody EXCEPT !.stage   = stage,
                          !.command = request[r].command,
                          !.expects = request[r].expects,
                          !.answer  = answer]]
    /\ locks' = Unlocked(r)

Answer(r, answer) ==
    /\ Ended(r, "ANSWERED", answer)
    /\ UNCHANGED <<db, lost>>

Goes(r, stage) ==
    /\ request' = [request EXCEPT ![r] = [@ EXCEPT !.stage = stage]]
    /\ UNCHANGED <<db, lost>>

\* The hash of a receipt is that of the command and of the versions it named.
SameInput(receipt, r) ==
    /\ receipt.command = request[r].command
    /\ receipt.expects = request[r].expects

HasReceipt(r) == db.receipts[request[r].command.key] # NoReceipt

\* receipts.find, when there is one.
AnswerWithReceipt(r) ==
    Answer(r, IF SameInput(db.receipts[request[r].command.key], r)
              THEN "REPLAYED" ELSE "IDEMPOTENCY_KEY_REUSED")

-----------------------------------------------------------------------------
(***************************************************************************)
(* The clients.                                                            *)
(***************************************************************************)
Begun(c, expects) ==
    [Nobody EXCEPT !.stage = "READ", !.command = c, !.expects = expects]

\* The versions are those of the rows as they are shown to the client.
Ask(r, c) ==
    /\ request[r].stage = "IDLE"
    /\ c.kind = "REVERSE" => Original(db, c).command.kind \in {"TRANSFER", "OFFSET"}
    /\ \A k \in Versioned(db, c, Rows(db, c)) : HasCycle(db, k)
    /\ request' = [request EXCEPT ![r] = Begun(c, Seen(db, c))]
    /\ UNCHANGED <<db, locks, lost>>

\* The same command is sent again while its twin is on its way, or after it.
AskAgain(r, twin) ==
    /\ request[r].stage = "IDLE"
    /\ request[twin].stage # "IDLE"
    /\ request' = [request EXCEPT ![r] =
                      Begun(request[twin].command, request[twin].expects)]
    /\ UNCHANGED <<db, locks, lost>>

\* The database rolls back a transaction whose connection is lost; if it had been
\* committed the client does not know.
Lose(r) ==
    /\ lost < MaxLost
    /\ request[r].stage \notin {"IDLE", "LOST"}
    /\ request[r].stage = "ANSWERED" => request[r].answer = "APPLIED"
    /\ Ended(r, "LOST", "NONE")
    /\ lost' = lost + 1
    /\ UNCHANGED db

Retry(r) ==
    /\ request[r].stage = "LOST"
    /\ request' = [request EXCEPT ![r] = Begun(@.command, @.expects)]
    /\ UNCHANGED <<db, locks, lost>>

-----------------------------------------------------------------------------
(***************************************************************************)
(* The transaction, statement by statement.                                *)
(***************************************************************************)
\* The receipt is looked for before anything is locked.
Read(r) ==
    /\ request[r].stage = "READ"
    /\ \/ HasReceipt(r) /\ AnswerWithReceipt(r)
       \/ ~ HasReceipt(r) /\ Goes(r, "SPACE") /\ UNCHANGED locks

\* lockForSettlement and lockForFulfillment; the start of a closure takes the space
\* FOR UPDATE.  The obligation to move has a receipt looked for again here.
LockSpace(r) ==
    LET mode == IF Kind(r) = "START_CLOSURE" THEN "UPDATE" ELSE "SHARE"
    IN  /\ request[r].stage = "SPACE"
        /\ \A l \in locks : ~ Conflicts(l, r, <<"SPACE">>, mode)
        /\ IF Kind(r) = "MOVE" /\ HasReceipt(r) THEN AnswerWithReceipt(r)
           ELSE IF db.space # request[r].expects.space THEN Answer(r, "REFUSED")
           ELSE Lock(r, <<"SPACE">>, mode) /\ Goes(r, "DISCOVER")

\* What is to be locked is found without a lock: discover, or the state of a reversal.
\* A reconciliation is called with its commitment, a cycle is finalized by its id.
Discover(r) ==
    LET c == request[r].command
    IN  /\ request[r].stage = "DISCOVER"
        /\ request' = [request EXCEPT ![r] =
               [@ EXCEPT
                   !.stage   = IF c.kind \in {"FINALIZE", "START_CLOSURE"}
                               THEN "CYCLES" ELSE "ORIGINS",
                   !.seen    = IF c.kind = "RECONCILE" THEN NoRows ELSE Rows(db, c),
                   !.origins = OriginsOf(db, c),
                   !.cycles  = IF c.kind = "FINALIZE" THEN {c.cycle} ELSE {}]]
        /\ UNCHANGED <<db, locks, lost>>

\* lockOrigins, one after the other.
LockOrigin(r) ==
    /\ request[r].stage = "ORIGINS"
    /\ OriginsLeft(r) # {}
    /\ Lock(r, <<"ORIGIN", Sorted(OriginsLeft(r), request[r].command)>>, "UPDATE")
    /\ Goes(r, "ORIGINS")

\* Once the origins are locked everything but a transfer looks for its receipt again.
\* Mistake: nobody does.
NeverLooksAgain(r) == FALSE

LooksAgain(r) == Kind(r) # "TRANSFER" /\ HasReceipt(r)

\* A new obligation of an origin one of whose cycles is finalized needs a cycle.
NeedsSelection(d, c, rows) ==
    /\ c.kind = "RECONCILE" /\ c.cycle = NoCycle
    /\ \E o \in DOMAIN rows : rows[o].cycle \in Finalized(d)
    /\ \A o \in TakesUpFact(rows, DOMAIN rows, Finalized(d)) : rows[o].cycle = NoCycle

\* What was read without a lock is no longer so, or does not allow the command.
RefusedAtOrigins(d, q, c, rows) ==
    \/ /\ c.kind = "RECONCILE"
       /\ \/ q.expects.commitments[c.origin] # d.commitments[c.origin]
          \/ NeedsSelection(d, c, rows)
    \/ /\ c.kind = "REVERSE"
       /\ \/ IsReversed(d, c.original)
          \/ rows # q.seen
          \/ NeedsCorrection(d, c, rows) # (c.cycle # NoCycle)

\* The cycle a command writes obligations into.
WritesInto(d, c, rows) ==
    IF \/ c.kind = "MOVE"
       \/ c.kind = "REVERSE"
       \/ c.kind = "RECONCILE" /\ TakesUpFact(rows, DOMAIN rows, Finalized(d)) = {}
    THEN {c.cycle} \ {NoCycle} ELSE {}

\* The states of a reversal and of a reconciliation are read now; a transfer, an
\* offset, a waiver and a move keep what they discovered.
LookAgain(r) ==
    LET c      == request[r].command
        rows   == IF c.kind \in {"REVERSE", "RECONCILE"} THEN Rows(db, c)
                                                         ELSE request[r].seen
        into   == WritesInto(db, c, rows)
        cycles == into \cup CyclesOf(rows)
                    \cup (IF c.kind = "REVERSE" THEN CyclesOf(Original(db, c).parts)
                                                ELSE {})
    IN  /\ request[r].stage = "ORIGINS"
        /\ OriginsLeft(r) = {}
        /\ IF LooksAgain(r) THEN AnswerWithReceipt(r)
           ELSE IF RefusedAtOrigins(db, request[r], c, rows) THEN Answer(r, "REFUSED")
           ELSE /\ request' = [request EXCEPT ![r] =
                      [@ EXCEPT
                          !.stage  = IF \A k \in into : HasCycle(db, k)
                                     THEN "CYCLES" ELSE "CREATE",
                          !.seen   = rows,
                          !.cycles = cycles,
                          !.states = [k \in cycles |-> db.cycles[k]]]]
                /\ UNCHANGED <<db, locks, lost>>

\* createCycleForDate and lockForDate: the insert waits for another one of the same
\* date, and does nothing once that is committed; a move is then refused.
CreateCycle(r) ==
    LET k == request[r].command.cycle
    IN  /\ request[r].stage = "CREATE"
        /\ IF ~ HasCycle(db, k)
           THEN Lock(r, <<"CYCLE", k>>, "UPDATE") /\ Goes(r, "CYCLES")
           ELSE IF Kind(r) = "MOVE" THEN Answer(r, "REFUSED")
           ELSE Goes(r, "CYCLES") /\ UNCHANGED locks

\* Mistake: a cycle is finalized under a lock that others may share.
AlwaysShared(kind) == "SHARE"

\* The cycles FOR SHARE; the one to finalize FOR UPDATE.
CycleMode(kind) == IF kind = "FINALIZE" THEN "UPDATE" ELSE "SHARE"

LockCycle(r) ==
    /\ request[r].stage = "CYCLES"
    /\ CyclesLeft(r) # {}
    /\ Lock(r, <<"CYCLE", Sorted(CyclesLeft(r), request[r].command)>>,
            CycleMode(Kind(r)))
    /\ Goes(r, "CYCLES")

\* A cycle the transaction has itself inserted is open.
Usable(d, k) == HasCycle(d, k) => IsOpenCycle(d, k)

\* The cycles that were finalized when the origins had been locked.
FinalizedThen(q) == {k \in DOMAIN q.states : q.states[k].status = "FINALIZED"}

WrittenBy(d, q) ==
    Written(d, q.command, q.seen, IF q.command.kind = "RECONCILE"
                                  THEN FinalizedThen(q) ELSE Finalized(d))

AffectedCycles(q, written) ==
    CyclesOf(written) \cup CyclesOf([o \in DOMAIN written \cap DOMAIN q.seen |-> q.seen[o]])

RefusedAtCycles(d, q, c) ==
    LET existing == {k \in q.cycles : q.states[k].status # "ABSENT"}
    IN  CASE c.kind \in {"TRANSFER", "WAIVE"} ->
                 \E k \in q.cycles : ~ IsOpenCycle(d, k)
          [] c.kind \in {"OFFSET", "MOVE"} ->
                 \/ \E k \in q.cycles : ~ Usable(d, k)
                 \/ q.expects.cycles # CycleVersions(d, existing)
          [] c.kind = "RECONCILE" ->
                 \E k \in AffectedCycles(q, WrittenBy(d, q)) : ~ Usable(d, k)
          [] c.kind = "REVERSE" ->
                 \/ \E k \in q.cycles : q.states[k] # d.cycles[k]
                 \/ c.cycle # NoCycle /\ ~ IsOpenCycle(d, c.cycle)
                 \/ q.expects.cycles # CycleVersions(d, q.cycles)
          [] c.kind = "FINALIZE" ->
                 ~ CanFinalize(d, c) \/ q.expects.cycles # CycleVersions(d, {c.cycle})
          [] OTHER -> FALSE

\* A finalization looks for its receipt once it has the cycle.
CheckCycles(r) ==
    LET c == request[r].command
    IN  /\ request[r].stage = "CYCLES"
        /\ CyclesLeft(r) = {}
        /\ IF c.kind = "FINALIZE" /\ HasReceipt(r) THEN AnswerWithReceipt(r)
           ELSE IF RefusedAtCycles(db, request[r], c) THEN Answer(r, "REFUSED")
           ELSE Goes(r, "OBLIGATIONS") /\ UNCHANGED locks

LockObligation(r) ==
    /\ request[r].stage = "OBLIGATIONS"
    /\ ObligationsLeft(r) # {}
    /\ Lock(r, <<"OBLIGATION", Min(ObligationsLeft(r))>>, "UPDATE")
    /\ Goes(r, "OBLIGATIONS")

Moved(d, q) == \E o \in DOMAIN q.seen : d.obligations[o].cycle # q.seen[o].cycle

\* A client names the version of every obligation that is read.
OutOfDate(d, q, c) ==
    IF c.kind = "RECONCILE" THEN Rows(d, c) # q.seen
    ELSE \/ DOMAIN q.expects.obligations # DOMAIN q.seen
         \/ \E o \in DOMAIN q.expects.obligations :
                d.obligations[o].version # q.expects.obligations[o]

\* A transfer looks for its receipt only now.
CheckObligations(r) ==
    LET c == request[r].command
    IN  /\ request[r].stage = "OBLIGATIONS"
        /\ ObligationsLeft(r) = {}
        /\ IF c.kind = "TRANSFER" /\ HasReceipt(r) THEN AnswerWithReceipt(r)
           ELSE IF \/ Moved(db, request[r])
                   \/ OutOfDate(db, request[r], c)
                   \/ /\ Resolves(c.kind) \/ c.kind = "MOVE"
                      /\ \E o \in Named(db, c) : ~ IsOpen(db.obligations[o])
                THEN Answer(r, "REFUSED")
           ELSE /\ request' = [request EXCEPT ![r] =
                      [@ EXCEPT !.stage = "SAVE",
                                !.seen  = [o \in DOMAIN request[r].seen |->
                                               db.obligations[o]]]]
                /\ UNCHANGED <<db, locks, lost>>

\* The receipt is inserted after everything else: a second one of the same key waits
\* for the first, and fails once that is committed.
SaveReceipt(r) ==
    LET on == <<"KEY", request[r].command.key>>
    IN  /\ request[r].stage = "SAVE"
        /\ IF HasReceipt(r)
           THEN Ended(r, "RACE", "NONE") /\ UNCHANGED <<db, lost>>
           ELSE Lock(r, on, "UPDATE") /\ Goes(r, "COMMIT")

Commit(r) ==
    /\ request[r].stage = "COMMIT"
    /\ db' = Committed(db, request[r].command, request[r].expects,
                      WrittenBy(db, request[r]))
    /\ Ended(r, "ANSWERED", "APPLIED")
    /\ UNCHANGED lost

\* A race for the receipt is answered from another transaction.
AnswerRace(r) == IF HasReceipt(r) THEN AnswerWithReceipt(r) ELSE Answer(r, "FAILED")

Recover(r) ==
    /\ request[r].stage = "RACE"
    /\ AnswerRace(r)

-----------------------------------------------------------------------------
Statement(r) ==
    \/ Read(r)        \/ LockSpace(r)        \/ Discover(r)         \/ LockOrigin(r)
    \/ LookAgain(r)   \/ CreateCycle(r)      \/ LockCycle(r)        \/ CheckCycles(r)
    \/ LockObligation(r)                     \/ CheckObligations(r)
    \/ SaveReceipt(r) \/ Commit(r)           \/ Recover(r)

Client(r) ==
    \/ \E c \in Commands : Ask(r, c)
    \/ \E twin \in Requests : AskAgain(r, twin)
    \/ Lose(r)
    \/ Retry(r)

Next == \E r \in Requests : Statement(r) \/ Client(r)

\* The server and the database go on with every request that they have received;
\* nothing is asked of the clients.
Fairness == \A r \in Requests : WF_vars(Statement(r))

Spec == Init /\ [][Next]_vars /\ Fairness

-----------------------------------------------------------------------------
(***************************************************************************)
(* Properties.                                                             *)
(***************************************************************************)
Stages == {"IDLE", "LOST", "READ", "SPACE", "DISCOVER", "ORIGINS", "CREATE", "CYCLES",
           "OBLIGATIONS", "SAVE", "COMMIT", "RACE", "ANSWERED"}

\* Every request is at one of its statements, and holds locks only between the lock
\* of the space and its end; a row locked FOR UPDATE is locked by nobody else.
TypeOK ==
    /\ \A r \in Requests :
           /\ request[r].stage \in Stages
           /\ request[r].stage \in {"IDLE", "LOST", "READ", "SPACE", "RACE", "ANSWERED"}
                  => \A l \in locks : l.by # r
    /\ \A k, l \in locks : ~ Conflicts(k, l.by, l.on, l.mode)
    /\ lost \in 0 .. MaxLost

\* Every row that changes is changed by one command, which finds the rows as its
\* client has seen them and leaves one receipt: the transactions are the commands
\* of SettlementCommands, one after the other, whatever they read before they had
\* their locks.
OneCommandAtATime == CommandsSpec

\* Nothing is owed in a cycle that is finalized, though moves and reconciliations
\* write into a cycle without the locks that a finalization needs of obligations.
FinalizedCyclesAreSettled ==
    \A o \in Obligations : db.obligations[o].cycle \in Finalized(db)
                               => ~ IsOpen(db.obligations[o])

CommandOf(d, k) == d.receipts[k].command

\* The facts an origin was reconciled with, the resolutions no reversal has restored,
\* and how many obligations of an origin they have resolved.
Reconciled(d, f) ==
    {k \in Keys : CommandOf(d, k).kind = "RECONCILE" /\ CommandOf(d, k).origin = f}
Standing(d)      == {k \in Keys : Resolves(CommandOf(d, k).kind) /\ ~ IsReversed(d, k)}
Share(d, c, f)   == Cardinality({o \in Named(d, c) : OriginOf[o] = f})
Settled(d, f)    == SumFunction([k \in Standing(d) |-> Share(d, CommandOf(d, k), f)])

\* What remains to be paid of an origin is what its facts make due, less one for
\* every obligation a transfer, offset or waiver has resolved and no reversal has
\* restored: no two of them overwrite each other.
NothingIsLost ==
    \A f \in Origins :
        Total(db.obligations, RowsOf(db, f))
            = db.owed[f] + Cardinality(Reconciled(db, f)) - Settled(db, f)

\* A request that finds its twin committed is answered with what the twin did, and
\* not refused for the versions the twin has changed.  Two orders of the code's
\* checks come first: the version of the space, and for a transfer the state of the
\* cycles, which may have been finalized in between.
TwinIsReplayed ==
    [][\A r \in Requests :
          (/\ request[r].stage # "ANSWERED"
           /\ request'[r].stage = "ANSWERED"
           /\ HasReceipt(r)
           /\ SameInput(db.receipts[request[r].command.key], r))
          => \/ request'[r].answer = "REPLAYED"
             \/ /\ request'[r].answer = "REFUSED"
                /\ \/ db.space # request[r].expects.space
                   \/ /\ Kind(r) = "TRANSFER"
                      /\ CyclesOf(request[r].seen) \cap Finalized(db) # {}]_vars

\* What is being carried out ends: no two requests wait for each other's locks.
EveryRequestEnds ==
    \A r \in Requests :
        request[r].stage \notin {"IDLE", "LOST"} ~> request[r].stage \in {"ANSWERED", "LOST"}
=============================================================================
