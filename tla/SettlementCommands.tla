------------------------- MODULE SettlementCommands -------------------------
(***************************************************************************)
(* What the commands that write obligations promise: each one, seen from   *)
(* the database, is a single step that finds the rows as its client has    *)
(* seen them, changes them, and leaves the receipt of its key.             *)
(*                                                                         *)
(* The rows are those the commands lock.  Every resolution is of one cent  *)
(* of every obligation it names, and every fact adds one to the difference *)
(* of its origin, always in the same direction: what an obligation comes   *)
(* to is the subject of SettlementLedger, here it is who may change it.    *)
(***************************************************************************)
EXTENDS Integers, FiniteSets, Sequences, SequencesExt

CONSTANTS Origins,      \* financial_commitments, by their ids
          Obligations,  \* inter_member_obligations, by their ids
          Cycles,       \* settlement_cycles, by their ids
          OriginOf,     \* the commitment of every obligation
          Keys,         \* the idempotency keys of an actor
          NoCycle,      \* the cycle of an obligation that is in none
          Commands,     \* what the clients ask for, without the versions
          Debts,        \* what the first obligations of the origins may owe
          Opened        \* the cycles that may exist from the beginning

ASSUME IdsAssumption ==
    /\ Origins \subseteq Nat /\ Obligations \subseteq Nat /\ Cycles \subseteq Nat
    /\ NoCycle \notin Cycles
    /\ OriginOf \in [Obligations -> Origins]
    /\ Debts \subseteq [Origins -> Nat]
    /\ \A opened \in Opened : opened \subseteq Cycles /\ Min(Cycles) \in opened

\* A command names what its kind asks for; a resolution, at least one obligation.
ASSUME CommandsAssumption == \A c \in Commands :
    /\ c.key \in Keys
    /\ c.kind \in {"TRANSFER", "OFFSET", "WAIVE", "MOVE", "RECONCILE", "REVERSE",
                   "FINALIZE", "START_CLOSURE"}
    /\ c.kind \in {"TRANSFER", "OFFSET", "WAIVE", "MOVE"} =>
           ToSet(c.targets) \subseteq Obligations /\ ToSet(c.targets) # {}
    /\ c.kind \in {"FINALIZE", "START_CLOSURE"} => ToSet(c.targets) = {}
    /\ c.kind \in {"MOVE", "RECONCILE", "REVERSE"} => c.cycle \in Cycles \cup {NoCycle}
    /\ c.kind = "RECONCILE" => c.origin \in Origins
    /\ c.kind = "REVERSE" => c.original \in Keys
    /\ c.kind = "FINALIZE" => c.cycle \in Cycles

VARIABLE db  \* the rows that are committed

Absent    == [version |-> 0, cycle |-> NoCycle, remaining |-> 0]
NoCommand == [kind |-> "NONE"]
NoReceipt == [command |-> NoCommand]

\* The first obligation of every origin exists, and is in the first cycle.
FirstOf(f) == Min({o \in Obligations : OriginOf[o] = f})

\* Before the first command the commitments owe what their facts have made due.
CommandsInit == \E owed \in Debts, opened \in Opened :
    db = [space       |-> 1,
          owed        |-> owed,
          commitments |-> [f \in Origins |-> 1],
          obligations |-> [o \in Obligations |->
              IF o = FirstOf(OriginOf[o])
              THEN [version |-> 1, cycle |-> Min(Cycles), remaining |-> owed[OriginOf[o]]]
              ELSE Absent],
          cycles      |-> [c \in Cycles |->
              IF c \in opened THEN [status |-> "OPEN", version |-> 1]
                             ELSE [status |-> "ABSENT", version |-> 0]],
          receipts    |-> [k \in Keys |-> NoReceipt]]

-----------------------------------------------------------------------------
(***************************************************************************)
(* The rows a command is about.                                            *)
(***************************************************************************)
Exists(row)    == row.version > 0
IsOpen(row)    == row.remaining > 0
RowsOf(d, f)   == {o \in Obligations : OriginOf[o] = f /\ Exists(d.obligations[o])}
HasCycle(d, k) == k # NoCycle /\ d.cycles[k].status # "ABSENT"
Finalized(d)   == {k \in Cycles : d.cycles[k].status = "FINALIZED"}
CyclesOf(rows) == {rows[o].cycle : o \in DOMAIN rows} \ {NoCycle}
Resolves(kind) == kind \in {"TRANSFER", "OFFSET", "WAIVE"}

\* The transfer or offset a reversal is about.
Original(d, c) == d.receipts[c.original]
IsReversed(d, key) ==
    \E k \in Keys : LET by == d.receipts[k].command
                    IN  by.kind = "REVERSE" /\ by.original = key

\* The obligations a command names; a reversal those its original resolved.
Named(d, c) ==
    CASE c.kind = "REVERSE"   -> ToSet(Original(d, c).command.targets)
      [] c.kind = "RECONCILE" -> {}
      [] OTHER                -> ToSet(c.targets)

OriginsOf(d, c) ==
    IF c.kind = "RECONCILE" THEN {c.origin} ELSE {OriginOf[o] : o \in Named(d, c)}

\* Those it reads: a reversal and a reconciliation all those of their origins.
ReadBy(d, c) ==
    IF c.kind \in {"REVERSE", "RECONCILE"}
    THEN UNION {RowsOf(d, f) : f \in OriginsOf(d, c)}
    ELSE Named(d, c)

Rows(d, c) == [o \in ReadBy(d, c) |-> d.obligations[o]]

\* The cycles whose versions the client names, for the obligations as they were read.
Versioned(d, c, rows) ==
    CASE c.kind = "OFFSET"   -> CyclesOf(rows)
      [] c.kind = "MOVE"     -> CyclesOf(rows)
                                    \cup {k \in {c.cycle} : HasCycle(d, k)}
      [] c.kind = "REVERSE"  -> CyclesOf(rows) \cup CyclesOf(Original(d, c).parts)
                                    \cup ({c.cycle} \ {NoCycle})
      [] c.kind = "FINALIZE" -> {c.cycle}
      [] OTHER               -> {}

CycleVersions(d, S) == [k \in S |-> d.cycles[k].version]

\* What a client has seen of the rows its command is about.
Seen(d, c) ==
    [space       |-> d.space,
     commitments |-> [f \in {f \in Origins : c.kind = "RECONCILE" /\ f = c.origin} |->
                         d.commitments[f]],
     obligations |-> [o \in IF c.kind = "RECONCILE" THEN {} ELSE ReadBy(d, c) |->
                         d.obligations[o].version],
     cycles      |-> CycleVersions(d, Versioned(d, c, Rows(d, c)))]

-----------------------------------------------------------------------------
(***************************************************************************)
(* What a command makes of the rows.                                       *)
(***************************************************************************)
Resolved(row)     == [row EXCEPT !.remaining = @ - 1, !.version = @ + 1]
Owing(row, due)   == [row EXCEPT !.remaining = due, !.version = @ + 1]
InCycle(row, k)   == [row EXCEPT !.cycle = k, !.version = @ + 1]
NewRow(k, due)    == [version |-> 1, cycle |-> k, remaining |-> due]

\* The id a new obligation of an origin is given.
Free(d, f) == LET absent == {o \in Obligations : OriginOf[o] = f
                                                 /\ ~ Exists(d.obligations[o])}
              IN  IF absent = {} THEN {} ELSE {Min(absent)}

FirstIn(S)      == IF S = {} THEN {} ELSE {Min(S)}
OpenIn(rows, S) == {o \in S : IsOpen(rows[o])}
Total(rows, S)  == SumFunction([o \in S |-> rows[o].remaining])

\* The obligation that takes up the difference of a fact: the open one, or else the
\* last, unless its cycle is finalized.
TakesUpFact(rows, S, finalized) ==
    LET open == OpenIn(rows, S)
    IN  IF open # {} THEN FirstIn(open)
        ELSE {o \in S : /\ \A p \in S : p <= o
                        /\ rows[o].cycle \notin finalized}

\* That takes up what a reversal restores: the open one, or one it restores.
TakesUpReversal(rows, S, restored, finalized) ==
    LET writable == {o \in S : rows[o].cycle \notin finalized}
        open     == OpenIn(rows, writable)
    IN  IF open # {} THEN FirstIn(open) ELSE FirstIn(writable \cap restored)

\* The one that takes it up owes all that is due, the others that were open nothing,
\* and if there is none a new one is written.
Rewritten(rows, S, reused, touched, due, free, cycle) ==
    [o \in OpenIn(rows, S) \cup reused \cup touched
               \cup (IF reused = {} THEN free ELSE {}) |->
        IF o \notin S THEN NewRow(cycle, due)
        ELSE Owing(rows[o], IF o \in reused THEN due ELSE 0)]

ReconcileRows(d, c, rows, finalized) ==
    LET S == RowsOf(d, c.origin)
    IN  Rewritten(rows, S, TakesUpFact(rows, S, finalized), {}, Total(rows, S) + 1,
                  Free(d, c.origin), c.cycle)

ReverseRows(d, c, rows, finalized) ==
    LET plan(f) ==
            LET S        == RowsOf(d, f)
                restored == Named(d, c) \cap S
            IN  Rewritten(rows, S, TakesUpReversal(rows, S, restored, finalized),
                          {o \in restored : rows[o].cycle \notin finalized},
                          Total(rows, S) + Cardinality(restored), Free(d, f), c.cycle)
        plans   == [f \in OriginsOf(d, c) |-> plan(f)]
    IN  [o \in UNION {DOMAIN plans[f] : f \in DOMAIN plans} |-> plans[OriginOf[o]][o]]

\* The rows a command writes, from the rows it has read.
Written(d, c, rows, finalized) ==
    CASE Resolves(c.kind)      -> [o \in Named(d, c) |-> Resolved(rows[o])]
      [] c.kind = "MOVE"       -> [o \in Named(d, c) |-> InCycle(rows[o], c.cycle)]
      [] c.kind = "RECONCILE"  -> ReconcileRows(d, c, rows, finalized)
      [] c.kind = "REVERSE"    -> ReverseRows(d, c, rows, finalized)
      [] OTHER                 -> [o \in {} |-> Absent]

NextCycle(c, k, row, written) ==
    IF row.status = "ABSENT" /\ k \in CyclesOf(written)
    THEN [status |-> "OPEN", version |-> 1]
    ELSE IF c.kind = "FINALIZE" /\ k = c.cycle
         THEN [status |-> "FINALIZED", version |-> row.version + 1]
         ELSE row

Committed(d, c, expects, written) ==
    [space       |-> IF c.kind = "START_CLOSURE" THEN d.space + 1 ELSE d.space,
     owed        |-> d.owed,
     commitments |-> [f \in Origins |->
         IF c.kind = "RECONCILE" /\ f = c.origin THEN d.commitments[f] + 1
                                                 ELSE d.commitments[f]],
     obligations |-> [o \in Obligations |->
         IF o \in DOMAIN written THEN written[o] ELSE d.obligations[o]],
     cycles      |-> [k \in Cycles |-> NextCycle(c, k, d.cycles[k], written)],
     receipts    |-> [d.receipts EXCEPT ![c.key] =
         [command |-> c, expects |-> expects,
          parts   |-> [o \in Named(d, c) |-> [cycle |-> d.obligations[o].cycle]]]]]

-----------------------------------------------------------------------------
(***************************************************************************)
(* When a command is carried out: the rows are those its client has seen,  *)
(* and nothing it writes is in a finalized cycle.                          *)
(***************************************************************************)
NeedsCorrection(d, c, rows) ==
    \E o \in Named(d, c) : \/ Original(d, c).parts[o].cycle \in Finalized(d)
                           \/ rows[o].cycle \in Finalized(d)

IsOpenCycle(d, k) == d.cycles[k].status = "OPEN"

CanReverse(d, c) ==
    /\ Original(d, c).command.kind \in {"TRANSFER", "OFFSET"}
    /\ ~ IsReversed(d, c.original)
    /\ NeedsCorrection(d, c, d.obligations) <=> (c.cycle # NoCycle)
    /\ c.cycle # NoCycle => IsOpenCycle(d, c.cycle)

CanFinalize(d, c) ==
    /\ IsOpenCycle(d, c.cycle)
    /\ \A o \in Obligations :
           d.obligations[o].cycle = c.cycle => ~ IsOpen(d.obligations[o])

Allowed(d, c, written) ==
    /\ c.kind = "FINALIZE" => CanFinalize(d, c)
    /\ c.kind = "REVERSE" => CanReverse(d, c)
    /\ Resolves(c.kind) \/ c.kind = "MOVE" =>
           \A o \in Named(d, c) : IsOpen(d.obligations[o])
    /\ \A o \in DOMAIN written : {d.obligations[o].cycle, written[o].cycle}
                                     \cap Finalized(d) = {}

Execute(c) ==
    LET written == Written(db, c, db.obligations, Finalized(db))
    IN  /\ db.receipts[c.key] = NoReceipt
        /\ Allowed(db, c, written)
        /\ db' = Committed(db, c, Seen(db, c), written)

CommandsNext == \E c \in Commands : Execute(c)

CommandsSpec == CommandsInit /\ [][CommandsNext]_db
=============================================================================
