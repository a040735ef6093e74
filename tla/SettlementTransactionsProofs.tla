-------------------- MODULE SettlementTransactionsProofs --------------------
(***************************************************************************)
(* What is proved of SettlementTransactions, for any commands, origins,    *)
(* obligations and cycles, and any number of requests that interleave.     *)
(***************************************************************************)
EXTENDS SettlementTransactions, SumTheorems, TLAPS

-----------------------------------------------------------------------------
(***************************************************************************)
(* The invariant: the rows.                                                *)
(***************************************************************************)
Kinds == {"TRANSFER", "OFFSET", "WAIVE", "MOVE", "RECONCILE", "REVERSE",
          "FINALIZE", "START_CLOSURE"}

\* A row of inter_member_obligations, if it is there, in a cycle there is or in none.
RowOK(d, row) ==
    /\ row = [version |-> row.version, cycle |-> row.cycle,
              remaining |-> row.remaining]
    /\ row.version \in Nat
    /\ Exists(row) \/ row = Absent
    /\ row.cycle \in Cycles \cup {NoCycle}
    /\ row.cycle # NoCycle => HasCycle(d, row.cycle)
\* A receipt names what was resolved, and in which cycle.
ReceiptOK(d, k) ==
    LET receipt == d.receipts[k]
        command == receipt.command
    IN  \/ receipt = NoReceipt
        \/ /\ command \in Commands /\ command.key = k
           /\ Resolves(command.kind) =>
                  /\ DOMAIN receipt.parts = ToSet(command.targets)
                  /\ \A o \in DOMAIN receipt.parts :
                         LET cycle == receipt.parts[o].cycle
                         IN  /\ Exists(d.obligations[o])
                             /\ cycle \in Cycles \cup {NoCycle}
                             /\ cycle # NoCycle => HasCycle(d, cycle)

RowsOK(d) ==
    /\ d = [space |-> d.space, owed |-> d.owed, commitments |-> d.commitments,
            obligations |-> d.obligations, cycles |-> d.cycles,
            receipts |-> d.receipts]
    /\ DOMAIN d.receipts = Keys
    /\ d.receipts = [k \in Keys |-> d.receipts[k]]
    /\ \A o \in Obligations : RowOK(d, d.obligations[o])
    /\ \A k \in Keys : ReceiptOK(d, k)
    /\ \A k \in Cycles : d.cycles[k].status \in {"ABSENT", "OPEN", "FINALIZED"}
    /\ \A o \in Obligations :
           d.obligations[o].cycle \in Finalized(d) => ~ IsOpen(d.obligations[o])

-----------------------------------------------------------------------------
(***************************************************************************)
(* The invariant: the locks.                                               *)
(***************************************************************************)
LockOf(r, on, mode)    == [by |-> r, on |-> on, mode |-> mode]
Has(L, r, on, mode)    == LockOf(r, on, mode) \in L
SpaceMode(kind)        == IF kind = "START_CLOSURE" THEN "UPDATE" ELSE "SHARE"

\* Where a request is: with the space locked, with what it has to lock, with its
\* origins locked and the rows read again, with its cycles, with its obligations.
InSpace   == {"DISCOVER", "ORIGINS", "CREATE", "CYCLES", "OBLIGATIONS", "SAVE",
              "COMMIT"}
Prepared  == {"ORIGINS", "CREATE", "CYCLES", "OBLIGATIONS", "SAVE", "COMMIT"}
InOrigins == {"CREATE", "CYCLES", "OBLIGATIONS", "SAVE", "COMMIT"}
Ready     == {"CYCLES", "OBLIGATIONS", "SAVE", "COMMIT"}
InCycles  == {"OBLIGATIONS", "SAVE", "COMMIT"}
Checked   == {"SAVE", "COMMIT"}

\* Locks do not conflict; an origin is locked FOR UPDATE, and so is a cycle to
\* finalize and one that is not there yet.
LockOK(d, L, requests, l) ==
    /\ l = LockOf(l.by, l.on, l.mode)
    /\ l.by \in Requests
    /\ requests[l.by].stage \in InSpace
    /\ l.mode \in {"SHARE", "UPDATE"}
    /\ \A m \in L : ~ Conflicts(m, l.by, l.on, l.mode)
    /\ \A f \in Origins : l.on = <<"ORIGIN", f>> => l.mode = "UPDATE"
    /\ \A k \in Cycles :
           /\ l.on = <<"CYCLE", k>>
           /\ ~ HasCycle(d, k) \/ requests[l.by].command.kind = "FINALIZE"
           => l.mode = "UPDATE"

-----------------------------------------------------------------------------
(***************************************************************************)
(* The invariant: what a request holds.                                    *)
(***************************************************************************)
IsRequest(q) ==
    /\ q = [stage |-> q.stage, command |-> q.command, expects |-> q.expects,
            seen |-> q.seen, origins |-> q.origins, cycles |-> q.cycles,
            states |-> q.states, answer |-> q.answer]
    /\ q.stage \in Stages

Acts(kind) == kind \notin {"FINALIZE", "START_CLOSURE"}

\* The versions are the ones some rows had for the command.
AsSeen(c, e) ==
    /\ e = [space |-> e.space, commitments |-> e.commitments,
            obligations |-> e.obligations, cycles |-> e.cycles]
    /\ e.commitments = [f \in {f \in Origins : c.kind = "RECONCILE" /\ f = c.origin} |->
                            e.commitments[f]]
    /\ e.obligations = [o \in DOMAIN e.obligations |-> e.obligations[o]]
    /\ c.kind = "RECONCILE" \/ ~ Acts(c.kind) => DOMAIN e.obligations = {}
    /\ e.cycles = [k \in DOMAIN e.cycles |-> e.cycles[k]]
    /\ c.kind \in {"TRANSFER", "WAIVE", "RECONCILE", "START_CLOSURE"} =>
           DOMAIN e.cycles = {}

\* What was asked for: a reversal, of a transfer or offset; cycles that are there.
Asked(d, c, e) ==
    /\ c \in Commands
    /\ AsSeen(c, e)
    /\ c.kind = "REVERSE" => Original(d, c).command.kind \in {"TRANSFER", "OFFSET"}
    /\ c.kind = "FINALIZE" => HasCycle(d, c.cycle)
    /\ c.kind = "REVERSE" /\ c.cycle # NoCycle => HasCycle(d, c.cycle)

\* What has to be locked.
PreparedOK(d, q, c) ==
    /\ q.origins = OriginsOf(d, c)
    /\ q.seen = [o \in DOMAIN q.seen |-> q.seen[o]]
    /\ \A o \in DOMAIN q.seen : o \in Obligations /\ RowOK(d, q.seen[o])
    /\ c.kind \notin {"RECONCILE", "REVERSE"} => DOMAIN q.seen = Named(d, c)
    /\ c.kind = "FINALIZE" => q.cycles = {c.cycle}
    /\ c.kind = "START_CLOSURE" => q.cycles = {}
    /\ ~ Acts(c.kind) => q.stage \notin {"ORIGINS", "CREATE"}

\* The cycles to be locked for the rows that were read.
CyclesToLock(d, c, seen, finalized) ==
    CyclesOf(seen)
        \cup (IF c.kind = "REVERSE" THEN CyclesOf(Original(d, c).parts) ELSE {})
        \cup (IF \/ c.kind \in {"MOVE", "REVERSE"}
                 \/ /\ c.kind = "RECONCILE"
                    /\ TakesUpFact(seen, DOMAIN seen, finalized) = {}
              THEN {c.cycle} \ {NoCycle} ELSE {})

\* The cycles as they were when the origins were locked.
StatesOK(d, q) ==
    /\ DOMAIN q.states = q.cycles
    /\ \A k \in q.cycles :
           /\ q.states[k].status \in {"ABSENT", "OPEN", "FINALIZED"}
           /\ q.states[k].status # "ABSENT" => HasCycle(d, k)
           /\ q.states[k].status = "FINALIZED" => k \in Finalized(d)

\* With the origins locked the rows are as they were read.
InOriginsOK(d, L, r, q, c) ==
    /\ \A f \in q.origins : Has(L, r, <<"ORIGIN", f>>, "UPDATE")
    /\ q.cycles \subseteq Cycles
    /\ Acts(c.kind) =>
           /\ StatesOK(d, q)
           /\ q.cycles = CyclesToLock(d, c, q.seen, FinalizedThen(q))
           /\ \A k \in CyclesOf(q.seen) : q.states[k].status # "ABSENT"
    /\ c.kind \in {"RECONCILE", "REVERSE"} => q.seen = Rows(d, c)
    /\ c.kind = "RECONCILE" =>
           q.expects.commitments[c.origin] = d.commitments[c.origin]
    /\ c.kind = "REVERSE" =>
           /\ ~ IsReversed(d, c.original)
           /\ (\E o \in Named(d, c) :
                  \/ Original(d, c).parts[o].cycle \in FinalizedThen(q)
                  \/ q.seen[o].cycle \in FinalizedThen(q)) <=> (c.cycle # NoCycle)
    /\ Acts(c.kind) /\ c.kind # "TRANSFER" => d.receipts[c.key].command # c
    /\ q.stage = "CREATE" =>
           c.kind \in {"MOVE", "RECONCILE"} /\ c.cycle \in q.cycles

\* The cycles that have to be locked are there, or the request inserts them.
ReadyOK(d, L, r, q, c) ==
    /\ \A k \in q.cycles :
           HasCycle(d, k) \/ Has(L, r, <<"CYCLE", k>>, "UPDATE")
    /\ c.kind = "MOVE" =>
           \A k \in q.cycles : q.states[k].status = "ABSENT" => ~ HasCycle(d, k)

InCyclesOK(d, L, r, q, c) ==
    /\ \A k \in q.cycles : \E mode \in {"SHARE", "UPDATE"} :
           Has(L, r, <<"CYCLE", k>>, mode)
    /\ c.kind = "FINALIZE" => Has(L, r, <<"CYCLE", c.cycle>>, "UPDATE")
    /\ ~ RefusedAtCycles(d, q, c)

CheckedOK(d, q, c) ==
    /\ ~ OutOfDate(d, q, c)
    /\ \A o \in DOMAIN q.seen : q.seen[o] = d.obligations[o]
    /\ Resolves(c.kind) \/ c.kind = "MOVE" =>
           \A o \in Named(d, c) : IsOpen(d.obligations[o])

RequestOK(d, L, r, q) ==
    /\ IsRequest(q)
    /\ q.stage # "IDLE" => Asked(d, q.command, q.expects)
    /\ q.stage \in InSpace =>
           /\ Has(L, r, <<"SPACE">>, SpaceMode(q.command.kind))
           /\ d.space = q.expects.space
    /\ q.stage \in Prepared  => PreparedOK(d, q, q.command)
    /\ q.stage \in InOrigins => InOriginsOK(d, L, r, q, q.command)
    /\ q.stage \in Ready     => ReadyOK(d, L, r, q, q.command)
    /\ q.stage \in InCycles  => InCyclesOK(d, L, r, q, q.command)
    /\ q.stage \in Checked   => CheckedOK(d, q, q.command)
    /\ q.stage = "COMMIT"    =>
           /\ Has(L, r, <<"KEY", q.command.key>>, "UPDATE")
           /\ d.receipts[q.command.key] = NoReceipt

Inv ==
    /\ RowsOK(db)
    /\ DOMAIN request = Requests
    /\ request = [r \in Requests |-> request[r]]
    /\ lost \in 0 .. MaxLost
    /\ \A l \in locks : LockOK(db, locks, request, l)
    /\ \A r \in Requests : RequestOK(db, locks, r, request[r])

-----------------------------------------------------------------------------
(***************************************************************************)
(* A step that writes no row.                                              *)
(***************************************************************************)
\* A request keeps what it has with all the locks it had, and more.
LEMMA MoreLocks ==
    ASSUME NEW d, NEW L, NEW M, NEW r, NEW q, RequestOK(d, L, r, q),
           \A on, mode : Has(L, r, on, mode) => Has(M, r, on, mode)
    PROVE  RequestOK(d, M, r, q)
<1>1. q.stage \in InOrigins => InOriginsOK(d, M, r, q, q.command)
  BY DEF RequestOK, InOriginsOK
<1>2. q.stage \in Ready => ReadyOK(d, M, r, q, q.command)
  BY DEF RequestOK, ReadyOK
<1>3. q.stage \in InCycles => InCyclesOK(d, M, r, q, q.command)
  BY DEF RequestOK, InCyclesOK
<1> QED
  BY <1>1, <1>2, <1>3 DEF RequestOK

\* A row that is locked FOR UPDATE is locked by nobody else.
LEMMA Exclusive ==
    ASSUME Inv, NEW r, NEW p, NEW on, NEW mode,
           Has(locks, r, on, "UPDATE"), Has(locks, p, on, mode)
    PROVE  r = p
BY DEF Inv, LockOK, Has, LockOf, Conflicts

\* A request that is not in the space has no locks.
LEMMA NoLocks ==
    ASSUME Inv, NEW r \in Requests, request[r].stage \notin InSpace
    PROVE  locks = Unlocked(r)
BY DEF Inv, LockOK, Unlocked

\* What a statement may do to the locks: release those of the request, or add one.
Releases(r) == locks' = Unlocked(r)

Adds(r, on, mode) ==
    /\ locks' = locks \cup {LockOf(r, on, mode)}
    /\ mode \in {"SHARE", "UPDATE"}
    /\ \A l \in locks : ~ Conflicts(l, r, on, mode)
    /\ \A f \in Origins : on = <<"ORIGIN", f>> => mode = "UPDATE"
    /\ \A k \in Cycles :
           /\ on = <<"CYCLE", k>>
           /\ ~ HasCycle(db, k) \/ request[r].command.kind = "FINALIZE"
           => mode = "UPDATE"

Stays(r, row) == row.stage \in InSpace /\ row.command = request[r].command

Moves(r, row) ==
    /\ request' = [request EXCEPT ![r] = row]
    /\ db' = db
    /\ RequestOK(db, locks', r, row)
    /\ \/ Releases(r)
       \/ locks' = locks /\ Stays(r, row)
       \/ Stays(r, row) /\ \E on, mode : Adds(r, on, mode)

LEMMA InvMoves ==
    ASSUME Inv, NEW r \in Requests, NEW row, Moves(r, row), lost' \in 0 .. MaxLost
    PROVE  Inv'
<1>1. /\ request' = [request EXCEPT ![r] = row] /\ db' = db
      /\ RequestOK(db, locks', r, row)
  BY DEF Moves
<1>2. /\ DOMAIN request' = Requests
      /\ request' = [p \in Requests |-> request'[p]]
      /\ request'[r] = row
      /\ \A p \in Requests \ {r} : request'[p] = request[p]
  BY <1>1 DEF Inv
<1>3. ASSUME NEW p \in Requests
      PROVE  RequestOK(db, locks', p, request'[p])
  <2>1. CASE p = r
    BY <1>1, <1>2, <2>1
  <2>2. CASE p # r
    <3>1. RequestOK(db, locks, p, request[p])
      BY DEF Inv
    <3>2. \A on, mode : Has(locks, p, on, mode) => Has(locks', p, on, mode)
      BY <2>2 DEF Moves, Releases, Adds, Unlocked, Has, LockOf
    <3> QED
      BY <1>2, <2>2, <3>1, <3>2, MoreLocks
  <2> QED
    BY <2>1, <2>2
<1>4. ASSUME NEW l \in locks'
      PROVE  LockOK(db, locks', request', l)
  <2>1. CASE Releases(r)
    <3>1. l \in locks /\ l.by # r /\ locks' \subseteq locks
      BY <2>1 DEF Releases, Unlocked
    <3>2. LockOK(db, locks, request, l)
      BY <3>1 DEF Inv
    <3> QED
      BY <1>2, <3>1, <3>2 DEF LockOK
  <2>2. CASE locks' = locks /\ Stays(r, row)
    <3>1. LockOK(db, locks, request, l)
      BY <2>2 DEF Inv
    <3> QED
      BY <1>2, <2>2, <3>1 DEF LockOK, Stays
  <2>3. ASSUME Stays(r, row), NEW on, NEW mode, Adds(r, on, mode)
        PROVE  LockOK(db, locks', request', l)
    <3>1. PICK new : new = LockOf(r, on, mode)
      OBVIOUS
    <3>2. /\ new.by = r /\ new.on = on /\ new.mode = mode
          /\ new = LockOf(new.by, new.on, new.mode)
      BY <3>1 DEF LockOf
    <3>3. locks' = locks \cup {new}
      BY <2>3, <3>1 DEF Adds
    <3>4. CASE l \in locks
      <4>1. LockOK(db, locks, request, l)
        BY <3>4 DEF Inv
      <4>2. ~ Conflicts(l, r, on, mode)
        BY <2>3, <3>4 DEF Adds
      <4>3. ~ Conflicts(new, l.by, l.on, l.mode)
        BY <3>2, <4>2 DEF Conflicts
      <4> QED
        BY <1>2, <2>3, <3>3, <4>1, <4>3 DEF LockOK, Stays
    <3>5. CASE l = new
      <4>1. \A m \in locks' : ~ Conflicts(m, r, on, mode)
        BY <2>3, <3>2, <3>3 DEF Adds, Conflicts
      <4> QED
        BY <1>2, <2>3, <3>2, <3>5, <4>1 DEF LockOK, Stays, Adds
    <3> QED
      BY <3>3, <3>4, <3>5
  <2> QED
    BY <2>1, <2>2, <2>3 DEF Moves
<1> QED
  BY <1>1, <1>2, <1>3, <1>4 DEF Inv

-----------------------------------------------------------------------------
(***************************************************************************)
(* Requests that begin, end and begin again.                               *)
(***************************************************************************)
LEMMA CommandOK ==
    ASSUME NEW c \in Commands
    PROVE  /\ c.kind \in Kinds /\ c.key \in Keys
           /\ c.kind \in {"TRANSFER", "OFFSET", "WAIVE", "MOVE"} =>
                  ToSet(c.targets) \subseteq Obligations /\ ToSet(c.targets) # {}
           /\ c.kind \in {"FINALIZE", "START_CLOSURE"} => ToSet(c.targets) = {}
           /\ c.kind \in {"MOVE", "RECONCILE", "REVERSE"} =>
                  c.cycle \in Cycles \cup {NoCycle}
           /\ c.kind = "RECONCILE" => c.origin \in Origins
           /\ c.kind = "REVERSE" => c.original \in Keys
           /\ c.kind = "FINALIZE" => c.cycle \in Cycles
BY CommandsAssumption DEF Kinds

OutOfSpace == {"IDLE", "LOST", "READ", "SPACE", "RACE", "ANSWERED"}

\* Out of the space a request is what was asked for.
LEMMA OutsideOK ==
    ASSUME NEW d, NEW L, NEW r, NEW q, IsRequest(q), q.stage \in OutOfSpace,
           Asked(d, q.command, q.expects)
    PROVE  RequestOK(d, L, r, q)
BY DEF RequestOK, OutOfSpace, InSpace, Prepared, InOrigins, Ready, InCycles, Checked

\* A request that has come further has been asked for.
LEMMA WasAsked ==
    ASSUME Inv, NEW r \in Requests
    PROVE  /\ IsRequest(request[r])
           /\ RequestOK(db, locks, r, request[r])
           /\ request[r].stage # "IDLE" =>
                  /\ Asked(db, request[r].command, request[r].expects)
                  /\ request[r].command \in Commands
BY DEF Inv, RequestOK, Asked

LEMMA EndedMoves ==
    ASSUME Inv, NEW r \in Requests, NEW stage \in {"LOST", "RACE", "ANSWERED"},
           NEW answer, Ended(r, stage, answer), request[r].stage # "IDLE",
           db' = db
    PROVE  \E row : Moves(r, row)
<1>1. PICK row : row = [Nobody EXCEPT !.stage   = stage,
                                      !.command = request[r].command,
                                      !.expects = request[r].expects,
                                      !.answer  = answer]
  OBVIOUS
<1>2. stage \in Stages /\ stage \in OutOfSpace
  BY DEF Stages, OutOfSpace
<1>3. /\ IsRequest(row) /\ row.stage = stage
      /\ row.command = request[r].command /\ row.expects = request[r].expects
  BY <1>1, <1>2 DEF Nobody, IsRequest
<1>4. RequestOK(db, locks', r, row)
  BY <1>2, <1>3, WasAsked, OutsideOK
<1> QED
  BY <1>1, <1>4 DEF Ended, Moves, Releases

LEMMA BegunMoves ==
    ASSUME Inv, NEW r \in Requests, request[r].stage \in {"IDLE", "LOST"},
           NEW c, NEW e, Asked(db, c, e),
           request' = [request EXCEPT ![r] = Begun(c, e)], db' = db,
           locks' = locks
    PROVE  \E row : Moves(r, row)
<1>1. PICK row : row = Begun(c, e)
  OBVIOUS
<1>2. IsRequest(row) /\ row.stage = "READ" /\ row.command = c /\ row.expects = e
  BY <1>1 DEF Begun, Nobody, IsRequest, Stages
<1>3. RequestOK(db, locks', r, row)
  BY <1>2, OutsideOK DEF OutOfSpace
<1>4. Releases(r)
  BY NoLocks DEF InSpace, Releases
<1> QED
  BY <1>1, <1>3, <1>4 DEF Moves

\* What a client has seen.
LEMMA SeenShape ==
    ASSUME NEW d, NEW c \in Commands
    PROVE  AsSeen(c, Seen(d, c))
<1>1. PICK e : e = Seen(d, c)
  OBVIOUS
<1>2. /\ e = [space |-> e.space, commitments |-> e.commitments,
              obligations |-> e.obligations, cycles |-> e.cycles]
      /\ e.commitments = [f \in {f \in Origins : c.kind = "RECONCILE" /\ f = c.origin}
                              |-> d.commitments[f]]
      /\ e.obligations = [o \in IF c.kind = "RECONCILE" THEN {} ELSE ReadBy(d, c) |->
                              d.obligations[o].version]
      /\ e.cycles = CycleVersions(d, Versioned(d, c, Rows(d, c)))
  BY <1>1 DEF Seen
<1>3. e.commitments = [f \in {f \in Origins : c.kind = "RECONCILE" /\ f = c.origin}
                           |-> e.commitments[f]]
  BY <1>2
<1>4. /\ e.obligations = [o \in DOMAIN e.obligations |-> e.obligations[o]]
      /\ c.kind = "RECONCILE" \/ ~ Acts(c.kind) => DOMAIN e.obligations = {}
  <2>1. ~ Acts(c.kind) => ReadBy(d, c) = {}
    BY CommandOK DEF Acts, ReadBy, Named
  <2> QED
    BY <1>2, <2>1
<1>5. e.cycles = [k \in DOMAIN e.cycles |-> e.cycles[k]]
  BY <1>2 DEF CycleVersions
<1>6. c.kind \in {"TRANSFER", "WAIVE", "RECONCILE", "START_CLOSURE"} =>
          DOMAIN e.cycles = {}
  BY <1>2 DEF CycleVersions, Versioned
<1> QED
  BY <1>1, <1>2, <1>3, <1>4, <1>5, <1>6 DEF AsSeen

LEMMA ClientMoves ==
    ASSUME Inv, NEW r \in Requests, Client(r)
    PROVE  (\E row : Moves(r, row)) /\ lost' \in 0 .. MaxLost
<1>1. ASSUME NEW c \in Commands, Ask(r, c)
      PROVE  \E row : Moves(r, row)
  <2>1. \A k \in Versioned(db, c, Rows(db, c)) : HasCycle(db, k)
    BY <1>1 DEF Ask
  <2>2. c.kind = "FINALIZE" => HasCycle(db, c.cycle)
    BY <2>1 DEF Versioned
  <2>3. c.kind = "REVERSE" /\ c.cycle # NoCycle => HasCycle(db, c.cycle)
    BY <2>1 DEF Versioned
  <2>4. Asked(db, c, Seen(db, c))
    BY <1>1, <2>2, <2>3, SeenShape DEF Ask, Asked
  <2> QED
    BY <1>1, <2>4, BegunMoves DEF Ask
<1>2. ASSUME NEW twin \in Requests, AskAgain(r, twin)
      PROVE  \E row : Moves(r, row)
  <2>1. Asked(db, request[twin].command, request[twin].expects)
    BY <1>2, WasAsked DEF AskAgain
  <2> QED
    BY <1>2, <2>1, BegunMoves DEF AskAgain
<1>3. ASSUME Lose(r)
      PROVE  \E row : Moves(r, row)
  <2>1. Ended(r, "LOST", "NONE") /\ request[r].stage # "IDLE" /\ db' = db
    BY <1>3 DEF Lose
  <2> QED
    BY <2>1, EndedMoves
<1>4. ASSUME Retry(r)
      PROVE  \E row : Moves(r, row)
  <2>1. Asked(db, request[r].command, request[r].expects)
    BY <1>4, WasAsked DEF Retry
  <2> QED
    BY <1>4, <2>1, BegunMoves DEF Retry, Inv
<1>5. lost' \in 0 .. MaxLost
  BY MaxLostAssumption DEF Client, Ask, AskAgain, Lose, Retry, Inv
<1> QED
  BY <1>1, <1>2, <1>3, <1>4, <1>5 DEF Client

-----------------------------------------------------------------------------
(***************************************************************************)
(* The statements of a transaction, but for the last.                      *)
(***************************************************************************)
\* A row of requests that has moved on.
LEMMA GoesRow ==
    ASSUME NEW q, IsRequest(q), NEW stage \in Stages, NEW row,
           row = [q EXCEPT !.stage = stage]
    PROVE  /\ IsRequest(row)
           /\ row.stage = stage /\ row.command = q.command
           /\ row.expects = q.expects /\ row.seen = q.seen
           /\ row.origins = q.origins /\ row.cycles = q.cycles
           /\ row.states = q.states
BY DEF IsRequest

\* What is refused depends on what was read, and on nothing else of a request.
LEMMA SameRefusals ==
    ASSUME NEW d, NEW q, NEW row, NEW c,
           row.command = q.command, row.expects = q.expects,
           row.seen = q.seen, row.cycles = q.cycles, row.states = q.states
    PROVE  /\ FinalizedThen(row) = FinalizedThen(q)
           /\ WrittenBy(d, row) = WrittenBy(d, q)
           /\ RefusedAtCycles(d, row, c) <=> RefusedAtCycles(d, q, c)
           /\ OutOfDate(d, row, c) <=> OutOfDate(d, q, c)
<1>1. FinalizedThen(row) = FinalizedThen(q)
  BY DEF FinalizedThen
<1>2. WrittenBy(d, row) = WrittenBy(d, q)
  BY <1>1 DEF WrittenBy
<1>3. \A written : AffectedCycles(row, written) = AffectedCycles(q, written)
  BY DEF AffectedCycles
<1>4. RefusedAtCycles(d, row, c) <=> RefusedAtCycles(d, q, c)
  BY <1>2, <1>3 DEF RefusedAtCycles
<1>5. OutOfDate(d, row, c) <=> OutOfDate(d, q, c)
  BY DEF OutOfDate
<1> QED
  BY <1>1, <1>2, <1>4, <1>5

LEMMA SameRows ==
    ASSUME NEW d, NEW L, NEW r, NEW q, NEW row, NEW c,
           row.command = q.command, row.expects = q.expects,
           row.seen = q.seen, row.origins = q.origins, row.cycles = q.cycles,
           row.states = q.states,
           row.stage = "ORIGINS" => q.stage \in {"DISCOVER", "ORIGINS"},
           row.stage \in {"ORIGINS", "CREATE"} => Acts(c.kind),
           row.stage = "CREATE" => q.stage = "CREATE"
    PROVE  /\ PreparedOK(d, q, c) => PreparedOK(d, row, c)
           /\ InOriginsOK(d, L, r, q, c) => InOriginsOK(d, L, r, row, c)
           /\ ReadyOK(d, L, r, q, c) => ReadyOK(d, L, r, row, c)
           /\ InCyclesOK(d, L, r, q, c) => InCyclesOK(d, L, r, row, c)
           /\ CheckedOK(d, q, c) => CheckedOK(d, row, c)
<1>1. /\ FinalizedThen(row) = FinalizedThen(q)
      /\ RefusedAtCycles(d, row, c) <=> RefusedAtCycles(d, q, c)
      /\ OutOfDate(d, row, c) <=> OutOfDate(d, q, c)
  BY SameRefusals
<1>2. PreparedOK(d, q, c) => PreparedOK(d, row, c)
  BY DEF PreparedOK
<1>3. StatesOK(d, q) => StatesOK(d, row)
  BY DEF StatesOK
<1>4. InOriginsOK(d, L, r, q, c) => InOriginsOK(d, L, r, row, c)
  BY <1>1, <1>3 DEF InOriginsOK
<1>5. ReadyOK(d, L, r, q, c) => ReadyOK(d, L, r, row, c)
  BY DEF ReadyOK
<1>6. InCyclesOK(d, L, r, q, c) => InCyclesOK(d, L, r, row, c)
  BY <1>1 DEF InCyclesOK
<1>7. CheckedOK(d, q, c) => CheckedOK(d, row, c)
  BY <1>1 DEF CheckedOK
<1> QED
  BY <1>2, <1>4, <1>5, <1>6, <1>7

LEMMA AnswerMoves ==
    ASSUME Inv, NEW r \in Requests, request[r].stage # "IDLE",
           (\E answer : Answer(r, answer)) \/ AnswerWithReceipt(r)
    PROVE  (\E row : Moves(r, row)) /\ lost' = lost
<1>1. PICK answer : Answer(r, answer)
  BY DEF AnswerWithReceipt
<1>2. Ended(r, "ANSWERED", answer) /\ db' = db /\ lost' = lost
  BY <1>1 DEF Answer
<1> QED
  BY <1>2, EndedMoves

LEMMA ReadMoves ==
    ASSUME Inv, NEW r \in Requests, Read(r)
    PROVE  (\E row : Moves(r, row)) /\ lost' = lost
<1>1. CASE AnswerWithReceipt(r)
  BY <1>1, AnswerMoves DEF Read
<1>2. CASE Goes(r, "SPACE") /\ locks' = locks
  <2>1. PICK row : row = [request[r] EXCEPT !.stage = "SPACE"]
    OBVIOUS
  <2>2. /\ request' = [request EXCEPT ![r] = row]
        /\ db' = db /\ lost' = lost
    BY <1>2, <2>1 DEF Goes
  <2>3. /\ IsRequest(row) /\ row.stage = "SPACE"
        /\ row.command = request[r].command /\ row.expects = request[r].expects
    BY <2>1, WasAsked, GoesRow DEF Stages
  <2>4. Asked(db, row.command, row.expects)
    BY <2>3, WasAsked DEF Read
  <2>5. RequestOK(db, locks', r, row)
    BY <2>3, <2>4, OutsideOK DEF OutOfSpace
  <2>6. Releases(r)
    BY <1>2, NoLocks DEF Read, InSpace, Releases
  <2> QED
    BY <2>2, <2>5, <2>6 DEF Moves
<1> QED
  BY <1>1, <1>2 DEF Read

\* A lock that is granted.
LEMMA LockAdds ==
    ASSUME Inv, NEW r \in Requests, NEW on, NEW mode \in {"SHARE", "UPDATE"},
           Lock(r, on, mode),
           mode = "UPDATE" \/ on = <<"SPACE">>
    PROVE  Adds(r, on, mode) /\ Has(locks', r, on, mode)
           /\ (\A p, m, n : Has(locks, p, m, n) => Has(locks', p, m, n))
<1>1. PICK new : new = LockOf(r, on, mode)
  OBVIOUS
<1>2. locks' = locks \cup {new} /\ \A l \in locks : ~ Conflicts(l, r, on, mode)
  BY <1>1 DEF Lock, LockOf
<1>3. /\ \A f \in Origins : on = <<"ORIGIN", f>> => mode = "UPDATE"
      /\ \A k \in Cycles : on = <<"CYCLE", k>> => mode = "UPDATE"
  OBVIOUS
<1>4. locks' = locks \cup {LockOf(r, on, mode)}
  BY <1>1, <1>2
<1>5. Adds(r, on, mode)
  BY <1>2, <1>3, <1>4, Zenon DEF Adds
<1> QED
  BY <1>1, <1>2, <1>5 DEF Has

LEMMA LockSpaceMoves ==
    ASSUME Inv, NEW r \in Requests, LockSpace(r)
    PROVE  (\E row : Moves(r, row)) /\ lost' = lost
<1>1. PICK mode : mode = SpaceMode(request[r].command.kind)
  OBVIOUS
<1>2. mode \in {"SHARE", "UPDATE"}
  BY <1>1 DEF SpaceMode
<1>3. request[r].stage = "SPACE"
  BY DEF LockSpace
<1>4. CASE AnswerWithReceipt(r) \/ Answer(r, "REFUSED")
  BY <1>3, <1>4, AnswerMoves
<1>5. CASE /\ Lock(r, <<"SPACE">>, mode) /\ Goes(r, "DISCOVER")
           /\ db.space = request[r].expects.space
  <2>1. PICK row : row = [request[r] EXCEPT !.stage = "DISCOVER"]
    OBVIOUS
  <2>2. /\ request' = [request EXCEPT ![r] = row]
        /\ db' = db /\ lost' = lost
    BY <1>5, <2>1 DEF Goes
  <2>3. /\ IsRequest(row) /\ row.stage = "DISCOVER"
        /\ row.command = request[r].command /\ row.expects = request[r].expects
    BY <2>1, WasAsked, GoesRow DEF Stages
  <2>4. Asked(db, row.command, row.expects)
    BY <1>3, <2>3, WasAsked
  <2>5. Adds(r, <<"SPACE">>, mode) /\ Has(locks', r, <<"SPACE">>, mode)
    BY <1>2, <1>5, LockAdds
  <2>6. RequestOK(db, locks', r, row)
    BY <1>1, <1>5, <2>3, <2>4, <2>5
    DEF RequestOK, Prepared, InOrigins, Ready, InCycles, Checked
  <2>7. Stays(r, row)
    BY <2>3 DEF Stays, InSpace
  <2> QED
    BY <2>2, <2>5, <2>6, <2>7 DEF Moves
<1> QED
  BY <1>1, <1>4, <1>5 DEF LockSpace, SpaceMode, Kind

\* The obligations a command names are obligations, and their origins origins.
LEMMA NamedOK ==
    ASSUME NEW d, RowsOK(d), NEW c, NEW e, Asked(d, c, e)
    PROVE  /\ Named(d, c) \subseteq Obligations
           /\ ReadBy(d, c) \subseteq Obligations
           /\ OriginsOf(d, c) \subseteq Origins
           /\ ~ Acts(c.kind) => Named(d, c) = {} /\ OriginsOf(d, c) = {}
           /\ Acts(c.kind) => OriginsOf(d, c) # {}
           /\ Acts(c.kind) /\ c.kind # "RECONCILE" => Named(d, c) # {}
<1>1. c \in Commands /\ c.kind \in Kinds
  BY CommandOK DEF Asked
<1>2. c.kind = "REVERSE" =>
          /\ ToSet(Original(d, c).command.targets) \subseteq Obligations
          /\ ToSet(Original(d, c).command.targets) # {}
  <2> SUFFICES ASSUME c.kind = "REVERSE"
               PROVE  /\ ToSet(Original(d, c).command.targets) \subseteq Obligations
                      /\ ToSet(Original(d, c).command.targets) # {}
    OBVIOUS
  <2>1. c.original \in Keys
    BY <1>1, CommandOK
  <2>2. Original(d, c).command.kind \in {"TRANSFER", "OFFSET"}
    BY DEF Asked
  <2>3. Original(d, c) # NoReceipt
    BY <2>2 DEF NoReceipt, NoCommand
  <2>4. Original(d, c).command \in Commands
    BY <2>1, <2>3 DEF RowsOK, ReceiptOK, Original
  <2> QED
    BY <2>2, <2>4, CommandOK
<1>3. /\ Named(d, c) \subseteq Obligations
      /\ ~ Acts(c.kind) => Named(d, c) = {}
      /\ Acts(c.kind) /\ c.kind # "RECONCILE" => Named(d, c) # {}
  BY <1>1, <1>2, CommandOK DEF Named, Acts, Kinds
<1>4. OriginsOf(d, c) \subseteq Origins
  <2>1. \A o \in Obligations : OriginOf[o] \in Origins
    BY IdsAssumption
  <2>2. c.kind = "RECONCILE" => c.origin \in Origins
    BY <1>1, CommandOK
  <2> QED
    BY <1>3, <2>1, <2>2 DEF OriginsOf
<1>5. ReadBy(d, c) \subseteq Obligations
  <2>1. \A f : RowsOf(d, f) \subseteq Obligations
    BY DEF RowsOf
  <2> QED
    BY <1>3, <2>1 DEF ReadBy
<1>6. /\ ~ Acts(c.kind) => OriginsOf(d, c) = {}
      /\ Acts(c.kind) => OriginsOf(d, c) # {}
  BY <1>3 DEF OriginsOf, Acts
<1> QED
  BY <1>3, <1>4, <1>5, <1>6

\* The rows of a command, as they are now.
LEMMA RowsShape ==
    ASSUME NEW d, RowsOK(d), NEW c, NEW e, Asked(d, c, e), NEW rows,
           rows = Rows(d, c)
    PROVE  /\ DOMAIN rows = ReadBy(d, c)
           /\ rows = [o \in DOMAIN rows |-> rows[o]]
           /\ \A o \in DOMAIN rows : o \in Obligations /\ RowOK(d, rows[o])
           /\ \A o \in DOMAIN rows : rows[o] = d.obligations[o]
BY NamedOK DEF Rows, RowsOK

LEMMA DiscoverMoves ==
    ASSUME Inv, NEW r \in Requests, Discover(r)
    PROVE  (\E row : Moves(r, row)) /\ lost' = lost
<1> DEFINE c    == request[r].command
           next == IF c.kind \in {"FINALIZE", "START_CLOSURE"} THEN "CYCLES"
                                                                ELSE "ORIGINS"
           read == IF c.kind = "RECONCILE" THEN NoRows ELSE Rows(db, c)
           lock == IF c.kind = "FINALIZE" THEN {c.cycle} ELSE {}
<1>1. PICK row : row = [request[r] EXCEPT !.stage = next, !.seen = read,
                            !.origins = OriginsOf(db, c), !.cycles = lock]
  OBVIOUS
<1>2. /\ request' = [request EXCEPT ![r] = row]
      /\ db' = db /\ lost' = lost /\ locks' = locks
      /\ request[r].stage = "DISCOVER"
  <2>1. /\ request' = [request EXCEPT ![r] =
               [request[r] EXCEPT !.stage = next, !.seen = read,
                                  !.origins = OriginsOf(db, c), !.cycles = lock]]
        /\ db' = db /\ lost' = lost /\ locks' = locks
        /\ request[r].stage = "DISCOVER"
    BY Zenon DEF Discover, Inv
  <2> QED
    BY <1>1, <2>1
<1>3. /\ row = [stage |-> row.stage, command |-> row.command,
                expects |-> row.expects, seen |-> row.seen,
                origins |-> row.origins, cycles |-> row.cycles,
                states |-> row.states, answer |-> row.answer]
      /\ row.stage = next /\ row.command = c /\ row.expects = request[r].expects
      /\ row.seen = read /\ row.origins = OriginsOf(db, c) /\ row.cycles = lock
  <2>1. IsRequest(request[r])
    BY WasAsked
  <2> HIDE DEF next, read, lock
  <2> QED
    BY <1>1, <2>1 DEF IsRequest
<1>4. IsRequest(row)
  BY <1>3 DEF IsRequest, Stages
<1>5. /\ RowsOK(db) /\ Asked(db, c, row.expects)
      /\ c \in Commands
      /\ Has(locks, r, <<"SPACE">>, SpaceMode(c.kind))
      /\ db.space = row.expects.space
  BY <1>2, <1>3, WasAsked DEF Inv, RequestOK, InSpace
<1>6. PreparedOK(db, row, c)
  <2>1. /\ row.seen = [o \in DOMAIN row.seen |-> row.seen[o]]
        /\ \A o \in DOMAIN row.seen : o \in Obligations /\ RowOK(db, row.seen[o])
    <3>1. CASE c.kind = "RECONCILE"
      BY <1>3, <3>1 DEF NoRows
    <3>2. CASE c.kind # "RECONCILE"
      <4>1. row.seen = Rows(db, c)
        BY <1>3, <3>2
      <4> QED
        BY <1>5, <4>1, RowsShape
    <3> QED
      BY <3>1, <3>2
  <2>2. c.kind \notin {"RECONCILE", "REVERSE"} => DOMAIN row.seen = Named(db, c)
    BY <1>3 DEF Rows, ReadBy
  <2>3. ~ Acts(c.kind) => row.stage \notin {"ORIGINS", "CREATE"}
    BY <1>3 DEF Acts
  <2> QED
    BY <1>3, <2>1, <2>2, <2>3 DEF PreparedOK
<1>7. row.stage # "ORIGINS" => InOriginsOK(db, locks, r, row, c)
  <2> SUFFICES ASSUME c.kind \in {"FINALIZE", "START_CLOSURE"}
               PROVE  InOriginsOK(db, locks, r, row, c)
    BY <1>3
  <2>1. row.origins = {}
    BY <1>3, <1>5, NamedOK DEF Acts
  <2>2. row.cycles \subseteq Cycles
    BY <1>3, <1>5, CommandOK
  <2> QED
    BY <1>3, <2>1, <2>2 DEF InOriginsOK, Acts
<1>8. row.stage # "ORIGINS" => ReadyOK(db, locks, r, row, c)
  BY <1>3, <1>5 DEF ReadyOK, Asked
<1>9. RequestOK(db, locks', r, row)
  BY <1>2, <1>3, <1>4, <1>5, <1>6, <1>7, <1>8
  DEF RequestOK, InOrigins, Ready, InCycles, Checked
<1>10. Stays(r, row)
  BY <1>3 DEF Stays, InSpace
<1> QED
  BY <1>2, <1>9, <1>10 DEF Moves

\* A request that goes on with what it has read, and maybe one lock more.
LEMMA GoesMoves ==
    ASSUME Inv, NEW r \in Requests, NEW stage \in Prepared, Goes(r, stage),
           request[r].stage \in Prepared,
           locks' = locks \/ (\E on, mode : Adds(r, on, mode)),
           stage \in {"ORIGINS", "CREATE"} => request[r].stage = stage,
           stage \in InOrigins => request[r].stage \in InOrigins,
           stage \in Ready =>
               ReadyOK(db, locks', r, request[r], request[r].command),
           stage \in InCycles =>
               InCyclesOK(db, locks', r, request[r], request[r].command),
           stage \in Checked => CheckedOK(db, request[r], request[r].command),
           stage = "COMMIT" =>
               /\ Has(locks', r, <<"KEY", request[r].command.key>>, "UPDATE")
               /\ db.receipts[request[r].command.key] = NoReceipt
    PROVE  (\E row : Moves(r, row)) /\ lost' = lost
<1>1. PICK row : row = [request[r] EXCEPT !.stage = stage]
  OBVIOUS
<1>2. /\ request' = [request EXCEPT ![r] = row]
      /\ db' = db /\ lost' = lost
  BY <1>1 DEF Goes
<1>3. /\ IsRequest(row)
      /\ row.stage = stage /\ row.command = request[r].command
      /\ row.expects = request[r].expects /\ row.seen = request[r].seen
      /\ row.origins = request[r].origins /\ row.cycles = request[r].cycles
      /\ row.states = request[r].states
  BY <1>1, WasAsked, GoesRow DEF Stages, Prepared
<1>4. \A on, mode : Has(locks, r, on, mode) => Has(locks', r, on, mode)
  BY DEF Adds, Has
<1>5. PICK q, c : q = request[r] /\ c = request[r].command
  OBVIOUS
<1>6. RequestOK(db, locks', r, q) /\ c = q.command
  BY <1>4, <1>5, WasAsked, MoreLocks
<1>7. /\ PreparedOK(db, q, c) /\ Asked(db, c, q.expects)
      /\ q.stage \in InOrigins => InOriginsOK(db, locks', r, q, c)
      /\ Has(locks', r, <<"SPACE">>, SpaceMode(c.kind))
      /\ db.space = q.expects.space
  BY <1>5, <1>6 DEF RequestOK, InSpace, Prepared
<1>8. row.stage \in {"ORIGINS", "CREATE"} => Acts(c.kind)
  BY <1>3, <1>5, <1>7 DEF PreparedOK
<1>9. /\ PreparedOK(db, row, c)
      /\ InOriginsOK(db, locks', r, q, c) => InOriginsOK(db, locks', r, row, c)
      /\ ReadyOK(db, locks', r, q, c) => ReadyOK(db, locks', r, row, c)
      /\ InCyclesOK(db, locks', r, q, c) => InCyclesOK(db, locks', r, row, c)
      /\ CheckedOK(db, q, c) => CheckedOK(db, row, c)
  BY <1>3, <1>5, <1>7, <1>8, SameRows
<1>10. RequestOK(db, locks', r, row)
  BY <1>3, <1>5, <1>7, <1>9 DEF RequestOK
<1>11. Stays(r, row)
  BY <1>3 DEF Stays, InSpace, Prepared
<1> QED
  BY <1>2, <1>10, <1>11 DEF Moves

LEMMA LockOriginMoves ==
    ASSUME Inv, NEW r \in Requests, LockOrigin(r)
    PROVE  (\E row : Moves(r, row)) /\ lost' = lost
<1>1. PICK on : /\ on = <<"ORIGIN", Sorted(OriginsLeft(r), request[r].command)>>
                /\ Lock(r, on, "UPDATE")
  BY DEF LockOrigin
<1>2. Adds(r, on, "UPDATE")
  BY <1>1, LockAdds
<1> QED
  BY <1>2, GoesMoves DEF LockOrigin, Prepared, InOrigins, Ready, InCycles, Checked

LEMMA LockObligationMoves ==
    ASSUME Inv, NEW r \in Requests, LockObligation(r)
    PROVE  (\E row : Moves(r, row)) /\ lost' = lost
<1>1. PICK on : /\ on = <<"OBLIGATION", Min(ObligationsLeft(r))>>
                /\ Lock(r, on, "UPDATE")
  BY DEF LockObligation
<1>2. /\ Adds(r, on, "UPDATE")
      /\ \A m, n : Has(locks, r, m, n) => Has(locks', r, m, n)
  BY <1>1, LockAdds
<1>3. /\ ReadyOK(db, locks, r, request[r], request[r].command)
      /\ InCyclesOK(db, locks, r, request[r], request[r].command)
  BY WasAsked DEF LockObligation, RequestOK, Ready, InCycles
<1>4. /\ ReadyOK(db, locks', r, request[r], request[r].command)
      /\ InCyclesOK(db, locks', r, request[r], request[r].command)
  BY <1>2, <1>3 DEF ReadyOK, InCyclesOK
<1> QED
  BY <1>2, <1>4, GoesMoves
  DEF LockObligation, Prepared, InOrigins, Ready, InCycles, Checked

LEMMA SaveReceiptMoves ==
    ASSUME Inv, NEW r \in Requests, SaveReceipt(r)
    PROVE  (\E row : Moves(r, row)) /\ lost' = lost
<1>1. CASE HasReceipt(r)
  <2>1. /\ Ended(r, "RACE", "NONE") /\ db' = db /\ lost' = lost
        /\ request[r].stage # "IDLE"
    BY <1>1 DEF SaveReceipt
  <2> QED
    BY <2>1, EndedMoves
<1>2. CASE ~ HasReceipt(r)
  <2>1. PICK on : /\ on = <<"KEY", request[r].command.key>>
                  /\ Lock(r, on, "UPDATE")
    BY <1>2 DEF SaveReceipt
  <2>2. /\ Adds(r, on, "UPDATE") /\ Has(locks', r, on, "UPDATE")
        /\ \A m, n : Has(locks, r, m, n) => Has(locks', r, m, n)
    BY <2>1, LockAdds
  <2>3. RequestOK(db, locks', r, request[r])
    BY <2>2, WasAsked, MoreLocks
  <2>4. /\ ReadyOK(db, locks', r, request[r], request[r].command)
        /\ InCyclesOK(db, locks', r, request[r], request[r].command)
        /\ CheckedOK(db, request[r], request[r].command)
    BY <2>3 DEF SaveReceipt, RequestOK, Ready, InCycles, Checked
  <2>5. Goes(r, "COMMIT") /\ request[r].stage = "SAVE"
    BY <1>2 DEF SaveReceipt
  <2> QED
    BY <1>2, <2>1, <2>2, <2>4, <2>5, GoesMoves
    DEF HasReceipt, Prepared, InOrigins, Ready, InCycles, Checked
<1> QED
  BY <1>1, <1>2

LEMMA RecoverMoves ==
    ASSUME Inv, NEW r \in Requests, Recover(r)
    PROVE  (\E row : Moves(r, row)) /\ lost' = lost
BY AnswerMoves DEF Recover, AnswerRace

LEMMA CreateCycleMoves ==
    ASSUME Inv, NEW r \in Requests, CreateCycle(r)
    PROVE  (\E row : Moves(r, row)) /\ lost' = lost
<1>1. PICK q, c : q = request[r] /\ c = request[r].command
  OBVIOUS
<1>2. q.stage = "CREATE" /\ c = q.command
  BY <1>1 DEF CreateCycle
<1>3. RequestOK(db, locks, r, q)
  BY <1>1, WasAsked
<1>4. PreparedOK(db, q, c) /\ InOriginsOK(db, locks, r, q, c)
  BY <1>2, <1>3 DEF RequestOK, Prepared, InOrigins
<1>5. /\ c.kind \in {"MOVE", "RECONCILE"} /\ c.cycle \in q.cycles
      /\ q.cycles \subseteq Cycles
      /\ q.cycles = CyclesToLock(db, c, q.seen, FinalizedThen(q))
      /\ \A k \in CyclesOf(q.seen) : q.states[k].status # "ABSENT"
      /\ StatesOK(db, q)
  BY <1>2, <1>4 DEF InOriginsOK, Acts
<1>6. \A k \in CyclesOf(q.seen) : HasCycle(db, k)
  BY <1>4 DEF CyclesOf, PreparedOK, RowOK
<1>7. \A k \in q.cycles : k \in CyclesOf(q.seen) \/ k = c.cycle
  BY <1>5 DEF CyclesToLock
<1>8. CASE Goes(r, "CYCLES") /\ locks' = locks
           /\ HasCycle(db, c.cycle) /\ c.kind # "MOVE"
  <2>1. ReadyOK(db, locks', r, q, c)
    BY <1>6, <1>7, <1>8 DEF ReadyOK
  <2> QED
    BY <1>1, <1>2, <1>8, <2>1, GoesMoves
    DEF Prepared, InOrigins, InCycles, Checked
<1>9. CASE Lock(r, <<"CYCLE", c.cycle>>, "UPDATE") /\ Goes(r, "CYCLES")
           /\ ~ HasCycle(db, c.cycle)
  <2>1. PICK on : on = <<"CYCLE", c.cycle>>
    OBVIOUS
  <2>2. /\ Adds(r, on, "UPDATE") /\ Has(locks', r, on, "UPDATE")
    BY <1>9, <2>1, LockAdds
  <2>3. ReadyOK(db, locks', r, q, c)
    BY <1>5, <1>6, <1>7, <1>9, <2>1, <2>2 DEF ReadyOK
  <2> QED
    BY <1>1, <1>2, <1>9, <2>2, <2>3, GoesMoves
    DEF Prepared, InOrigins, InCycles, Checked
<1>10. CASE Answer(r, "REFUSED")
  BY <1>1, <1>2, <1>10, AnswerMoves
<1> QED
  BY <1>1, <1>8, <1>9, <1>10 DEF CreateCycle, Kind

LEMMA LockCycleMoves ==
    ASSUME Inv, NEW r \in Requests, LockCycle(r)
    PROVE  (\E row : Moves(r, row)) /\ lost' = lost
<1>1. PICK q, c : q = request[r] /\ c = request[r].command
  OBVIOUS
<1>2. PICK k, on, mode : /\ k = Min(CyclesLeft(r)) /\ on = <<"CYCLE", k>>
                         /\ mode = CycleMode(c.kind)
  OBVIOUS
<1>3. /\ q.stage = "CYCLES" /\ c = q.command /\ CyclesLeft(r) # {}
      /\ Lock(r, on, mode) /\ Goes(r, "CYCLES")
  BY <1>1, <1>2 DEF LockCycle, Sorted, Kind
<1>4. RequestOK(db, locks, r, q)
  BY <1>1, WasAsked
<1>5. InOriginsOK(db, locks, r, q, c) /\ ReadyOK(db, locks, r, q, c)
  BY <1>3, <1>4 DEF RequestOK, InOrigins, Ready
<1>6. k \in CyclesLeft(r)
  <2>1. CyclesLeft(r) \in SUBSET Nat
    BY <1>1, <1>5, IdsAssumption DEF InOriginsOK, CyclesLeft
  <2> QED
    BY <1>2, <1>3, <2>1, MinIsLeast
<1>7. k \in q.cycles /\ ~ Has(locks, r, on, "UPDATE")
  BY <1>1, <1>2, <1>6 DEF CyclesLeft, Holds, Has, LockOf
<1>8. HasCycle(db, k)
  BY <1>2, <1>5, <1>7 DEF ReadyOK
<1>9. PICK new : new = LockOf(r, on, mode)
  OBVIOUS
<1>10. /\ locks' = locks \cup {new}
       /\ \A l \in locks : ~ Conflicts(l, r, on, mode)
  BY <1>3, <1>9 DEF Lock, LockOf
<1>11. /\ \A f \in Origins : on # <<"ORIGIN", f>>
       /\ \A j \in Cycles : on = <<"CYCLE", j>> => j = k
       /\ mode \in {"SHARE", "UPDATE"}
       /\ c.kind = "FINALIZE" => mode = "UPDATE"
  BY <1>2 DEF CycleMode
<1>12. Adds(r, on, mode)
  BY <1>1, <1>8, <1>9, <1>10, <1>11 DEF Adds
<1>13. ReadyOK(db, locks', r, q, c)
  BY <1>5, <1>10 DEF ReadyOK, Has
<1> QED
  BY <1>1, <1>3, <1>12, <1>13, GoesMoves
  DEF Prepared, InOrigins, InCycles, Checked

LEMMA CheckCyclesMoves ==
    ASSUME Inv, NEW r \in Requests, CheckCycles(r)
    PROVE  (\E row : Moves(r, row)) /\ lost' = lost
<1>1. PICK q, c : q = request[r] /\ c = request[r].command
  OBVIOUS
<1>2. q.stage = "CYCLES" /\ c = q.command /\ CyclesLeft(r) = {}
  BY <1>1 DEF CheckCycles
<1>3. RequestOK(db, locks, r, q)
  BY <1>1, WasAsked
<1>4. PreparedOK(db, q, c) /\ ReadyOK(db, locks, r, q, c) /\ c \in Commands
  BY <1>2, <1>3 DEF RequestOK, Prepared, Ready, Asked
<1>5. CASE Answer(r, "REFUSED") \/ AnswerWithReceipt(r)
  BY <1>1, <1>2, <1>5, AnswerMoves
<1>6. CASE /\ Goes(r, "OBLIGATIONS") /\ locks' = locks
           /\ ~ RefusedAtCycles(db, q, c)
  <2>1. ASSUME NEW k \in q.cycles
        PROVE  \E mode \in {"SHARE", "UPDATE"} :
                   /\ Has(locks, r, <<"CYCLE", k>>, mode)
                   /\ c.kind = "FINALIZE" /\ k \in Cycles => mode = "UPDATE"
    <3>1. PICK l \in locks : l.by = r /\ l.on = <<"CYCLE", k>>
      BY <1>1, <1>2 DEF CyclesLeft, Holds
    <3>2. LockOK(db, locks, request, l)
      BY DEF Inv
    <3>3. Has(locks, r, <<"CYCLE", k>>, l.mode) /\ l.mode \in {"SHARE", "UPDATE"}
      BY <3>1, <3>2 DEF LockOK, Has
    <3>4. c.kind = "FINALIZE" /\ k \in Cycles => l.mode = "UPDATE"
      BY <1>1, <3>1, <3>2 DEF LockOK
    <3> QED
      BY <3>3, <3>4
  <2>2. c.kind = "FINALIZE" => c.cycle \in q.cycles /\ c.cycle \in Cycles
    BY <1>4, CommandOK DEF PreparedOK
  <2>3. InCyclesOK(db, locks', r, q, c)
    BY <1>6, <2>1, <2>2 DEF InCyclesOK
  <2> QED
    BY <1>1, <1>2, <1>4, <1>6, <2>3, GoesMoves
    DEF Prepared, InOrigins, Ready, Checked
<1> QED
  BY <1>1, <1>5, <1>6 DEF CheckCycles

\* What a reversal restores exists, and the cycles it was resolved in.
LEMMA OriginalOK ==
    ASSUME NEW d, RowsOK(d), NEW c, NEW e, Asked(d, c, e), c.kind = "REVERSE"
    PROVE  /\ Original(d, c) # NoReceipt
           /\ Original(d, c).command \in Commands
           /\ Resolves(Original(d, c).command.kind)
           /\ DOMAIN Original(d, c).parts = Named(d, c)
           /\ Named(d, c) \subseteq ReadBy(d, c)
           /\ \A o \in Named(d, c) :
                  LET cycle == Original(d, c).parts[o].cycle
                  IN  /\ cycle \in Cycles \cup {NoCycle}
                      /\ cycle # NoCycle => HasCycle(d, cycle)
<1>1. c \in Commands /\ c.original \in Keys
  BY CommandOK DEF Asked
<1>2. Original(d, c).command.kind \in {"TRANSFER", "OFFSET"}
  BY DEF Asked
<1>3. Original(d, c) # NoReceipt
  BY <1>2 DEF NoReceipt, NoCommand
<1>4. Named(d, c) = ToSet(Original(d, c).command.targets)
  BY DEF Named
<1>5. ReceiptOK(d, c.original)
  BY <1>1 DEF RowsOK
<1>6. /\ Original(d, c).command \in Commands
      /\ Resolves(Original(d, c).command.kind)
      /\ DOMAIN Original(d, c).parts = Named(d, c)
      /\ \A o \in Named(d, c) :
             LET cycle == Original(d, c).parts[o].cycle
             IN  /\ Exists(d.obligations[o])
                 /\ cycle \in Cycles \cup {NoCycle}
                 /\ cycle # NoCycle => HasCycle(d, cycle)
  BY <1>2, <1>3, <1>4, <1>5 DEF ReceiptOK, Original, Resolves
<1>7. ASSUME NEW o \in Named(d, c)
      PROVE  o \in ReadBy(d, c)
  <2>1. o \in RowsOf(d, OriginOf[o])
    BY <1>6, NamedOK DEF RowsOf
  <2>2. OriginOf[o] \in OriginsOf(d, c)
    BY DEF OriginsOf
  <2> QED
    BY <2>1, <2>2 DEF ReadBy
<1> QED
  BY <1>3, <1>6, <1>7

LEMMA CheckObligationsMoves ==
    ASSUME Inv, NEW r \in Requests, CheckObligations(r)
    PROVE  (\E row : Moves(r, row)) /\ lost' = lost
<1>1. PICK q, c : q = request[r] /\ c = request[r].command
  OBVIOUS
<1>2. q.stage = "OBLIGATIONS" /\ c = q.command
  BY <1>1 DEF CheckObligations
<1>3. RequestOK(db, locks, r, q) /\ RowsOK(db)
  BY <1>1, WasAsked DEF Inv
<1>4. /\ IsRequest(q) /\ Asked(db, c, q.expects)
      /\ Has(locks, r, <<"SPACE">>, SpaceMode(c.kind))
      /\ db.space = q.expects.space
      /\ PreparedOK(db, q, c)
      /\ InOriginsOK(db, locks, r, q, c)
      /\ ReadyOK(db, locks, r, q, c)
      /\ InCyclesOK(db, locks, r, q, c)
  BY <1>2, <1>3 DEF RequestOK, InSpace, Prepared, InOrigins, Ready, InCycles
<1>5. CASE Answer(r, "REFUSED") \/ AnswerWithReceipt(r)
  BY <1>1, <1>2, <1>5, AnswerMoves
<1>6. CASE /\ request' = [request EXCEPT ![r] =
                  [q EXCEPT !.stage = "SAVE",
                            !.seen  = [o \in DOMAIN q.seen |-> db.obligations[o]]]]
           /\ UNCHANGED <<db, locks, lost>>
           /\ ~ Moved(db, q) /\ ~ OutOfDate(db, q, c)
           /\ Resolves(c.kind) \/ c.kind = "MOVE" =>
                  \A o \in Named(db, c) : IsOpen(db.obligations[o])
  <2>1. PICK seen : seen = [o \in DOMAIN q.seen |-> db.obligations[o]]
    OBVIOUS
  <2>2. PICK row : row = [q EXCEPT !.stage = "SAVE", !.seen = seen]
    OBVIOUS
  <2>3. /\ request' = [request EXCEPT ![r] = row]
        /\ db' = db /\ lost' = lost /\ locks' = locks
    BY <1>6, <2>1, <2>2
  <2>4. /\ row = [stage |-> row.stage, command |-> row.command,
                  expects |-> row.expects, seen |-> row.seen,
                  origins |-> row.origins, cycles |-> row.cycles,
                  states |-> row.states, answer |-> row.answer]
        /\ row.stage = "SAVE" /\ row.command = c /\ row.expects = q.expects
        /\ row.seen = seen /\ row.origins = q.origins
        /\ row.cycles = q.cycles /\ row.states = q.states
    BY <1>2, <1>4, <2>2 DEF IsRequest
  <2>5. IsRequest(row)
    BY <2>4 DEF IsRequest, Stages
  <2>6. /\ DOMAIN seen = DOMAIN q.seen
        /\ \A o \in DOMAIN seen : seen[o] = db.obligations[o]
        /\ \A o \in DOMAIN seen : seen[o].cycle = q.seen[o].cycle
    BY <1>6, <2>1 DEF Moved
  <2>7. PreparedOK(db, row, c)
    <3>1. row.seen = [o \in DOMAIN row.seen |-> row.seen[o]]
      BY <2>1, <2>4
    <3>2. \A o \in DOMAIN row.seen : o \in Obligations /\ RowOK(db, row.seen[o])
      BY <1>3, <1>4, <2>4, <2>6 DEF PreparedOK, RowsOK
    <3> QED
      BY <1>4, <2>4, <2>6, <3>1, <3>2 DEF PreparedOK
  <2>8. c.kind \in {"RECONCILE", "REVERSE"} => seen = q.seen
    BY <1>3, <1>4, <2>1, <2>6, RowsShape DEF InOriginsOK
  <2>9. CyclesOf(seen) = CyclesOf(q.seen)
    BY <2>6 DEF CyclesOf
  <2>10. /\ FinalizedThen(row) = FinalizedThen(q)
         /\ StatesOK(db, q) => StatesOK(db, row)
    BY <2>4 DEF FinalizedThen, StatesOK
  <2>11. InOriginsOK(db, locks, r, row, c)
    <3>1. CASE c.kind \in {"RECONCILE", "REVERSE"}
      BY <1>2, <1>4, <2>4, <2>8, <3>1, SameRows
    <3>2. CASE c.kind \notin {"RECONCILE", "REVERSE"}
      <4>1. CyclesToLock(db, c, seen, FinalizedThen(row))
                = CyclesToLock(db, c, q.seen, FinalizedThen(q))
        BY <2>9, <3>2 DEF CyclesToLock
      <4> QED
        BY <1>4, <2>4, <2>9, <2>10, <3>2, <4>1 DEF InOriginsOK
    <3> QED
      BY <3>1, <3>2
  <2>12. ReadyOK(db, locks, r, row, c)
    BY <1>4, <2>4 DEF ReadyOK
  <2>13. InCyclesOK(db, locks, r, row, c)
    <3>1. CASE c.kind \in {"RECONCILE", "REVERSE"}
      BY <1>2, <1>4, <2>4, <2>8, <3>1, SameRows
    <3>2. CASE c.kind \notin {"RECONCILE", "REVERSE"}
      <4>1. RefusedAtCycles(db, row, c) <=> RefusedAtCycles(db, q, c)
        BY <2>4, <3>2 DEF RefusedAtCycles
      <4> QED
        BY <1>4, <2>4, <4>1 DEF InCyclesOK
    <3> QED
      BY <3>1, <3>2
  <2>14. CheckedOK(db, row, c)
    <3>1. OutOfDate(db, row, c) <=> OutOfDate(db, q, c)
      BY <2>4, <2>6, <2>8 DEF OutOfDate
    <3> QED
      BY <1>6, <2>4, <2>6, <3>1 DEF CheckedOK
  <2>15. RequestOK(db, locks', r, row)
    BY <1>4, <2>3, <2>4, <2>5, <2>7, <2>11, <2>12, <2>13, <2>14 DEF RequestOK
  <2>16. Stays(r, row)
    BY <1>1, <2>4 DEF Stays, InSpace
  <2> QED
    BY <2>3, <2>15, <2>16 DEF Moves
<1>7. \/ Answer(r, "REFUSED") \/ AnswerWithReceipt(r)
      \/ /\ request' = [request EXCEPT ![r] =
                [request[r] EXCEPT
                    !.stage = "SAVE",
                    !.seen  = [o \in DOMAIN request[r].seen |-> db.obligations[o]]]]
         /\ UNCHANGED <<db, locks, lost>>
         /\ ~ Moved(db, request[r])
         /\ ~ OutOfDate(db, request[r], request[r].command)
         /\ Resolves(request[r].command.kind) \/ request[r].command.kind = "MOVE" =>
                \A o \in Named(db, request[r].command) : IsOpen(db.obligations[o])
  BY DEF CheckObligations, Inv
<1> QED
  BY <1>1, <1>5, <1>6, <1>7

\* Only the cycles of the rows matter to what takes up a fact.
LEMMA TakesUpSame ==
    ASSUME NEW rows, NEW S, NEW F, NEW G,
           \A o \in S : rows[o].cycle \in F <=> rows[o].cycle \in G
    PROVE  TakesUpFact(rows, S, F) = TakesUpFact(rows, S, G)
<1>1. {o \in S : (\A p \in S : p <= o) /\ rows[o].cycle \notin F}
          = {o \in S : (\A p \in S : p <= o) /\ rows[o].cycle \notin G}
  OBVIOUS
<1> QED
  BY <1>1 DEF TakesUpFact

\* The rows a request goes on with once it has its origins.
LEMMA LookAgainRow ==
    ASSUME Inv, NEW r \in Requests, NEW q, NEW c, NEW row, NEW rows, NEW into,
           NEW cycles, q = request[r], c = q.command,
           q.stage = "ORIGINS", OriginsLeft(r) = {}, ~ LooksAgain(r),
           rows = (IF c.kind \in {"REVERSE", "RECONCILE"} THEN Rows(db, c)
                                                          ELSE q.seen),
           ~ RefusedAtOrigins(db, q, c, rows),
           into = WritesInto(db, c, rows),
           cycles = into \cup CyclesOf(rows)
                        \cup (IF c.kind = "REVERSE"
                              THEN CyclesOf(Original(db, c).parts) ELSE {}),
           IsRequest(row),
           row.stage = (IF \A k \in into : HasCycle(db, k) THEN "CYCLES"
                                                           ELSE "CREATE"),
           row.command = c, row.expects = q.expects, row.seen = rows,
           row.origins = q.origins, row.cycles = cycles,
           row.states = [k \in cycles |-> db.cycles[k]]
    PROVE  RequestOK(db, locks, r, row)
<1>1. RequestOK(db, locks, r, q) /\ RowsOK(db)
  BY WasAsked DEF Inv
<1>2. /\ Asked(db, c, q.expects)
      /\ Has(locks, r, <<"SPACE">>, SpaceMode(c.kind))
      /\ db.space = q.expects.space
      /\ PreparedOK(db, q, c)
      /\ c \in Commands /\ c.kind \in Kinds
  BY <1>1, CommandOK DEF RequestOK, InSpace, Prepared, Asked
<1>3. Acts(c.kind)
  BY <1>2 DEF PreparedOK
<1>4. /\ rows = [o \in DOMAIN rows |-> rows[o]]
      /\ \A o \in DOMAIN rows : o \in Obligations /\ RowOK(db, rows[o])
      /\ c.kind \notin {"REVERSE", "RECONCILE"} => DOMAIN rows = Named(db, c)
      /\ c.kind \in {"REVERSE", "RECONCILE"} =>
             rows = Rows(db, c) /\ DOMAIN rows = ReadBy(db, c)
  BY <1>1, <1>2, RowsShape DEF PreparedOK
<1>5. PreparedOK(db, row, c)
  BY <1>2, <1>3, <1>4 DEF PreparedOK, Acts
<1>6. \A k \in CyclesOf(rows) : k \in Cycles /\ HasCycle(db, k)
  <2> TAKE k \in CyclesOf(rows)
  <2>1. PICK o \in DOMAIN rows : k = rows[o].cycle /\ k # NoCycle
    BY DEF CyclesOf
  <2>2. RowOK(db, rows[o])
    BY <1>4
  <2> QED
    BY <2>1, <2>2 DEF RowOK
<1>7. c.kind = "REVERSE" =>
          \A k \in CyclesOf(Original(db, c).parts) : k \in Cycles /\ HasCycle(db, k)
  BY <1>1, <1>2, OriginalOK DEF CyclesOf
<1>8. /\ into \subseteq {c.cycle} \ {NoCycle}
      /\ into # {} => c.kind \in {"MOVE", "REVERSE", "RECONCILE"}
      /\ into \subseteq Cycles
  BY <1>2, CommandOK DEF WritesInto
<1>9. cycles \subseteq Cycles
  BY <1>6, <1>7, <1>8
<1>10. \A k \in cycles : k \in into \/ HasCycle(db, k)
  BY <1>6, <1>7
<1>11. FinalizedThen(row) = cycles \cap Finalized(db)
  BY <1>9 DEF FinalizedThen, Finalized
<1>12. NoCycle \notin Finalized(db)
  BY IdsAssumption DEF Finalized
<1>13. \A o \in DOMAIN rows :
           rows[o].cycle \in FinalizedThen(row) <=> rows[o].cycle \in Finalized(db)
  BY <1>11, <1>12 DEF CyclesOf
<1>14. cycles = CyclesToLock(db, c, rows, FinalizedThen(row))
  <2>1. TakesUpFact(rows, DOMAIN rows, FinalizedThen(row))
            = TakesUpFact(rows, DOMAIN rows, Finalized(db))
    BY <1>13, TakesUpSame
  <2> QED
    BY <2>1 DEF CyclesToLock, WritesInto
<1>15. StatesOK(db, row)
  <2>1. DOMAIN row.states = cycles /\ \A k \in cycles : row.states[k] = db.cycles[k]
    OBVIOUS
  <2>2. \A k \in cycles : /\ db.cycles[k].status \in {"ABSENT", "OPEN", "FINALIZED"}
                          /\ k # NoCycle /\ k \in Cycles
    BY <1>1, <1>9, IdsAssumption DEF RowsOK
  <2> QED
    BY <2>1, <2>2 DEF StatesOK, HasCycle, Finalized
<1>16. ASSUME c.kind = "REVERSE"
       PROVE  /\ ~ IsReversed(db, c.original)
              /\ (\E o \in Named(db, c) :
                     \/ Original(db, c).parts[o].cycle \in FinalizedThen(row)
                     \/ rows[o].cycle \in FinalizedThen(row)) <=> (c.cycle # NoCycle)
  <2>1. /\ ~ IsReversed(db, c.original)
        /\ NeedsCorrection(db, c, rows) <=> (c.cycle # NoCycle)
    BY <1>16 DEF RefusedAtOrigins
  <2>2. \A o \in Named(db, c) :
            Original(db, c).parts[o].cycle \in FinalizedThen(row)
                <=> Original(db, c).parts[o].cycle \in Finalized(db)
    BY <1>1, <1>2, <1>11, <1>12, <1>16, OriginalOK DEF CyclesOf
  <2>3. \A o \in Named(db, c) : o \in DOMAIN rows
    BY <1>1, <1>2, <1>4, <1>16, OriginalOK
  <2> QED
    BY <1>13, <2>1, <2>2, <2>3 DEF NeedsCorrection
<1>17. c.kind # "TRANSFER" => db.receipts[c.key].command # c
  <2>1. c.kind # "TRANSFER" => db.receipts[c.key] = NoReceipt
    BY DEF LooksAgain, HasReceipt, Kind
  <2>2. NoReceipt.command # c
    BY <1>2 DEF NoReceipt, NoCommand, Kinds
  <2> QED
    BY <2>1, <2>2
<1>18. \A f \in q.origins : Has(locks, r, <<"ORIGIN", f>>, "UPDATE")
  <2> TAKE f \in q.origins
  <2>1. f \in Origins
    BY <1>1, <1>2, NamedOK DEF PreparedOK
  <2>2. PICK l \in locks : l.by = r /\ l.on = <<"ORIGIN", f>>
    BY DEF OriginsLeft, Holds
  <2>3. LockOK(db, locks, request, l)
    BY DEF Inv
  <2> QED
    BY <2>1, <2>2, <2>3 DEF LockOK, Has
<1>19. row.stage = "CREATE" =>
           c.kind \in {"MOVE", "RECONCILE"} /\ c.cycle \in cycles
  <2> SUFFICES ASSUME row.stage = "CREATE"
               PROVE  c.kind \in {"MOVE", "RECONCILE"} /\ c.cycle \in cycles
    OBVIOUS
  <2>1. PICK k \in into : ~ HasCycle(db, k)
    OBVIOUS
  <2>2. k = c.cycle /\ c.cycle # NoCycle
    BY <1>8
  <2>3. c.kind # "REVERSE"
    BY <1>2, <2>1, <2>2 DEF Asked
  <2> QED
    BY <1>8, <2>2, <2>3
<1>20. \A k \in CyclesOf(rows) : row.states[k].status # "ABSENT"
  BY <1>6 DEF HasCycle
<1>21. InOriginsOK(db, locks, r, row, c)
  <2>1. c.kind = "RECONCILE" =>
            q.expects.commitments[c.origin] = db.commitments[c.origin]
    BY DEF RefusedAtOrigins
  <2> QED
    BY <1>4, <1>9, <1>14, <1>15, <1>16, <1>17, <1>18, <1>19, <1>20, <2>1
    DEF InOriginsOK
<1>22. row.stage \in Ready => ReadyOK(db, locks, r, row, c)
  <2> SUFFICES ASSUME \A k \in into : HasCycle(db, k)
               PROVE  ReadyOK(db, locks, r, row, c)
    BY DEF Ready
  <2>1. \A k \in cycles : HasCycle(db, k)
    BY <1>10
  <2>2. \A k \in cycles : row.states[k].status # "ABSENT"
    BY <2>1 DEF HasCycle
  <2> QED
    BY <2>1, <2>2 DEF ReadyOK
<1> QED
  BY <1>2, <1>5, <1>21, <1>22 DEF RequestOK, InCycles, Checked

LEMMA LookAgainMoves ==
    ASSUME Inv, NEW r \in Requests, LookAgain(r)
    PROVE  (\E row : Moves(r, row)) /\ lost' = lost
<1>1. PICK q, c : q = request[r] /\ c = request[r].command
  OBVIOUS
<1>2. PICK rows : rows = (IF c.kind \in {"REVERSE", "RECONCILE"} THEN Rows(db, c)
                                                                 ELSE q.seen)
  OBVIOUS
<1>3. PICK into : into = WritesInto(db, c, rows)
  OBVIOUS
<1>4. PICK cycles : cycles = into \cup CyclesOf(rows)
                        \cup (IF c.kind = "REVERSE"
                              THEN CyclesOf(Original(db, c).parts) ELSE {})
  OBVIOUS
<1>5. PICK states : states = [k \in cycles |-> db.cycles[k]]
  OBVIOUS
<1>6. PICK stage : stage = (IF \A k \in into : HasCycle(db, k) THEN "CYCLES"
                                                               ELSE "CREATE")
  OBVIOUS
<1>7. PICK row : row = [q EXCEPT !.stage = stage, !.seen = rows,
                                 !.cycles = cycles, !.states = states]
  OBVIOUS
<1>8. q.stage = "ORIGINS" /\ OriginsLeft(r) = {} /\ c = q.command
  BY <1>1 DEF LookAgain
<1>9. \/ Answer(r, "REFUSED") \/ AnswerWithReceipt(r)
      \/ /\ ~ LooksAgain(r) /\ ~ RefusedAtOrigins(db, q, c, rows)
         /\ request' = [request EXCEPT ![r] = row]
         /\ db' = db /\ lost' = lost /\ locks' = locks
  <2>1. CASE LooksAgain(r)
    BY <2>1 DEF LookAgain
  <2>2. CASE ~ LooksAgain(r)
    <3>1. CASE RefusedAtOrigins(db, q, c, rows)
      BY <1>1, <1>2, <2>2, <3>1, Zenon DEF LookAgain
    <3>2. CASE ~ RefusedAtOrigins(db, q, c, rows)
      <4>1. /\ request' = [request EXCEPT ![r] =
                   [request[r] EXCEPT !.stage = stage, !.seen = rows,
                                      !.cycles = cycles, !.states = states]]
            /\ UNCHANGED <<db, locks, lost>>
        BY <1>1, <1>2, <1>3, <1>4, <1>5, <1>6, <2>2, <3>2 DEF LookAgain, Inv
      <4> QED
        BY <1>1, <1>7, <2>2, <3>2, <4>1
    <3> QED
      BY <3>1, <3>2
  <2> QED
    BY <2>1, <2>2
<1>10. CASE Answer(r, "REFUSED") \/ AnswerWithReceipt(r)
  BY <1>1, <1>8, <1>10, AnswerMoves
<1>11. CASE /\ ~ LooksAgain(r) /\ ~ RefusedAtOrigins(db, q, c, rows)
            /\ request' = [request EXCEPT ![r] = row]
            /\ db' = db /\ lost' = lost /\ locks' = locks
  <2>1. IsRequest(q)
    BY <1>1, WasAsked
  <2>2. /\ row = [stage |-> row.stage, command |-> row.command,
                  expects |-> row.expects, seen |-> row.seen,
                  origins |-> row.origins, cycles |-> row.cycles,
                  states |-> row.states, answer |-> row.answer]
        /\ row.stage = stage /\ row.command = c /\ row.expects = q.expects
        /\ row.seen = rows /\ row.origins = q.origins
        /\ row.cycles = cycles /\ row.states = states
    BY <1>7, <1>8, <2>1 DEF IsRequest
  <2>3. stage \in {"CYCLES", "CREATE"}
    BY <1>6
  <2>4. IsRequest(row)
    BY <2>2, <2>3 DEF IsRequest, Stages
  <2>5. RequestOK(db, locks, r, row)
    BY <1>1, <1>2, <1>3, <1>4, <1>5, <1>6, <1>8, <1>11, <2>2, <2>4, LookAgainRow
  <2>6. Stays(r, row)
    BY <1>1, <2>2, <2>3 DEF Stays, InSpace
  <2> QED
    BY <1>11, <2>5, <2>6 DEF Moves
<1> QED
  BY <1>9, <1>10, <1>11

\* Every statement but the last, and whatever a client does.
LEMMA StepMoves ==
    ASSUME Inv, NEW r \in Requests, Statement(r) \/ Client(r), ~ Commit(r)
    PROVE  (\E row : Moves(r, row)) /\ lost' \in 0 .. MaxLost
<1>1. lost \in 0 .. MaxLost
  BY DEF Inv
<1> QED
  BY <1>1, ClientMoves, ReadMoves, LockSpaceMoves, DiscoverMoves, LockOriginMoves,
     LookAgainMoves, CreateCycleMoves, LockCycleMoves, CheckCyclesMoves,
     LockObligationMoves, CheckObligationsMoves, SaveReceiptMoves, RecoverMoves
  DEF Statement

-----------------------------------------------------------------------------
(***************************************************************************)
(* What a command writes.                                                  *)
(***************************************************************************)
\* A row as a record, with its version.
IsRow(row) ==
    /\ row = [version |-> row.version, cycle |-> row.cycle,
              remaining |-> row.remaining]
    /\ row.version \in Nat

LEMMA WritesRow ==
    ASSUME NEW row, IsRow(row), NEW k, NEW due
    PROVE  /\ IsRow(Resolved(row)) /\ Exists(Resolved(row))
           /\ Resolved(row).cycle = row.cycle
           /\ IsRow(Owing(row, due)) /\ Exists(Owing(row, due))
           /\ Owing(row, due).cycle = row.cycle
           /\ IsRow(InCycle(row, k)) /\ Exists(InCycle(row, k))
           /\ InCycle(row, k).cycle = k
           /\ IsRow(NewRow(k, due)) /\ Exists(NewRow(k, due))
           /\ NewRow(k, due).cycle = k
<1>1. PICK v : v = row.version
  OBVIOUS
<1>2. PICK j : j = row.cycle
  OBVIOUS
<1>3. PICK m : m = row.remaining
  OBVIOUS
<1>4. v \in Nat /\ row = [version |-> v, cycle |-> j, remaining |-> m]
  BY <1>1, <1>2, <1>3 DEF IsRow
<1>5. /\ IsRow(Resolved(row)) /\ Exists(Resolved(row))
      /\ Resolved(row).cycle = row.cycle
  <2>1. PICK new : new = Resolved(row)
    OBVIOUS
  <2>2. new = [version |-> v + 1, cycle |-> j, remaining |-> m - 1]
    BY <1>4, <2>1 DEF Resolved
  <2> QED
    BY <1>4, <2>1, <2>2 DEF IsRow, Exists
<1>6. /\ IsRow(Owing(row, due)) /\ Exists(Owing(row, due))
      /\ Owing(row, due).cycle = row.cycle
  <2>1. PICK new : new = Owing(row, due)
    OBVIOUS
  <2>2. new = [version |-> v + 1, cycle |-> j, remaining |-> due]
    BY <1>4, <2>1 DEF Owing
  <2> QED
    BY <1>4, <2>1, <2>2 DEF IsRow, Exists
<1>7. /\ IsRow(InCycle(row, k)) /\ Exists(InCycle(row, k))
      /\ InCycle(row, k).cycle = k
  <2>1. PICK new : new = InCycle(row, k)
    OBVIOUS
  <2>2. new = [version |-> v + 1, cycle |-> k, remaining |-> m]
    BY <1>4, <2>1 DEF InCycle
  <2> QED
    BY <1>4, <2>1, <2>2 DEF IsRow, Exists
<1> QED
  BY <1>5, <1>6, <1>7 DEF NewRow, IsRow, Exists

\* What an origin's obligations are rewritten to.
WritesRows(rows, S, reused, touched, free, k, w) ==
    /\ w = [o \in DOMAIN w |-> w[o]]
    /\ DOMAIN w = OpenIn(rows, S) \cup reused \cup touched
                      \cup (IF reused = {} THEN free ELSE {})
    /\ \A o \in DOMAIN w :
           /\ IsRow(w[o]) /\ Exists(w[o])
           /\ o \in S => w[o].cycle = rows[o].cycle
           /\ o \notin S => o \in free /\ reused = {} /\ w[o].cycle = k

LEMMA RewrittenOK ==
    ASSUME NEW rows, NEW S, NEW reused, NEW touched, NEW due, NEW free, NEW k,
           \A o \in S : IsRow(rows[o]), reused \subseteq S, touched \subseteq S
    PROVE  WritesRows(rows, S, reused, touched, free, k,
                      Rewritten(rows, S, reused, touched, due, free, k))
<1>1. PICK w : w = Rewritten(rows, S, reused, touched, due, free, k)
  OBVIOUS
<1>2. /\ w = [o \in DOMAIN w |-> w[o]]
      /\ DOMAIN w = OpenIn(rows, S) \cup reused \cup touched
                        \cup (IF reused = {} THEN free ELSE {})
  BY <1>1 DEF Rewritten
<1>3. ASSUME NEW o \in DOMAIN w, o \in S
      PROVE  IsRow(w[o]) /\ Exists(w[o]) /\ w[o].cycle = rows[o].cycle
  <2>1. PICK owes : owes = (IF o \in reused THEN due ELSE 0)
    OBVIOUS
  <2>2. w[o] = Owing(rows[o], owes)
    BY <1>1, <1>3, <2>1 DEF Rewritten
  <2> QED
    BY <1>3, <2>2, WritesRow
<1>4. ASSUME NEW o \in DOMAIN w, o \notin S
      PROVE  /\ IsRow(w[o]) /\ Exists(w[o])
             /\ o \in free /\ reused = {} /\ w[o].cycle = k
  <2>1. w[o] = NewRow(k, due)
    BY <1>1, <1>4 DEF Rewritten
  <2>2. o \in free /\ reused = {}
    BY <1>2, <1>4 DEF OpenIn
  <2> QED
    BY <2>1, <2>2 DEF NewRow, IsRow, Exists
<1> QED
  BY <1>1, <1>2, <1>3, <1>4 DEF WritesRows

\* What takes up a difference is one of the rows, one that may be written.
LEMMA TakesUpOK ==
    ASSUME NEW rows, NEW S, S \subseteq Obligations, NEW restored, NEW F
    PROVE  /\ TakesUpFact(rows, S, F) \subseteq S
           /\ TakesUpReversal(rows, S, restored, F) \subseteq
                  {o \in S : rows[o].cycle \notin F}
<1>1. ASSUME NEW T, T \subseteq S
      PROVE  FirstIn(T) \subseteq T
  <2>1. T \in SUBSET Nat
    BY <1>1, IdsAssumption
  <2> QED
    BY <2>1, MinIsLeast DEF FirstIn
<1>2. OpenIn(rows, S) \subseteq S
  BY DEF OpenIn
<1>3. TakesUpFact(rows, S, F) \subseteq S
  BY <1>1, <1>2 DEF TakesUpFact
<1>4. PICK writable : writable = {o \in S : rows[o].cycle \notin F}
  OBVIOUS
<1>5. /\ writable \subseteq S
      /\ OpenIn(rows, writable) \subseteq writable
      /\ writable \cap restored \subseteq writable
  BY <1>4 DEF OpenIn
<1>6. TakesUpReversal(rows, S, restored, F) \subseteq writable
  BY <1>1, <1>4, <1>5 DEF TakesUpReversal
<1> QED
  BY <1>3, <1>4, <1>6

LEMMA FreeOK ==
    ASSUME NEW d, NEW f, NEW o \in Free(d, f)
    PROVE  o \in Obligations /\ OriginOf[o] = f /\ ~ Exists(d.obligations[o])
<1>1. PICK absent : absent = {p \in Obligations : OriginOf[p] = f
                                                  /\ ~ Exists(d.obligations[p])}
  OBVIOUS
<1>2. absent \in SUBSET Nat /\ absent # {} /\ o = Min(absent)
  BY <1>1, IdsAssumption DEF Free
<1> QED
  BY <1>1, <1>2, MinIsLeast

\* One row a command writes: of its origins, and in a cycle it has locked.  It has
\* read it, or it was not there.
WrittenRow(d, q, o, row) ==
    /\ o \in Obligations /\ OriginOf[o] \in q.origins
    /\ IsRow(row) /\ Exists(row)
    /\ row.cycle = NoCycle \/ row.cycle \in q.cycles
    /\ \/ o \in DOMAIN q.seen
       \/ d.obligations[o] = Absent

\* What a reversal makes of one origin.
PlanOf(d, c, rows, F, f) ==
    LET S        == RowsOf(d, f)
        restored == Named(d, c) \cap S
    IN  Rewritten(rows, S, TakesUpReversal(rows, S, restored, F),
                  {o \in restored : rows[o].cycle \notin F},
                  Total(rows, S) + Cardinality(restored), Free(d, f), c.cycle)

LEMMA PlanOK ==
    ASSUME NEW d, NEW c, NEW rows, NEW F, NEW f,
           \A o \in RowsOf(d, f) : IsRow(rows[o]),
           NEW w, w = PlanOf(d, c, rows, F, f)
    PROVE  \A o \in DOMAIN w :
               /\ o \in Obligations /\ OriginOf[o] = f
               /\ IsRow(w[o]) /\ Exists(w[o])
               /\ o \in RowsOf(d, f) => /\ w[o].cycle = rows[o].cycle
                                        /\ IsOpen(rows[o]) \/ rows[o].cycle \notin F
               /\ o \notin RowsOf(d, f) => o \in Free(d, f) /\ w[o].cycle = c.cycle
<1>1. PICK S : S = RowsOf(d, f)
  OBVIOUS
<1>2. PICK restored : restored = Named(d, c) \cap S
  OBVIOUS
<1>3. PICK reused : reused = TakesUpReversal(rows, S, restored, F)
  OBVIOUS
<1>4. PICK touched : touched = {o \in restored : rows[o].cycle \notin F}
  OBVIOUS
<1>5. PICK due : w = Rewritten(rows, S, reused, touched, due, Free(d, f), c.cycle)
  BY <1>1, <1>2, <1>3, <1>4 DEF PlanOf
<1>6. S \subseteq Obligations /\ \A o \in S : OriginOf[o] = f /\ IsRow(rows[o])
  BY <1>1 DEF RowsOf
<1>7. /\ reused \subseteq {o \in S : rows[o].cycle \notin F}
      /\ reused \subseteq S /\ touched \subseteq S
  <2>1. reused \subseteq {o \in S : rows[o].cycle \notin F}
    BY <1>3, <1>6, TakesUpOK
  <2> QED
    BY <1>2, <1>4, <2>1
<1>8. /\ DOMAIN w = OpenIn(rows, S) \cup reused \cup touched
                        \cup (IF reused = {} THEN Free(d, f) ELSE {})
      /\ \A o \in DOMAIN w :
             /\ IsRow(w[o]) /\ Exists(w[o])
             /\ o \in S => w[o].cycle = rows[o].cycle
             /\ o \notin S => o \in Free(d, f) /\ reused = {} /\ w[o].cycle = c.cycle
  <2>1. \A o \in S : IsRow(rows[o])
    BY <1>6
  <2> QED
    <3>1. WritesRows(rows, S, reused, touched, Free(d, f), c.cycle, w)
      BY <1>5, <1>7, <2>1, RewrittenOK
    <3> QED
      BY <3>1 DEF WritesRows
<1>9. \A o \in DOMAIN w : o \in S => IsOpen(rows[o]) \/ rows[o].cycle \notin F
  <2> TAKE o \in DOMAIN w
  <2>1. o \in S /\ o \in Free(d, f) => FALSE
    BY <1>1, FreeOK DEF RowsOf
  <2> QED
    BY <1>4, <1>7, <1>8, <2>1 DEF OpenIn
<1>10. \A o \in DOMAIN w : o \in Obligations /\ OriginOf[o] = f
  BY <1>6, <1>8, FreeOK
<1> QED
  BY <1>1, <1>8, <1>9, <1>10

\* The plans of the origins, put together.
LEMMA ReverseIsPlans ==
    ASSUME NEW d, NEW c, NEW rows, NEW F, c.kind = "REVERSE",
           \A f \in OriginsOf(d, c) : \A o \in RowsOf(d, f) : IsRow(rows[o]),
           NEW w, w = ReverseRows(d, c, rows, F)
    PROVE  /\ w = [o \in DOMAIN w |-> w[o]]
           /\ \A o \in DOMAIN w :
                  /\ OriginOf[o] \in OriginsOf(d, c)
                  /\ o \in DOMAIN PlanOf(d, c, rows, F, OriginOf[o])
                  /\ w[o] = PlanOf(d, c, rows, F, OriginOf[o])[o]
<1>1. PICK plans : plans = [f \in OriginsOf(d, c) |-> PlanOf(d, c, rows, F, f)]
  OBVIOUS
<1>2. w = [o \in UNION {DOMAIN plans[f] : f \in DOMAIN plans} |->
               plans[OriginOf[o]][o]]
  BY <1>1 DEF ReverseRows, PlanOf
<1>3. ASSUME NEW o \in DOMAIN w
      PROVE  /\ OriginOf[o] \in OriginsOf(d, c)
             /\ o \in DOMAIN PlanOf(d, c, rows, F, OriginOf[o])
             /\ w[o] = PlanOf(d, c, rows, F, OriginOf[o])[o]
  <2>1. PICK f \in OriginsOf(d, c) : o \in DOMAIN plans[f]
    BY <1>1, <1>2
  <2>2. plans[f] = PlanOf(d, c, rows, F, f)
    BY <1>1
  <2>3. OriginOf[o] = f
    BY <2>1, <2>2, PlanOK
  <2> QED
    BY <1>2, <2>1, <2>2, <2>3
<1> QED
  BY <1>2, <1>3

WrittenRows(d, q, w) ==
    /\ w = [o \in DOMAIN w |-> w[o]]
    /\ \A o \in DOMAIN w : WrittenRow(d, q, o, w[o])

LEMMA ReverseWrittenOK ==
    ASSUME NEW d, RowsOK(d), NEW L, NEW r, NEW q, NEW c, c = q.command,
           Asked(d, c, q.expects), PreparedOK(d, q, c), InOriginsOK(d, L, r, q, c),
           c.kind = "REVERSE"
    PROVE  WrittenRows(d, q, WrittenBy(d, q))
<1>1. PICK w : /\ w = WrittenBy(d, q)
               /\ w = ReverseRows(d, c, q.seen, Finalized(d))
  BY DEF WrittenBy, Written, Resolves
<1>2. /\ q.origins = OriginsOf(d, c)
      /\ \A o \in DOMAIN q.seen : IsRow(q.seen[o])
  BY DEF PreparedOK, RowOK, IsRow
<1>3. \A f \in OriginsOf(d, c) : \A o \in RowsOf(d, f) : o \in DOMAIN q.seen
  BY DEF InOriginsOK, Rows, ReadBy
<1>4. /\ w = [o \in DOMAIN w |-> w[o]]
      /\ \A o \in DOMAIN w :
             /\ OriginOf[o] \in OriginsOf(d, c)
             /\ o \in DOMAIN PlanOf(d, c, q.seen, Finalized(d), OriginOf[o])
             /\ w[o] = PlanOf(d, c, q.seen, Finalized(d), OriginOf[o])[o]
  BY <1>1, <1>2, <1>3, ReverseIsPlans
<1>5. /\ \A o \in DOMAIN q.seen : \/ q.seen[o].cycle = NoCycle
                                  \/ q.seen[o].cycle \in q.cycles
      /\ c.cycle = NoCycle \/ c.cycle \in q.cycles
  BY DEF InOriginsOK, CyclesToLock, CyclesOf, Acts
<1>6. ASSUME NEW o \in DOMAIN w
      PROVE  WrittenRow(d, q, o, w[o])
  <2>1. PICK f, plan : f = OriginOf[o]
                       /\ plan = PlanOf(d, c, q.seen, Finalized(d), f)
    OBVIOUS
  <2>2. o \in DOMAIN plan /\ w[o] = plan[o] /\ f \in OriginsOf(d, c)
    BY <1>4, <2>1
  <2>3. /\ o \in Obligations /\ IsRow(w[o]) /\ Exists(w[o])
        /\ o \in RowsOf(d, f) => w[o].cycle = q.seen[o].cycle
        /\ o \notin RowsOf(d, f) => o \in Free(d, f) /\ w[o].cycle = c.cycle
    BY <1>2, <1>3, <2>1, <2>2, PlanOK
  <2>4. \A p \in Obligations :
            ~ Exists(d.obligations[p]) => d.obligations[p] = Absent
    BY DEF RowsOK, RowOK
  <2> QED
    BY <1>2, <1>3, <1>5, <2>1, <2>2, <2>3, <2>4, FreeOK DEF WrittenRow
<1> QED
  BY <1>1, <1>4, <1>6 DEF WrittenRows

LEMMA WrittenOK ==
    ASSUME NEW d, RowsOK(d), NEW L, NEW r, NEW q, NEW c, c = q.command,
           Asked(d, c, q.expects), PreparedOK(d, q, c), InOriginsOK(d, L, r, q, c),
           NEW w, w = WrittenBy(d, q)
    PROVE  WrittenRows(d, q, w) /\ (~ Acts(c.kind) => DOMAIN w = {})
<1>1. c \in Commands /\ c.kind \in Kinds
  BY CommandOK DEF Asked
<1>2. /\ q.origins = OriginsOf(d, c)
      /\ \A o \in DOMAIN q.seen : IsRow(q.seen[o]) /\ o \in Obligations
  BY DEF PreparedOK, RowOK, IsRow
<1>3. Acts(c.kind) =>
          \A o \in DOMAIN q.seen : \/ q.seen[o].cycle = NoCycle
                                   \/ q.seen[o].cycle \in q.cycles
  BY DEF InOriginsOK, CyclesToLock, CyclesOf
<1>4. \A o \in Obligations : ~ Exists(d.obligations[o]) => d.obligations[o] = Absent
  BY DEF RowsOK, RowOK
<1>5. CASE ~ Acts(c.kind)
  <2>1. w = [o \in {} |-> Absent]
    BY <1>5 DEF Acts, WrittenBy, Written, Resolves
  <2> QED
    BY <1>5, <2>1 DEF WrittenRows
<1>6. CASE Resolves(c.kind)
  <2>1. w = [o \in Named(d, c) |-> Resolved(q.seen[o])]
    BY <1>6 DEF WrittenBy, Written, Resolves
  <2>2. DOMAIN q.seen = Named(d, c)
    BY <1>6 DEF PreparedOK, Resolves
  <2>3. \A o \in DOMAIN w : OriginOf[o] \in q.origins
    BY <1>2, <1>6, <2>1 DEF OriginsOf, Resolves
  <2>4. ASSUME NEW o \in DOMAIN w
        PROVE  WrittenRow(d, q, o, w[o])
    <3>1. o \in DOMAIN q.seen /\ w[o] = Resolved(q.seen[o]) /\ IsRow(q.seen[o])
      BY <1>2, <2>1, <2>2
    <3>2. IsRow(w[o]) /\ Exists(w[o]) /\ w[o].cycle = q.seen[o].cycle
      BY <3>1, WritesRow
    <3> QED
      BY <1>2, <1>3, <1>6, <2>3, <3>1, <3>2 DEF WrittenRow, Acts, Resolves
  <2> QED
    BY <1>6, <2>1, <2>4 DEF WrittenRows, Acts, Resolves
<1>7. CASE c.kind = "MOVE"
  <2>1. w = [o \in Named(d, c) |-> InCycle(q.seen[o], c.cycle)]
    BY <1>7 DEF WrittenBy, Written, Resolves
  <2>2. DOMAIN q.seen = Named(d, c)
    BY <1>7 DEF PreparedOK
  <2>3. \A o \in DOMAIN w : OriginOf[o] \in q.origins
    BY <1>2, <1>7, <2>1 DEF OriginsOf
  <2>4. c.cycle = NoCycle \/ c.cycle \in q.cycles
    BY <1>7 DEF InOriginsOK, CyclesToLock, Acts
  <2>5. ASSUME NEW o \in DOMAIN w
        PROVE  WrittenRow(d, q, o, w[o])
    <3>1. /\ o \in DOMAIN q.seen /\ w[o] = InCycle(q.seen[o], c.cycle)
          /\ IsRow(q.seen[o])
      BY <1>2, <2>1, <2>2
    <3>2. IsRow(w[o]) /\ Exists(w[o]) /\ w[o].cycle = c.cycle
      BY <3>1, WritesRow
    <3> QED
      BY <1>2, <2>3, <2>4, <3>1, <3>2 DEF WrittenRow
  <2> QED
    BY <1>7, <2>1, <2>5 DEF WrittenRows, Acts
<1>8. CASE c.kind = "RECONCILE"
  <2>1. PICK S : S = RowsOf(d, c.origin)
    OBVIOUS
  <2>2. PICK reused : reused = TakesUpFact(q.seen, S, FinalizedThen(q))
    OBVIOUS
  <2>3. PICK due : w = Rewritten(q.seen, S, reused, {}, due, Free(d, c.origin),
                                 c.cycle)
    BY <1>8, <2>1, <2>2 DEF WrittenBy, Written, ReconcileRows, Resolves
  <2>4. DOMAIN q.seen = S
    BY <1>8, <2>1 DEF InOriginsOK, Rows, ReadBy, OriginsOf
  <2>5. reused \subseteq S /\ \A o \in S : IsRow(q.seen[o])
    BY <1>2, <2>1, <2>2, <2>4, TakesUpOK DEF RowsOf
  <2>6. /\ w = [o \in DOMAIN w |-> w[o]]
        /\ \A o \in DOMAIN w :
               /\ IsRow(w[o]) /\ Exists(w[o])
               /\ o \in S => w[o].cycle = q.seen[o].cycle
               /\ o \notin S => /\ o \in Free(d, c.origin) /\ reused = {}
                                /\ w[o].cycle = c.cycle
    <3>1. WritesRows(q.seen, S, reused, {}, Free(d, c.origin), c.cycle, w)
      BY <2>3, <2>5, RewrittenOK
    <3> QED
      BY <3>1 DEF WritesRows
  <2>7. q.origins = {c.origin} /\ \A o \in S : OriginOf[o] = c.origin
    BY <1>2, <1>8, <2>1 DEF OriginsOf, RowsOf
  <2>8. reused = {} => c.cycle = NoCycle \/ c.cycle \in q.cycles
    BY <1>8, <2>2, <2>4 DEF InOriginsOK, CyclesToLock, Acts
  <2>9. \A o \in DOMAIN w : WrittenRow(d, q, o, w[o])
    BY <1>2, <1>3, <1>4, <1>8, <2>4, <2>6, <2>7, <2>8, FreeOK DEF WrittenRow, Acts
  <2> QED
    BY <1>8, <2>6, <2>9 DEF WrittenRows, Acts
<1>9. CASE c.kind = "REVERSE"
  <2>1. WrittenRows(d, q, w)
    BY <1>9, ReverseWrittenOK
  <2> QED
    BY <1>9, <2>1 DEF Acts
<1>10. \/ ~ Acts(c.kind) \/ Resolves(c.kind)
       \/ c.kind \in {"MOVE", "RECONCILE", "REVERSE"}
  BY <1>1 DEF Resolves, Kinds, Acts
<1> QED
  BY <1>5, <1>6, <1>7, <1>8, <1>9, <1>10

-----------------------------------------------------------------------------
(***************************************************************************)
(* The commit of a request.                                                *)
(***************************************************************************)
\* What a request is that may commit.
Committing(d, L, r, q, c) ==
    /\ RowsOK(d)
    /\ c = q.command /\ c \in Commands /\ Asked(d, c, q.expects)
    /\ Has(L, r, <<"SPACE">>, SpaceMode(c.kind))
    /\ d.space = q.expects.space
    /\ PreparedOK(d, q, c)
    /\ InOriginsOK(d, L, r, q, c)
    /\ ReadyOK(d, L, r, q, c)
    /\ InCyclesOK(d, L, r, q, c)
    /\ CheckedOK(d, q, c)
    /\ Has(L, r, <<"KEY", c.key>>, "UPDATE")
    /\ d.receipts[c.key] = NoReceipt

LEMMA MayCommit ==
    ASSUME Inv, NEW r \in Requests, request[r].stage = "COMMIT"
    PROVE  Committing(db, locks, r, request[r], request[r].command)
<1>1. RequestOK(db, locks, r, request[r]) /\ RowsOK(db)
  BY WasAsked DEF Inv
<1> QED
  BY <1>1 DEF RequestOK, Committing, Asked, InSpace, Prepared, InOrigins, Ready,
              InCycles, Checked

\* The cycles a command takes an obligation from and puts it into are locked, and
\* not finalized.
LEMMA NotFinalized ==
    ASSUME NEW d, NEW L, NEW r, NEW q, NEW c, Committing(d, L, r, q, c),
           NEW w, w = WrittenBy(d, q), NEW o \in DOMAIN w
    PROVE  /\ WrittenRow(d, q, o, w[o])
           /\ d.obligations[o].cycle = NoCycle \/ d.obligations[o].cycle \in q.cycles
           /\ d.obligations[o].cycle \notin Finalized(d)
           /\ w[o].cycle \notin Finalized(d)
<1>1. WrittenRows(d, q, w) /\ Acts(c.kind) /\ c.kind \in Kinds
  <2>1. WrittenRows(d, q, w) /\ (~ Acts(c.kind) => DOMAIN w = {})
    BY WrittenOK DEF Committing
  <2> QED
    BY <2>1, CommandOK DEF Committing
<1>2. WrittenRow(d, q, o, w[o])
  BY <1>1 DEF WrittenRows
<1>3. NoCycle \notin Finalized(d)
  BY IdsAssumption DEF Finalized
<1>4. \A p \in DOMAIN q.seen :
          /\ q.seen[p] = d.obligations[p]
          /\ q.seen[p].cycle = NoCycle \/ q.seen[p].cycle \in q.cycles
  BY <1>1 DEF Committing, CheckedOK, InOriginsOK, CyclesToLock, CyclesOf
<1>5. d.obligations[o].cycle = NoCycle \/ d.obligations[o].cycle \in q.cycles
  BY <1>2, <1>4 DEF WrittenRow, Absent
<1>6. CASE c.kind \in {"TRANSFER", "WAIVE", "OFFSET", "MOVE"}
  <2>1. ASSUME NEW k \in q.cycles
        PROVE  k \notin Finalized(d)
    <3>1. k # NoCycle
      BY IdsAssumption DEF Committing, InOriginsOK
    <3>2. ~ RefusedAtCycles(d, q, c)
      BY DEF Committing, InCyclesOK
    <3>3. IsOpenCycle(d, k) \/ Usable(d, k)
      BY <1>6, <3>2 DEF RefusedAtCycles
    <3> QED
      BY <3>1, <3>3 DEF Usable, HasCycle, IsOpenCycle, Finalized
  <2> QED
    BY <1>2, <1>3, <1>5, <2>1 DEF WrittenRow
<1>7. CASE c.kind = "RECONCILE"
  <2>1. \A k \in AffectedCycles(q, w) : Usable(d, k)
    BY <1>7 DEF Committing, InCyclesOK, RefusedAtCycles
  <2>2. w[o].cycle = NoCycle \/ w[o].cycle \in AffectedCycles(q, w)
    BY DEF AffectedCycles, CyclesOf
  <2>3. o \in DOMAIN q.seen => \/ q.seen[o].cycle = NoCycle
                               \/ q.seen[o].cycle \in AffectedCycles(q, w)
    <3>1. PICK rows : rows = [p \in DOMAIN w \cap DOMAIN q.seen |-> q.seen[p]]
      OBVIOUS
    <3>2. o \in DOMAIN q.seen => o \in DOMAIN rows /\ rows[o] = q.seen[o]
      BY <3>1
    <3>3. o \in DOMAIN q.seen /\ q.seen[o].cycle # NoCycle =>
              q.seen[o].cycle \in CyclesOf(rows)
      BY <3>2 DEF CyclesOf
    <3> QED
      BY <3>1, <3>3 DEF AffectedCycles
  <2>4. \A k \in Finalized(d) : ~ Usable(d, k)
    BY <1>3 DEF Usable, IsOpenCycle, HasCycle, Finalized
  <2> QED
    BY <1>2, <1>3, <1>4, <1>5, <2>1, <2>2, <2>3, <2>4 DEF WrittenRow, Absent
<1>8. CASE c.kind = "REVERSE"
  <2>1. PICK f, plan : /\ f = OriginOf[o]
                       /\ plan = PlanOf(d, c, q.seen, Finalized(d), f)
    OBVIOUS
  <2>2. \A g \in OriginsOf(d, c) : \A p \in RowsOf(d, g) :
            p \in DOMAIN q.seen /\ IsRow(q.seen[p])
    BY <1>8 DEF Committing, PreparedOK, RowOK, IsRow, InOriginsOK, Rows, ReadBy
  <2>3. w = ReverseRows(d, c, q.seen, Finalized(d))
    BY <1>8 DEF Committing, WrittenBy, Written, Resolves
  <2>4. o \in DOMAIN plan /\ w[o] = plan[o] /\ f \in OriginsOf(d, c)
    BY <1>8, <2>1, <2>2, <2>3, ReverseIsPlans
  <2>5. /\ o \in RowsOf(d, f) =>
               /\ w[o].cycle = q.seen[o].cycle
               /\ IsOpen(q.seen[o]) \/ q.seen[o].cycle \notin Finalized(d)
        /\ o \notin RowsOf(d, f) => o \in Free(d, f) /\ w[o].cycle = c.cycle
    BY <2>1, <2>2, <2>4, PlanOK
  <2>6. CASE o \in RowsOf(d, f)
    <3>1. q.seen[o] = d.obligations[o]
      BY <1>4, <2>2, <2>4, <2>6
    <3>2. d.obligations[o].cycle \in Finalized(d) => ~ IsOpen(d.obligations[o])
      BY <1>2 DEF Committing, RowsOK, WrittenRow
    <3> QED
      BY <1>2, <1>5, <2>5, <2>6, <3>1, <3>2
  <2>7. CASE o \notin RowsOf(d, f)
    <3>1. ~ Exists(d.obligations[o]) /\ o \in Obligations
      BY <2>5, <2>7, FreeOK
    <3>2. d.obligations[o] = Absent
      BY <3>1 DEF Committing, RowsOK, RowOK
    <3>3. c.cycle # NoCycle => IsOpenCycle(d, c.cycle)
      BY <1>8 DEF Committing, InCyclesOK, RefusedAtCycles
    <3>4. c.cycle \notin Finalized(d)
      BY <1>3, <3>3 DEF IsOpenCycle, Finalized
    <3> QED
      BY <1>2, <1>3, <2>5, <2>7, <3>2, <3>4 DEF Absent
  <2> QED
    BY <2>6, <2>7
<1> QED
  BY <1>1, <1>6, <1>7, <1>8 DEF Kinds, Acts

\* What a commit leaves alone: whatever others have locked.
Keeps(d, d2, L, r, q, c) ==
    /\ d2.space = d.space \/ Has(L, r, <<"SPACE">>, "UPDATE")
    /\ \A f \in Origins : f \notin q.origins => d2.commitments[f] = d.commitments[f]
    /\ \A o \in Obligations :
           OriginOf[o] \notin q.origins => d2.obligations[o] = d.obligations[o]
    /\ \A o \in Obligations :
           \/ d2.obligations[o] = d.obligations[o]
           \/ /\ IsRow(d2.obligations[o]) /\ Exists(d2.obligations[o])
              /\ \/ d2.obligations[o].cycle = NoCycle
                 \/ d2.obligations[o].cycle \in q.cycles
              /\ d2.obligations[o].cycle \notin Finalized(d)
    /\ \A k \in Cycles :
           \/ d2.cycles[k] = d.cycles[k]
           \/ /\ Has(L, r, <<"CYCLE", k>>, "UPDATE") /\ k \notin Finalized(d)
              /\ d2.cycles[k].status \in {"OPEN", "FINALIZED"}
              /\ d2.cycles[k].status = "FINALIZED" =>
                     c.kind = "FINALIZE" /\ k = c.cycle
    /\ d2.receipts = [k \in Keys |-> d2.receipts[k]]
    /\ \A k \in Keys : k # c.key => d2.receipts[k] = d.receipts[k]
    /\ d2.receipts[c.key].command = c

\* The cycles that are there stay, the finalized ones as they are.
CyclesStay(d, d2) ==
    /\ \A k : HasCycle(d, k) /\ k \in Cycles => HasCycle(d2, k)
    /\ Finalized(d) \subseteq Finalized(d2)

LEMMA CommitKeeps ==
    ASSUME NEW d, NEW L, NEW r, NEW q, NEW c, Committing(d, L, r, q, c),
           NEW w, w = WrittenBy(d, q),
           NEW d2, d2 = Committed(d, c, q.expects, w)
    PROVE  Keeps(d, d2, L, r, q, c) /\ CyclesStay(d, d2)
<1>1. c \in Commands /\ c.kind \in Kinds /\ c.key \in Keys
  BY CommandOK DEF Committing
<1>2. /\ d2.space = (IF c.kind = "START_CLOSURE" THEN d.space + 1 ELSE d.space)
      /\ d2.commitments = [f \in Origins |->
             IF c.kind = "RECONCILE" /\ f = c.origin THEN d.commitments[f] + 1
                                                     ELSE d.commitments[f]]
      /\ d2.obligations = [o \in Obligations |->
             IF o \in DOMAIN w THEN w[o] ELSE d.obligations[o]]
      /\ d2.cycles = [k \in Cycles |-> NextCycle(c, k, d.cycles[k], w)]
      /\ d2.receipts = [d.receipts EXCEPT ![c.key] =
             [command |-> c, expects |-> q.expects,
              parts   |-> [o \in Named(d, c) |->
                               [cycle |-> d.obligations[o].cycle]]]]
  BY DEF Committed
<1>3. d2.space = d.space \/ Has(L, r, <<"SPACE">>, "UPDATE")
  BY <1>2 DEF Committing, SpaceMode
<1>4. \A f \in Origins : f \notin q.origins => d2.commitments[f] = d.commitments[f]
  BY <1>2 DEF Committing, PreparedOK, OriginsOf
<1>5. ASSUME NEW o \in Obligations
      PROVE  /\ OriginOf[o] \notin q.origins => d2.obligations[o] = d.obligations[o]
             /\ \/ d2.obligations[o] = d.obligations[o]
                \/ /\ IsRow(d2.obligations[o]) /\ Exists(d2.obligations[o])
                   /\ \/ d2.obligations[o].cycle = NoCycle
                      \/ d2.obligations[o].cycle \in q.cycles
                   /\ d2.obligations[o].cycle \notin Finalized(d)
  <2>1. CASE o \notin DOMAIN w
    BY <1>2, <2>1
  <2>2. CASE o \in DOMAIN w
    <3>1. d2.obligations[o] = w[o]
      BY <1>2, <2>2
    <3>2. WrittenRow(d, q, o, w[o]) /\ w[o].cycle \notin Finalized(d)
      BY <2>2, NotFinalized
    <3> QED
      BY <3>1, <3>2 DEF WrittenRow
  <2> QED
    BY <2>1, <2>2
<1>6. ASSUME NEW k \in Cycles
      PROVE  \/ d2.cycles[k] = d.cycles[k]
             \/ /\ Has(L, r, <<"CYCLE", k>>, "UPDATE") /\ k \notin Finalized(d)
                /\ d2.cycles[k].status \in {"OPEN", "FINALIZED"}
                /\ d2.cycles[k].status = "FINALIZED" =>
                       c.kind = "FINALIZE" /\ k = c.cycle
  <2>1. d2.cycles[k] = NextCycle(c, k, d.cycles[k], w)
    BY <1>2
  <2>2. CASE d.cycles[k].status = "ABSENT" /\ k \in CyclesOf(w)
    <3>1. PICK o \in DOMAIN w : w[o].cycle = k /\ k # NoCycle
      BY <2>2 DEF CyclesOf
    <3>2. k \in q.cycles
      BY <3>1, NotFinalized DEF WrittenRow
    <3>3. ~ HasCycle(d, k)
      BY <2>2 DEF HasCycle
    <3>4. Has(L, r, <<"CYCLE", k>>, "UPDATE")
      BY <3>2, <3>3 DEF Committing, ReadyOK
    <3>5. d2.cycles[k] = [status |-> "OPEN", version |-> 1]
      BY <2>1, <2>2 DEF NextCycle
    <3> QED
      BY <2>2, <3>4, <3>5 DEF Finalized
  <2>3. CASE /\ ~ (d.cycles[k].status = "ABSENT" /\ k \in CyclesOf(w))
             /\ c.kind = "FINALIZE" /\ k = c.cycle
    <3>1. Has(L, r, <<"CYCLE", k>>, "UPDATE") /\ ~ RefusedAtCycles(d, q, c)
      BY <2>3 DEF Committing, InCyclesOK
    <3>2. IsOpenCycle(d, k)
      BY <2>3, <3>1 DEF RefusedAtCycles, CanFinalize
    <3>3. d2.cycles[k].status = "FINALIZED"
      BY <2>1, <2>3 DEF NextCycle
    <3> QED
      BY <2>3, <3>1, <3>2, <3>3 DEF IsOpenCycle, Finalized
  <2>4. CASE /\ ~ (d.cycles[k].status = "ABSENT" /\ k \in CyclesOf(w))
             /\ ~ (c.kind = "FINALIZE" /\ k = c.cycle)
    BY <2>1, <2>4 DEF NextCycle
  <2> QED
    BY <2>2, <2>3, <2>4
<1>7. /\ d2.receipts = [k \in Keys |-> d2.receipts[k]]
      /\ \A k \in Keys : k # c.key => d2.receipts[k] = d.receipts[k]
      /\ d2.receipts[c.key].command = c
  <2>1. PICK receipt : /\ receipt.command = c
                       /\ d2.receipts = [d.receipts EXCEPT ![c.key] = receipt]
    BY <1>2
  <2>2. PICK old : old = d.receipts /\ old = [k \in Keys |-> old[k]]
    BY DEF Committing, RowsOK
  <2> QED
    BY <1>1, <2>1, <2>2
<1>8. CyclesStay(d, d2)
  BY <1>6 DEF CyclesStay, HasCycle, Finalized
<1> QED
  BY <1>3, <1>4, <1>5, <1>6, <1>7, <1>8 DEF Keeps

\* The rows that another request is about are not those a commit writes.
LEMMA OtherCommand ==
    ASSUME Inv, NEW d2, NEW q, NEW c, NEW r, c.key \in Keys,
           db.receipts[c.key] = NoReceipt,
           Keeps(db, d2, locks, r, q, c), CyclesStay(db, d2),
           NEW c2, NEW e2, Asked(db, c2, e2)
    PROVE  /\ Asked(d2, c2, e2)
           /\ c2.kind = "REVERSE" => Original(d2, c2) = Original(db, c2)
           /\ Named(d2, c2) = Named(db, c2)
           /\ OriginsOf(d2, c2) = OriginsOf(db, c2)
<1>1. c2 \in Commands
  BY DEF Asked
<1>2. c2.kind = "REVERSE" => Original(d2, c2) = Original(db, c2)
  <2> SUFFICES ASSUME c2.kind = "REVERSE"
               PROVE  Original(d2, c2) = Original(db, c2)
    OBVIOUS
  <2>1. c2.original \in Keys /\ Original(db, c2) # NoReceipt
    BY <1>1, CommandOK, OriginalOK DEF Inv
  <2>2. c2.original # c.key
    BY <2>1 DEF Original
  <2> QED
    BY <2>1, <2>2 DEF Keeps, Original
<1>3. Named(d2, c2) = Named(db, c2)
  BY <1>2 DEF Named
<1>4. OriginsOf(d2, c2) = OriginsOf(db, c2)
  BY <1>3 DEF OriginsOf
<1>5. /\ c2.kind = "FINALIZE" => c2.cycle \in Cycles
      /\ c2.kind = "REVERSE" /\ c2.cycle # NoCycle => c2.cycle \in Cycles
  BY <1>1, CommandOK
<1>6. Asked(d2, c2, e2)
  BY <1>2, <1>5 DEF Asked, CyclesStay
<1> QED
  BY <1>2, <1>3, <1>4, <1>6

LEMMA OtherRows ==
    ASSUME Inv, NEW r \in Requests, NEW p \in Requests, r # p,
           NEW q, q = request[r], NEW c, Committing(db, locks, r, q, c),
           NEW d2, Keeps(db, d2, locks, r, q, c), CyclesStay(db, d2),
           NEW q2, q2 = request[p], NEW c2, c2 = q2.command,
           q2.stage \in InOrigins
    PROVE  /\ \A f \in q2.origins :
                  /\ f \in Origins /\ f \notin q.origins
                  /\ d2.commitments[f] = db.commitments[f]
                  /\ RowsOf(d2, f) = RowsOf(db, f) /\ Free(d2, f) = Free(db, f)
           /\ \A o \in Obligations : OriginOf[o] \in q2.origins =>
                  d2.obligations[o] = db.obligations[o]
           /\ ReadBy(d2, c2) = ReadBy(db, c2)
           /\ Rows(d2, c2) = Rows(db, c2)
           /\ \A o \in DOMAIN q2.seen :
                  o \in Obligations /\ OriginOf[o] \in q2.origins
<1>1. /\ RequestOK(db, locks, p, q2) /\ RowsOK(db)
      /\ Asked(db, c2, q2.expects)
  BY WasAsked DEF Inv, InOrigins
<1>2. PreparedOK(db, q2, c2) /\ InOriginsOK(db, locks, p, q2, c2)
  BY <1>1 DEF RequestOK, Prepared, InOrigins
<1>3. ASSUME NEW f \in q2.origins
      PROVE  f \in Origins /\ f \notin q.origins
  <2>1. f \in Origins
    BY <1>1, <1>2, NamedOK DEF PreparedOK
  <2>2. Has(locks, p, <<"ORIGIN", f>>, "UPDATE")
    BY <1>2 DEF InOriginsOK
  <2>3. f \in q.origins => Has(locks, r, <<"ORIGIN", f>>, "UPDATE")
    BY DEF Committing, InOriginsOK
  <2> QED
    BY <2>1, <2>2, <2>3, Exclusive
<1>4. \A o \in Obligations : OriginOf[o] \in q2.origins =>
          d2.obligations[o] = db.obligations[o]
  BY <1>3 DEF Keeps
<1>5. \A f \in q2.origins : d2.commitments[f] = db.commitments[f]
  BY <1>3 DEF Keeps
<1>6. \A f \in q2.origins :
          RowsOf(d2, f) = RowsOf(db, f) /\ Free(d2, f) = Free(db, f)
  <2> TAKE f \in q2.origins
  <2>1. \A o \in Obligations : OriginOf[o] = f =>
            d2.obligations[o] = db.obligations[o]
    BY <1>4
  <2>2. RowsOf(d2, f) = RowsOf(db, f)
    BY <2>1 DEF RowsOf
  <2>3. {o \in Obligations : OriginOf[o] = f /\ ~ Exists(d2.obligations[o])}
            = {o \in Obligations : OriginOf[o] = f /\ ~ Exists(db.obligations[o])}
    BY <2>1
  <2> QED
    BY <2>2, <2>3 DEF Free
<1>7. /\ Named(d2, c2) = Named(db, c2)
      /\ OriginsOf(d2, c2) = OriginsOf(db, c2)
  BY <1>1, OtherCommand, CommandOK DEF Committing
<1>8. q2.origins = OriginsOf(db, c2)
  BY <1>2 DEF PreparedOK
<1>9. ReadBy(d2, c2) = ReadBy(db, c2)
  <2>1. UNION {RowsOf(d2, f) : f \in OriginsOf(d2, c2)}
            = UNION {RowsOf(db, f) : f \in OriginsOf(db, c2)}
    BY <1>6, <1>7, <1>8
  <2> QED
    BY <1>7, <2>1 DEF ReadBy
<1>10. \A o \in ReadBy(db, c2) : o \in Obligations /\ OriginOf[o] \in q2.origins
  <2>1. \A o \in Named(db, c2) : o \in Obligations /\
            (c2.kind # "RECONCILE" => OriginOf[o] \in q2.origins)
    BY <1>1, <1>8, NamedOK DEF OriginsOf
  <2>2. \A f \in q2.origins : \A o \in RowsOf(db, f) :
            o \in Obligations /\ OriginOf[o] \in q2.origins
    BY DEF RowsOf
  <2> QED
    BY <1>8, <2>1, <2>2 DEF ReadBy
<1>11. Rows(d2, c2) = Rows(db, c2)
  BY <1>4, <1>9, <1>10 DEF Rows
<1>12. \A o \in DOMAIN q2.seen : o \in ReadBy(db, c2)
  <2>1. c2.kind \in {"RECONCILE", "REVERSE"} => DOMAIN q2.seen = ReadBy(db, c2)
    BY <1>2 DEF InOriginsOK, Rows
  <2>2. c2.kind \notin {"RECONCILE", "REVERSE"} => DOMAIN q2.seen = ReadBy(db, c2)
    BY <1>2 DEF PreparedOK, ReadBy
  <2> QED
    BY <2>1, <2>2
<1> QED
  BY <1>3, <1>4, <1>5, <1>6, <1>9, <1>10, <1>11, <1>12

LEMMA OtherInOrigins ==
    ASSUME Inv, NEW r \in Requests, NEW p \in Requests, r # p,
           NEW q, q = request[r], NEW c, Committing(db, locks, r, q, c),
           NEW d2, Keeps(db, d2, locks, r, q, c), CyclesStay(db, d2),
           NEW q2, q2 = request[p], NEW c2, c2 = q2.command,
           q2.stage \in InOrigins
    PROVE  InOriginsOK(d2, locks, p, q2, c2)
<1>1. /\ RequestOK(db, locks, p, q2) /\ RowsOK(db)
      /\ Asked(db, c2, q2.expects)
      /\ c.key \in Keys /\ db.receipts[c.key] = NoReceipt
  BY WasAsked, CommandOK DEF Inv, InOrigins, Committing
<1>2. PreparedOK(db, q2, c2) /\ InOriginsOK(db, locks, p, q2, c2)
  BY <1>1 DEF RequestOK, Prepared, InOrigins
<1>3. /\ c2.kind = "REVERSE" => Original(d2, c2) = Original(db, c2)
      /\ Named(d2, c2) = Named(db, c2)
      /\ OriginsOf(d2, c2) = OriginsOf(db, c2)
  BY <1>1, OtherCommand
<1>4. /\ Rows(d2, c2) = Rows(db, c2)
      /\ \A f \in q2.origins : /\ f \notin q.origins
                               /\ d2.commitments[f] = db.commitments[f]
  BY OtherRows
\* The two have no origin in common.
<1>5. /\ q2.origins = OriginsOf(db, c2) /\ q.origins = OriginsOf(db, c)
      /\ Acts(c2.kind) => OriginsOf(db, c2) # {}
  BY <1>1, <1>2, NamedOK DEF PreparedOK, Committing
<1>6. c2.kind = "REVERSE" => ~ IsReversed(d2, c2.original)
  <2> SUFFICES ASSUME c2.kind = "REVERSE", IsReversed(d2, c2.original)
               PROVE  FALSE
    OBVIOUS
  <2>1. PICK k \in Keys : /\ d2.receipts[k].command.kind = "REVERSE"
                          /\ d2.receipts[k].command.original = c2.original
    BY DEF IsReversed
  <2>2. ~ IsReversed(db, c2.original)
    BY <1>2 DEF InOriginsOK
  <2>3. k = c.key /\ d2.receipts[k].command = c
    BY <2>1, <2>2 DEF IsReversed, Keeps
  <2>4. Named(db, c) = Named(db, c2)
    BY <2>1, <2>3 DEF Named, Original
  <2>5. OriginsOf(db, c) = OriginsOf(db, c2)
    BY <2>1, <2>3, <2>4 DEF OriginsOf
  <2> QED
    BY <1>4, <1>5, <2>5 DEF Acts
<1>7. Acts(c2.kind) /\ c2.kind # "TRANSFER" => d2.receipts[c2.key].command # c2
  <2> SUFFICES ASSUME Acts(c2.kind), c2.kind # "TRANSFER",
                      d2.receipts[c2.key].command = c2
               PROVE  FALSE
    OBVIOUS
  <2>1. db.receipts[c2.key].command # c2
    BY <1>2 DEF InOriginsOK
  <2>2. c2.key \in Keys
    BY <1>1, CommandOK DEF Asked
  <2>3. c2 = c
    BY <2>1, <2>2 DEF Keeps
  <2> QED
    BY <1>4, <1>5, <2>3
<1>8. StatesOK(db, q2) /\ q2.cycles \subseteq Cycles => StatesOK(d2, q2)
  BY DEF StatesOK, CyclesStay
<1>9. CyclesToLock(d2, c2, q2.seen, FinalizedThen(q2))
          = CyclesToLock(db, c2, q2.seen, FinalizedThen(q2))
  BY <1>3 DEF CyclesToLock
<1>10. c2.kind = "RECONCILE" => c2.origin \in q2.origins
  BY <1>5 DEF OriginsOf
<1>11. c2.kind = "RECONCILE" =>
           q2.expects.commitments[c2.origin] = d2.commitments[c2.origin]
  BY <1>2, <1>4, <1>10 DEF InOriginsOK
<1>12. c2.kind = "REVERSE" =>
           ((\E o \in Named(d2, c2) :
                \/ Original(d2, c2).parts[o].cycle \in FinalizedThen(q2)
                \/ q2.seen[o].cycle \in FinalizedThen(q2)) <=> (c2.cycle # NoCycle))
  BY <1>2, <1>3 DEF InOriginsOK
<1> QED
  BY <1>2, <1>4, <1>6, <1>7, <1>8, <1>9, <1>11, <1>12 DEF InOriginsOK

LEMMA OtherReady ==
    ASSUME Inv, NEW r \in Requests, NEW p \in Requests, r # p,
           NEW q, NEW c, NEW d2,
           Keeps(db, d2, locks, r, q, c), CyclesStay(db, d2),
           NEW q2, q2 = request[p], NEW c2, c2 = q2.command,
           q2.stage \in Ready
    PROVE  ReadyOK(d2, locks, p, q2, c2)
<1>1. RequestOK(db, locks, p, q2)
  BY WasAsked
<1>2. ReadyOK(db, locks, p, q2, c2) /\ q2.cycles \subseteq Cycles
  BY <1>1 DEF RequestOK, Ready, InOrigins, InOriginsOK
<1>3. \A k \in q2.cycles :
          \/ HasCycle(db, k) /\ HasCycle(d2, k)
          \/ /\ Has(locks, p, <<"CYCLE", k>>, "UPDATE")
             /\ HasCycle(d2, k) <=> HasCycle(db, k)
  <2> TAKE k \in q2.cycles
  <2>1. CASE HasCycle(db, k)
    BY <1>2, <2>1 DEF CyclesStay
  <2>2. CASE ~ HasCycle(db, k)
    <3>1. Has(locks, p, <<"CYCLE", k>>, "UPDATE")
      BY <1>2, <2>2 DEF ReadyOK
    <3>2. ~ Has(locks, r, <<"CYCLE", k>>, "UPDATE")
      BY <3>1, Exclusive
    <3>3. d2.cycles[k] = db.cycles[k]
      BY <1>2, <3>2 DEF Keeps
    <3> QED
      BY <3>1, <3>3 DEF HasCycle
  <2> QED
    BY <2>1, <2>2
<1> QED
  BY <1>2, <1>3 DEF ReadyOK

\* The cycles another request has locked are as they were.
LEMMA OtherCycles ==
    ASSUME Inv, NEW r \in Requests, NEW p \in Requests, r # p,
           NEW q, NEW c, NEW d2, Keeps(db, d2, locks, r, q, c),
           NEW k \in Cycles, NEW mode, Has(locks, p, <<"CYCLE", k>>, mode)
    PROVE  /\ d2.cycles[k] = db.cycles[k]
           /\ IsOpenCycle(d2, k) <=> IsOpenCycle(db, k)
           /\ Usable(d2, k) <=> Usable(db, k)
<1>1. ~ Has(locks, r, <<"CYCLE", k>>, "UPDATE")
  BY Exclusive
<1>2. d2.cycles[k] = db.cycles[k]
  BY <1>1 DEF Keeps
<1> QED
  BY <1>2 DEF IsOpenCycle, Usable, HasCycle

\* The cycles a reconciliation affects are among those it has locked.
LEMMA AffectedAreLocked ==
    ASSUME NEW d, RowsOK(d), NEW L, NEW r, NEW q, NEW c, c = q.command,
           Asked(d, c, q.expects), PreparedOK(d, q, c), InOriginsOK(d, L, r, q, c),
           Acts(c.kind), NEW w, w = WrittenBy(d, q)
    PROVE  AffectedCycles(q, w) \subseteq q.cycles
<1>1. \A o \in DOMAIN w : WrittenRow(d, q, o, w[o])
  BY WrittenOK DEF WrittenRows
<1>2. CyclesOf(w) \subseteq q.cycles
  BY <1>1 DEF CyclesOf, WrittenRow
<1>3. CyclesOf(q.seen) \subseteq q.cycles
  BY DEF InOriginsOK, CyclesToLock
<1>4. CyclesOf([o \in DOMAIN w \cap DOMAIN q.seen |-> q.seen[o]])
          \subseteq CyclesOf(q.seen)
  BY DEF CyclesOf
<1> QED
  BY <1>2, <1>3, <1>4 DEF AffectedCycles

LEMMA OtherInCycles ==
    ASSUME Inv, NEW r \in Requests, NEW p \in Requests, r # p,
           NEW q, q = request[r], NEW c, Committing(db, locks, r, q, c),
           NEW d2, Keeps(db, d2, locks, r, q, c), CyclesStay(db, d2),
           NEW q2, q2 = request[p], NEW c2, c2 = q2.command,
           q2.stage \in InCycles
    PROVE  InCyclesOK(d2, locks, p, q2, c2)
<1>1. /\ RequestOK(db, locks, p, q2) /\ RowsOK(db)
      /\ Asked(db, c2, q2.expects) /\ q2.stage \in InOrigins
  BY WasAsked DEF Inv, InOrigins, InCycles
<1>2. /\ PreparedOK(db, q2, c2) /\ InOriginsOK(db, locks, p, q2, c2)
      /\ InCyclesOK(db, locks, p, q2, c2)
  BY <1>1 DEF RequestOK, Prepared, InOrigins, InCycles
<1>3. \A k \in q2.cycles : /\ d2.cycles[k] = db.cycles[k]
                           /\ IsOpenCycle(d2, k) <=> IsOpenCycle(db, k)
                           /\ Usable(d2, k) <=> Usable(db, k)
  <2> TAKE k \in q2.cycles
  <2>1. PICK mode : Has(locks, p, <<"CYCLE", k>>, mode)
    BY <1>2 DEF InCyclesOK
  <2>2. k \in Cycles
    BY <1>2 DEF InOriginsOK
  <2> QED
    BY <2>1, <2>2, OtherCycles
<1>4. ~ RefusedAtCycles(db, q2, c2) /\ c2.kind \in Kinds
  BY <1>1, <1>2, CommandOK DEF InCyclesOK, Asked
<1>5. \A S : S \subseteq q2.cycles => CycleVersions(d2, S) = CycleVersions(db, S)
  BY <1>3 DEF CycleVersions
<1>6. CASE c2.kind \in {"TRANSFER", "WAIVE"}
  <2>1. ~ RefusedAtCycles(d2, q2, c2)
    BY <1>3, <1>4, <1>6 DEF RefusedAtCycles
  <2> QED
    BY <1>2, <2>1 DEF InCyclesOK
<1>7. CASE c2.kind \in {"OFFSET", "MOVE"}
  <2>1. PICK existing : existing = {k \in q2.cycles : q2.states[k].status # "ABSENT"}
    OBVIOUS
  <2>2. /\ \A k \in q2.cycles : Usable(db, k)
        /\ q2.expects.cycles = CycleVersions(db, existing)
    BY <1>4, <1>7, <2>1 DEF RefusedAtCycles
  <2>3. q2.expects.cycles = CycleVersions(d2, existing)
    BY <1>5, <2>1, <2>2
  <2>4. ~ RefusedAtCycles(d2, q2, c2)
    BY <1>3, <1>7, <2>1, <2>2, <2>3 DEF RefusedAtCycles
  <2> QED
    BY <1>2, <2>4 DEF InCyclesOK
<1>8. CASE c2.kind = "RECONCILE"
  <2>1. c2.origin \in q2.origins
    BY <1>2, <1>8 DEF PreparedOK, OriginsOf
  <2>2. /\ RowsOf(d2, c2.origin) = RowsOf(db, c2.origin)
        /\ Free(d2, c2.origin) = Free(db, c2.origin)
    BY <1>1, <2>1, OtherRows
  <2>3. WrittenBy(d2, q2) = WrittenBy(db, q2)
    BY <1>8, <2>2 DEF WrittenBy, Written, ReconcileRows, Resolves
  <2>4. PICK affected : affected = AffectedCycles(q2, WrittenBy(db, q2))
    OBVIOUS
  <2>5. affected \subseteq q2.cycles
    BY <1>1, <1>2, <1>8, <2>4, AffectedAreLocked DEF Acts
  <2>6. \A k \in affected : Usable(db, k)
    BY <1>4, <1>8, <2>4 DEF RefusedAtCycles
  <2>7. \A k \in affected : Usable(d2, k)
    BY <1>3, <2>5, <2>6
  <2>8. ~ RefusedAtCycles(d2, q2, c2)
    BY <1>8, <2>3, <2>4, <2>7 DEF RefusedAtCycles
  <2> QED
    BY <1>2, <2>8 DEF InCyclesOK
<1>9. CASE c2.kind = "REVERSE"
  <2>1. c2.cycle # NoCycle => c2.cycle \in q2.cycles
    BY <1>2, <1>9 DEF InOriginsOK, CyclesToLock, Acts
  <2>2. ~ RefusedAtCycles(d2, q2, c2)
    BY <1>3, <1>4, <1>5, <1>9, <2>1 DEF RefusedAtCycles
  <2> QED
    BY <1>2, <2>2 DEF InCyclesOK
<1>10. CASE c2.kind = "FINALIZE"
  <2>1. q2.cycles = {c2.cycle} /\ c2.cycle \in Cycles
    BY <1>2, <1>10 DEF PreparedOK, InOriginsOK
  <2>2. Has(locks, p, <<"CYCLE", c2.cycle>>, "UPDATE")
    BY <1>2, <1>10 DEF InCyclesOK
  <2>3. c2.cycle \notin q.cycles
    BY <2>2, Exclusive DEF Committing, InCyclesOK
  <2>4. \A o \in Obligations : d2.obligations[o].cycle = c2.cycle =>
            d2.obligations[o] = db.obligations[o]
    BY <2>1, <2>3, IdsAssumption DEF Keeps
  <2>5. CanFinalize(db, c2) /\ q2.expects.cycles = CycleVersions(db, {c2.cycle})
    BY <1>4, <1>10 DEF RefusedAtCycles
  <2>6. CanFinalize(d2, c2)
    BY <1>3, <2>1, <2>4, <2>5 DEF CanFinalize
  <2>7. q2.expects.cycles = CycleVersions(d2, {c2.cycle})
    BY <1>5, <2>1, <2>5
  <2>8. ~ RefusedAtCycles(d2, q2, c2)
    BY <1>10, <2>6, <2>7 DEF RefusedAtCycles
  <2> QED
    BY <1>2, <2>8 DEF InCyclesOK
<1>11. CASE c2.kind = "START_CLOSURE"
  BY <1>2, <1>11 DEF InCyclesOK, RefusedAtCycles
<1> QED
  BY <1>4, <1>6, <1>7, <1>8, <1>9, <1>10, <1>11 DEF Kinds

LEMMA OtherOK ==
    ASSUME Inv, NEW r \in Requests, NEW p \in Requests, r # p,
           NEW q, q = request[r], NEW c, Committing(db, locks, r, q, c),
           NEW d2, Keeps(db, d2, locks, r, q, c), CyclesStay(db, d2),
           NEW q2, q2 = request[p]
    PROVE  RequestOK(d2, locks, p, q2)
<1>1. PICK c2 : c2 = q2.command
  OBVIOUS
<1>2. /\ RequestOK(db, locks, p, q2) /\ RowsOK(db) /\ IsRequest(q2)
      /\ q2.stage # "IDLE" => Asked(db, c2, q2.expects)
      /\ c.key \in Keys /\ db.receipts[c.key] = NoReceipt
  BY <1>1, WasAsked, CommandOK DEF Inv, Committing
<1>3. q2.stage # "IDLE" =>
          /\ Asked(d2, c2, q2.expects)
          /\ Named(d2, c2) = Named(db, c2)
          /\ OriginsOf(d2, c2) = OriginsOf(db, c2)
  BY <1>2, OtherCommand
<1>4. q2.stage \in InSpace => d2.space = q2.expects.space
                              /\ Has(locks, p, <<"SPACE">>, SpaceMode(c2.kind))
  BY <1>1, <1>2, Exclusive DEF RequestOK, Keeps
<1>5. q2.stage \in Prepared => PreparedOK(d2, q2, c2)
  <2> SUFFICES ASSUME q2.stage \in Prepared
               PROVE  PreparedOK(d2, q2, c2)
    OBVIOUS
  <2>1. PreparedOK(db, q2, c2) /\ q2.stage # "IDLE"
    BY <1>1, <1>2 DEF RequestOK, Prepared
  <2>2. \A o \in DOMAIN q2.seen : o \in Obligations /\ RowOK(d2, q2.seen[o])
    BY <2>1, IdsAssumption DEF PreparedOK, RowOK, CyclesStay
  <2> QED
    BY <1>3, <2>1, <2>2 DEF PreparedOK
<1>6. q2.stage \in InOrigins => InOriginsOK(d2, locks, p, q2, c2)
  BY <1>1, OtherInOrigins
<1>7. q2.stage \in Ready => ReadyOK(d2, locks, p, q2, c2)
  BY <1>1, OtherReady
<1>8. q2.stage \in InCycles => InCyclesOK(d2, locks, p, q2, c2)
  BY <1>1, OtherInCycles
<1>9. q2.stage \in Checked => CheckedOK(d2, q2, c2)
  <2> SUFFICES ASSUME q2.stage \in Checked
               PROVE  CheckedOK(d2, q2, c2)
    OBVIOUS
  <2>1. /\ CheckedOK(db, q2, c2) /\ PreparedOK(db, q2, c2)
        /\ q2.stage \in InOrigins /\ q2.stage # "IDLE"
    BY <1>1, <1>2 DEF RequestOK, Prepared, InOrigins, Checked
  <2>2. /\ Rows(d2, c2) = Rows(db, c2)
        /\ \A o \in DOMAIN q2.seen :
               o \in Obligations /\ d2.obligations[o] = db.obligations[o]
    BY <1>1, <2>1, OtherRows
  <2>3. ~ OutOfDate(d2, q2, c2)
    BY <2>1, <2>2 DEF CheckedOK, OutOfDate
  <2>4. Resolves(c2.kind) \/ c2.kind = "MOVE" => Named(d2, c2) = DOMAIN q2.seen
    BY <1>3, <2>1 DEF PreparedOK, Resolves
  <2>5. Resolves(c2.kind) \/ c2.kind = "MOVE" =>
            \A o \in Named(d2, c2) : IsOpen(d2.obligations[o])
    BY <1>3, <2>1, <2>2, <2>4 DEF CheckedOK
  <2> QED
    BY <2>1, <2>2, <2>3, <2>5 DEF CheckedOK
<1>10. q2.stage = "COMMIT" =>
           /\ Has(locks, p, <<"KEY", c2.key>>, "UPDATE")
           /\ d2.receipts[c2.key] = NoReceipt
  <2> SUFFICES ASSUME q2.stage = "COMMIT"
               PROVE  /\ Has(locks, p, <<"KEY", c2.key>>, "UPDATE")
                      /\ d2.receipts[c2.key] = NoReceipt
    OBVIOUS
  <2>1. /\ Has(locks, p, <<"KEY", c2.key>>, "UPDATE")
        /\ db.receipts[c2.key] = NoReceipt /\ c2.key \in Keys
    BY <1>1, <1>2, CommandOK DEF RequestOK, Asked
  <2>2. c2.key # c.key
    BY <2>1, Exclusive DEF Committing
  <2> QED
    BY <2>1, <2>2 DEF Keeps
<1> QED
  BY <1>1, <1>2, <1>3, <1>4, <1>5, <1>6, <1>7, <1>8, <1>9, <1>10 DEF RequestOK

\* The rows a commit leaves.
LEMMA CommitRows ==
    ASSUME NEW d, NEW L, NEW r, NEW q, NEW c, Committing(d, L, r, q, c),
           NEW w, w = WrittenBy(d, q),
           NEW d2, d2 = Committed(d, c, q.expects, w)
    PROVE  RowsOK(d2)
<1>1. /\ Keeps(d, d2, L, r, q, c) /\ CyclesStay(d, d2)
      /\ RowsOK(d) /\ c \in Commands /\ c.kind \in Kinds /\ c.key \in Keys
      /\ Asked(d, c, q.expects)
  BY CommitKeeps, CommandOK DEF Committing
<1>2. d2 = [space |-> d2.space, owed |-> d2.owed, commitments |-> d2.commitments,
            obligations |-> d2.obligations, cycles |-> d2.cycles,
            receipts |-> d2.receipts]
  BY DEF Committed
<1>3. /\ DOMAIN d2.receipts = Keys
      /\ d2.receipts = [k \in Keys |-> d2.receipts[k]]
  BY <1>1 DEF Keeps
<1>4. \A k \in Cycles :
          d2.cycles[k].status \in {"ABSENT", "OPEN", "FINALIZED"}
  BY <1>1 DEF Keeps, RowsOK
\* The cycles a request has locked are there once it has written into them.
<1>5. ASSUME NEW o \in Obligations
      PROVE  RowOK(d2, d2.obligations[o])
  <2>1. CASE d2.obligations[o] = d.obligations[o]
    BY <1>1, <2>1, IdsAssumption DEF RowsOK, RowOK, CyclesStay
  <2>2. CASE o \in DOMAIN w
    <3>1. d2.obligations[o] = w[o]
      BY <2>2 DEF Committed
    <3>2. /\ WrittenRow(d, q, o, w[o]) /\ q.cycles \subseteq Cycles
      BY <2>2, NotFinalized DEF Committing, InOriginsOK
    <3>3. w[o].cycle # NoCycle => HasCycle(d2, w[o].cycle)
      <4> SUFFICES ASSUME w[o].cycle # NoCycle
                   PROVE  HasCycle(d2, w[o].cycle)
        OBVIOUS
      <4>1. PICK k \in Cycles : k = w[o].cycle
        BY <3>2 DEF WrittenRow
      <4>2. CASE HasCycle(d, k)
        BY <1>1, <4>1, <4>2 DEF CyclesStay
      <4>3. CASE ~ HasCycle(d, k)
        <5>1. d.cycles[k].status = "ABSENT" /\ k \in CyclesOf(w)
          BY <2>2, <4>1, <4>3 DEF HasCycle, CyclesOf
        <5>2. d2.cycles[k] = [status |-> "OPEN", version |-> 1]
          BY <5>1 DEF Committed, NextCycle
        <5> QED
          BY <4>1, <5>2 DEF HasCycle
      <4> QED
        BY <4>2, <4>3
    <3> QED
      BY <3>1, <3>2, <3>3 DEF WrittenRow, IsRow, RowOK
  <2> QED
    BY <2>1, <2>2 DEF Committed
<1>6. \A o \in Obligations : Exists(d.obligations[o]) => Exists(d2.obligations[o])
  BY <1>1 DEF Keeps
<1>7. ASSUME NEW k \in Keys
      PROVE  ReceiptOK(d2, k)
  <2>1. CASE k # c.key
    <3>1. d2.receipts[k] = d.receipts[k] /\ ReceiptOK(d, k)
      BY <1>1, <2>1 DEF Keeps, RowsOK
    <3>2. \A e \in Commands : Resolves(e.kind) => ToSet(e.targets) \subseteq Obligations
      BY CommandOK DEF Resolves
    <3> QED
      BY <1>1, <1>6, <3>1, <3>2, IdsAssumption DEF ReceiptOK, CyclesStay
  <2>2. CASE k = c.key
    <3>1. PICK receipt : receipt = d2.receipts[k]
      OBVIOUS
    <3>2. PICK written : written =
              [command |-> c, expects |-> q.expects,
               parts   |-> [o \in Named(d, c) |-> [cycle |-> d.obligations[o].cycle]]]
      OBVIOUS
    <3>3. d2.receipts = [d.receipts EXCEPT ![c.key] = written]
      BY <3>2 DEF Committed
    <3>4. receipt = written
      BY <1>1, <2>2, <3>1, <3>3 DEF RowsOK
    <3>5. receipt.command = c
          /\ receipt.parts = [o \in Named(d, c) |-> [cycle |-> d.obligations[o].cycle]]
      BY <3>2, <3>4
    <3>6. Resolves(c.kind) =>
              /\ Named(d, c) = ToSet(c.targets) /\ Named(d, c) \subseteq Obligations
              /\ DOMAIN w = Named(d, c)
      BY <1>1, NamedOK DEF Named, Resolves, Committing, WrittenBy, Written
    <3>7. Resolves(c.kind) => \A o \in Named(d, c) : Exists(d2.obligations[o])
      <4> SUFFICES ASSUME Resolves(c.kind), NEW o \in Named(d, c)
                   PROVE  Exists(d2.obligations[o])
        OBVIOUS
      <4>1. d2.obligations[o] = w[o]
        BY <3>6 DEF Committed
      <4> QED
        BY <3>6, <4>1, NotFinalized DEF WrittenRow
    <3>8. \A o \in Obligations :
              LET cycle == d.obligations[o].cycle
              IN  /\ cycle \in Cycles \cup {NoCycle}
                  /\ cycle # NoCycle => HasCycle(d2, cycle)
      BY <1>1 DEF RowsOK, RowOK, CyclesStay
    <3> QED
      BY <1>1, <2>2, <3>1, <3>5, <3>6, <3>7, <3>8 DEF ReceiptOK
  <2> QED
    BY <2>1, <2>2
\* Nothing is put into a finalized cycle, and one is finalized when it is settled.
<1>8. ASSUME NEW o \in Obligations, d2.obligations[o].cycle \in Finalized(d2)
      PROVE  ~ IsOpen(d2.obligations[o])
  <2>1. PICK k \in Cycles : k = d2.obligations[o].cycle
                            /\ d2.cycles[k].status = "FINALIZED"
    BY <1>8 DEF Finalized
  <2>2. CASE d2.cycles[k] = d.cycles[k]
    <3>1. k \in Finalized(d)
      BY <2>1, <2>2 DEF Finalized
    <3>2. d2.obligations[o] = d.obligations[o]
      BY <1>1, <2>1, <3>1 DEF Keeps
    <3> QED
      BY <1>1, <2>1, <3>1, <3>2 DEF RowsOK
  <2>3. CASE c.kind = "FINALIZE" /\ k = c.cycle
    <3>1. CanFinalize(d, c)
      BY <2>3 DEF Committing, InCyclesOK, RefusedAtCycles
    <3>2. DOMAIN w = {}
      BY <2>3 DEF Committing, WrittenBy, Written, Resolves
    <3>3. d2.obligations[o] = d.obligations[o]
      BY <3>2 DEF Committed
    <3> QED
      BY <2>1, <2>3, <3>1, <3>3 DEF CanFinalize
  <2> QED
    BY <1>1, <2>1, <2>2, <2>3 DEF Keeps
<1> QED
  BY <1>2, <1>3, <1>4, <1>5, <1>7, <1>8 DEF RowsOK

LEMMA InvCommit ==
    ASSUME Inv, NEW r \in Requests, Commit(r)
    PROVE  Inv'
<1>1. PICK q, c, w, d2 : /\ q = request[r] /\ c = q.command
                         /\ w = WrittenBy(db, q)
                         /\ d2 = Committed(db, c, q.expects, w)
  OBVIOUS
<1>2. db' = d2 /\ lost' = lost /\ Ended(r, "ANSWERED", "APPLIED")
  BY <1>1 DEF Commit
<1>3. Committing(db, locks, r, q, c)
  BY <1>1, MayCommit DEF Commit
<1>4. Keeps(db, d2, locks, r, q, c) /\ CyclesStay(db, d2) /\ RowsOK(d2)
  BY <1>1, <1>3, CommitKeeps, CommitRows
<1>5. PICK row : row = [Nobody EXCEPT !.stage   = "ANSWERED",
                                      !.command = request[r].command,
                                      !.expects = request[r].expects,
                                      !.answer  = "APPLIED"]
  OBVIOUS
<1>6. /\ IsRequest(row) /\ row.stage = "ANSWERED"
      /\ row.command = c /\ row.expects = q.expects
  BY <1>1, <1>5 DEF Nobody, IsRequest, Stages
<1>7. request' = [request EXCEPT ![r] = row] /\ locks' = Unlocked(r)
  BY <1>2, <1>5 DEF Ended
<1>8. /\ DOMAIN request' = Requests
      /\ request' = [p \in Requests |-> request'[p]]
      /\ request'[r] = row
      /\ \A p \in Requests \ {r} : request'[p] = request[p]
  BY <1>7 DEF Inv
<1>9. RequestOK(d2, locks', r, row)
  <2>1. Asked(d2, c, q.expects)
    BY <1>3, <1>4, OtherCommand, CommandOK DEF Committing
  <2> QED
    BY <1>6, <2>1, OutsideOK DEF OutOfSpace
<1>10. ASSUME NEW p \in Requests \ {r}
       PROVE  RequestOK(d2, locks', p, request'[p])
  <2>1. RequestOK(d2, locks, p, request[p])
    BY <1>1, <1>3, <1>4, OtherOK
  <2>2. \A on, mode : Has(locks, p, on, mode) => Has(locks', p, on, mode)
    BY <1>7 DEF Unlocked, Has, LockOf
  <2> QED
    BY <1>8, <2>1, <2>2, MoreLocks
<1>11. ASSUME NEW l \in locks'
       PROVE  LockOK(d2, locks', request', l)
  <2>1. l \in locks /\ l.by # r /\ locks' \subseteq locks
    BY <1>7 DEF Unlocked
  <2>2. LockOK(db, locks, request, l)
    BY <2>1 DEF Inv
  <2>3. \A k \in Cycles : ~ HasCycle(d2, k) => ~ HasCycle(db, k)
    BY <1>4 DEF CyclesStay
  <2> QED
    BY <1>8, <2>1, <2>2, <2>3 DEF LockOK
<1> QED
  BY <1>2, <1>4, <1>8, <1>9, <1>10, <1>11 DEF Inv

-----------------------------------------------------------------------------
(***************************************************************************)
(* A commit carries out the command, on the rows its client has seen.      *)
(***************************************************************************)
LEMMA SeenIsExpected ==
    ASSUME NEW d, NEW L, NEW r, NEW q, NEW c, Committing(d, L, r, q, c)
    PROVE  q.expects = Seen(d, c)
<1>1. PICK e, seen : e = q.expects /\ seen = Seen(d, c)
  OBVIOUS
<1>2. /\ c \in Commands /\ c.kind \in Kinds /\ AsSeen(c, e) /\ AsSeen(c, seen)
      /\ RowsOK(d) /\ Asked(d, c, q.expects)
  BY <1>1, SeenShape, CommandOK DEF Committing, Asked
<1>3. seen = [space       |-> d.space,
              commitments |-> [f \in {f \in Origins : c.kind = "RECONCILE"
                                                      /\ f = c.origin} |->
                                   d.commitments[f]],
              obligations |-> [o \in IF c.kind = "RECONCILE" THEN {}
                                     ELSE ReadBy(d, c) |-> d.obligations[o].version],
              cycles      |-> CycleVersions(d, Versioned(d, c, Rows(d, c)))]
  BY <1>1 DEF Seen
<1>4. e.space = seen.space
  BY <1>1, <1>3 DEF Committing
<1>5. e.commitments = seen.commitments
  <2>1. c.kind = "RECONCILE" => e.commitments[c.origin] = d.commitments[c.origin]
    BY <1>1 DEF Committing, InOriginsOK
  <2>2. e.commitments = [f \in {f \in Origins : c.kind = "RECONCILE" /\ f = c.origin}
                             |-> e.commitments[f]]
    BY <1>2 DEF AsSeen
  <2>3. \A f \in {f \in Origins : c.kind = "RECONCILE" /\ f = c.origin} :
            e.commitments[f] = d.commitments[f]
    BY <2>1
  <2> QED
    BY <1>3, <2>2, <2>3
<1>6. /\ DOMAIN q.seen = ReadBy(d, c)
      /\ \A o \in DOMAIN q.seen : q.seen[o] = d.obligations[o]
      /\ q.seen = Rows(d, c)
  <2>1. DOMAIN q.seen = ReadBy(d, c)
    BY DEF Committing, PreparedOK, InOriginsOK, Rows, ReadBy
  <2>2. \A o \in DOMAIN q.seen : q.seen[o] = d.obligations[o]
    BY DEF Committing, CheckedOK
  <2>3. q.seen = [o \in DOMAIN q.seen |-> q.seen[o]]
    BY DEF Committing, PreparedOK
  <2> QED
    BY <2>1, <2>2, <2>3 DEF Rows
<1>7. e.obligations = seen.obligations
  <2>1. e.obligations = [o \in DOMAIN e.obligations |-> e.obligations[o]]
    BY <1>2 DEF AsSeen
  <2>2. CASE c.kind = "RECONCILE"
    BY <1>2, <1>3, <2>1, <2>2 DEF AsSeen
  <2>3. CASE c.kind # "RECONCILE"
    <3>1. /\ DOMAIN e.obligations = DOMAIN q.seen
          /\ \A o \in DOMAIN e.obligations :
                 e.obligations[o] = d.obligations[o].version
      BY <1>1, <2>3 DEF Committing, CheckedOK, OutOfDate
    <3> QED
      BY <1>3, <1>6, <2>1, <2>3, <3>1
  <2> QED
    BY <2>2, <2>3
<1>8. e.cycles = CycleVersions(d, Versioned(d, c, q.seen))
  <2>1. ~ RefusedAtCycles(d, q, c)
    BY DEF Committing, InCyclesOK
  <2>2. Acts(c.kind) =>
            /\ StatesOK(d, q)
            /\ q.cycles = CyclesToLock(d, c, q.seen, FinalizedThen(q))
            /\ \A k \in CyclesOf(q.seen) : q.states[k].status # "ABSENT"
    BY DEF Committing, InOriginsOK
  <2>3. CASE c.kind \in {"TRANSFER", "WAIVE", "RECONCILE", "START_CLOSURE"}
    <3>1. e.cycles = [k \in {} |-> e.cycles[k]]
      BY <1>2, <2>3 DEF AsSeen
    <3>2. Versioned(d, c, q.seen) = {}
      BY <2>3 DEF Versioned
    <3> QED
      BY <3>1, <3>2 DEF CycleVersions
  <2>4. CASE c.kind \in {"OFFSET", "MOVE"}
    <3>1. PICK existing : existing = {k \in q.cycles : q.states[k].status # "ABSENT"}
      OBVIOUS
    <3>2. e.cycles = CycleVersions(d, existing)
      BY <1>1, <2>1, <2>4, <3>1 DEF RefusedAtCycles
    <3>3. c.kind = "MOVE" => \A k \in q.cycles :
              q.states[k].status # "ABSENT" <=> HasCycle(d, k)
      BY <2>2, <2>4 DEF Committing, ReadyOK, StatesOK, Acts
    <3>4. CASE c.kind = "OFFSET"
      <4>1. q.cycles = CyclesOf(q.seen)
        BY <2>2, <3>4 DEF CyclesToLock, Acts
      <4>2. existing = CyclesOf(q.seen)
        BY <2>2, <3>1, <3>4, <4>1 DEF Acts
      <4> QED
        BY <3>2, <3>4, <4>2 DEF Versioned
    <3>5. CASE c.kind = "MOVE"
      <4>1. q.cycles = CyclesOf(q.seen) \cup ({c.cycle} \ {NoCycle})
        BY <2>2, <3>5 DEF CyclesToLock, Acts
      <4>2. \A k \in CyclesOf(q.seen) : k \in existing
        BY <2>2, <3>1, <3>5, <4>1 DEF Acts
      <4>3. existing = CyclesOf(q.seen) \cup {k \in {c.cycle} : HasCycle(d, k)}
        BY <3>1, <3>3, <3>5, <4>1, <4>2 DEF HasCycle
      <4> QED
        BY <3>2, <3>5, <4>3 DEF Versioned
    <3> QED
      BY <2>4, <3>4, <3>5
  <2>5. CASE c.kind = "REVERSE"
    <3>1. e.cycles = CycleVersions(d, q.cycles)
      BY <1>1, <2>1, <2>5 DEF RefusedAtCycles
    <3>2. q.cycles = Versioned(d, c, q.seen)
      BY <2>2, <2>5 DEF CyclesToLock, Versioned, Acts
    <3> QED
      BY <3>1, <3>2
  <2>6. CASE c.kind = "FINALIZE"
    BY <1>1, <2>1, <2>6 DEF RefusedAtCycles, Versioned
  <2> QED
    BY <1>2, <2>3, <2>4, <2>5, <2>6 DEF Kinds
<1>9. e = [space |-> e.space, commitments |-> e.commitments,
           obligations |-> e.obligations, cycles |-> e.cycles]
  BY <1>2 DEF AsSeen
<1>10. e = seen
  BY <1>3, <1>4, <1>5, <1>6, <1>7, <1>8, <1>9
<1> QED
  BY <1>1, <1>10

\* Only the rows that are read matter to what is written.
Agree(a, b, S) == \A o \in S : a[o] = b[o]

LEMMA SameOpen ==
    ASSUME NEW a, NEW b, NEW S, Agree(a, b, S), NEW T, T \subseteq S
    PROVE  OpenIn(a, T) = OpenIn(b, T)
<1>1. {o \in T : IsOpen(a[o])} = {o \in T : IsOpen(b[o])}
  BY DEF Agree
<1> QED
  BY <1>1 DEF OpenIn

LEMMA SameTotal ==
    ASSUME NEW a, NEW b, NEW S, Agree(a, b, S)
    PROVE  Total(a, S) = Total(b, S)
<1>1. [o \in S |-> a[o].remaining] = [o \in S |-> b[o].remaining]
  BY DEF Agree
<1> QED
  BY <1>1, Zenon DEF Total

LEMMA SameTakesUp ==
    ASSUME NEW a, NEW b, NEW S, Agree(a, b, S), NEW F, NEW restored
    PROVE  /\ TakesUpFact(a, S, F) = TakesUpFact(b, S, F)
           /\ TakesUpReversal(a, S, restored, F) = TakesUpReversal(b, S, restored, F)
<1>1. OpenIn(a, S) = OpenIn(b, S)
  BY SameOpen
<1>2. {o \in S : (\A p \in S : p <= o) /\ a[o].cycle \notin F}
          = {o \in S : (\A p \in S : p <= o) /\ b[o].cycle \notin F}
  BY DEF Agree
<1>3. TakesUpFact(a, S, F) = TakesUpFact(b, S, F)
  BY <1>1, <1>2 DEF TakesUpFact
<1>4. PICK writable : writable = {o \in S : a[o].cycle \notin F}
  OBVIOUS
<1>5. writable = {o \in S : b[o].cycle \notin F} /\ writable \subseteq S
  BY <1>4 DEF Agree
<1>6. OpenIn(a, writable) = OpenIn(b, writable)
  BY <1>5, SameOpen
<1>7. TakesUpReversal(a, S, restored, F) = TakesUpReversal(b, S, restored, F)
  BY <1>4, <1>5, <1>6 DEF TakesUpReversal
<1> QED
  BY <1>3, <1>7

LEMMA SameRewritten ==
    ASSUME NEW a, NEW b, NEW S, Agree(a, b, S), NEW reused, NEW touched, NEW due,
           NEW free, NEW k
    PROVE  Rewritten(a, S, reused, touched, due, free, k)
               = Rewritten(b, S, reused, touched, due, free, k)
<1>1. PICK T : T = OpenIn(a, S) \cup reused \cup touched
                       \cup (IF reused = {} THEN free ELSE {})
  OBVIOUS
<1>2. OpenIn(a, S) = OpenIn(b, S)
  BY SameOpen
<1>3. \A o \in S : Owing(a[o], IF o \in reused THEN due ELSE 0)
                       = Owing(b[o], IF o \in reused THEN due ELSE 0)
  BY DEF Agree
<1>4. [o \in T |-> IF o \notin S THEN NewRow(k, due)
                   ELSE Owing(a[o], IF o \in reused THEN due ELSE 0)]
          = [o \in T |-> IF o \notin S THEN NewRow(k, due)
                         ELSE Owing(b[o], IF o \in reused THEN due ELSE 0)]
  BY <1>3
<1> QED
  BY <1>1, <1>2, <1>4 DEF Rewritten

LEMMA SamePlan ==
    ASSUME NEW d, NEW c, NEW a, NEW b, NEW F, NEW f, Agree(a, b, RowsOf(d, f))
    PROVE  PlanOf(d, c, a, F, f) = PlanOf(d, c, b, F, f)
<1>1. PICK S, restored, due :
          /\ S = RowsOf(d, f)
          /\ restored = Named(d, c) \cap S
          /\ due = Total(a, S) + Cardinality(restored)
  OBVIOUS
<1>2. due = Total(b, S) + Cardinality(restored)
  BY <1>1, SameTotal
<1>3. TakesUpReversal(a, S, restored, F) = TakesUpReversal(b, S, restored, F)
  BY <1>1, SameTakesUp
<1>4. {o \in restored : a[o].cycle \notin F} = {o \in restored : b[o].cycle \notin F}
  BY <1>1 DEF Agree
<1>5. PICK reused, touched : /\ reused = TakesUpReversal(a, S, restored, F)
                             /\ touched = {o \in restored : a[o].cycle \notin F}
  OBVIOUS
<1>6. /\ PlanOf(d, c, a, F, f)
             = Rewritten(a, S, reused, touched, due, Free(d, f), c.cycle)
      /\ PlanOf(d, c, b, F, f)
             = Rewritten(b, S, reused, touched, due, Free(d, f), c.cycle)
  BY <1>1, <1>2, <1>3, <1>4, <1>5 DEF PlanOf
<1>7. Rewritten(a, S, reused, touched, due, Free(d, f), c.cycle)
          = Rewritten(b, S, reused, touched, due, Free(d, f), c.cycle)
  BY <1>1, SameRewritten
<1> QED
  BY <1>6, <1>7

LEMMA SameReversal ==
    ASSUME NEW d, NEW c, NEW a, NEW b, NEW F,
           \A f \in OriginsOf(d, c) : Agree(a, b, RowsOf(d, f))
    PROVE  ReverseRows(d, c, a, F) = ReverseRows(d, c, b, F)
<1>1. [f \in OriginsOf(d, c) |-> PlanOf(d, c, a, F, f)]
          = [f \in OriginsOf(d, c) |-> PlanOf(d, c, b, F, f)]
  BY SamePlan
<1>2. PICK plans : plans = [f \in OriginsOf(d, c) |-> PlanOf(d, c, a, F, f)]
  OBVIOUS
<1>3. ReverseRows(d, c, a, F)
          = [o \in UNION {DOMAIN plans[f] : f \in DOMAIN plans} |->
                 plans[OriginOf[o]][o]]
  BY <1>2 DEF ReverseRows, PlanOf
<1>4. plans = [f \in OriginsOf(d, c) |-> PlanOf(d, c, b, F, f)]
  BY <1>1, <1>2
<1>5. ReverseRows(d, c, b, F)
          = [o \in UNION {DOMAIN plans[f] : f \in DOMAIN plans} |->
                 plans[OriginOf[o]][o]]
  BY <1>4 DEF ReverseRows, PlanOf
<1> QED
  BY <1>3, <1>5

\* What a request has read is what is there when it commits.
LEMMA ReadIsThere ==
    ASSUME NEW d, NEW L, NEW r, NEW q, NEW c, Committing(d, L, r, q, c)
    PROVE  /\ DOMAIN q.seen = ReadBy(d, c)
           /\ Agree(q.seen, d.obligations, ReadBy(d, c))
<1>1. DOMAIN q.seen = ReadBy(d, c)
  BY DEF Committing, PreparedOK, InOriginsOK, Rows, ReadBy
<1>2. \A o \in DOMAIN q.seen : q.seen[o] = d.obligations[o]
  BY DEF Committing, CheckedOK
<1> QED
  BY <1>1, <1>2 DEF Agree

\* A reconciliation is planned with the cycles that were finalized when it had its
\* origin; the one that takes up the difference is not finalized since.
LEMMA ReconciledNow ==
    ASSUME NEW d, NEW L, NEW r, NEW q, NEW c, Committing(d, L, r, q, c),
           c.kind = "RECONCILE"
    PROVE  WrittenBy(d, q) = Written(d, c, d.obligations, Finalized(d))
<1>1. PICK S : S = RowsOf(d, c.origin)
  OBVIOUS
<1>2. S = ReadBy(d, c) /\ Agree(q.seen, d.obligations, S) /\ S \subseteq Obligations
  <2>1. OriginsOf(d, c) = {c.origin}
    BY DEF OriginsOf
  <2>2. ReadBy(d, c) = S
    BY <1>1, <2>1 DEF ReadBy
  <2>3. S \subseteq Obligations
    BY <1>1 DEF RowsOf
  <2> QED
    BY <2>2, <2>3, ReadIsThere
<1>3. PICK reused : reused = TakesUpFact(q.seen, S, FinalizedThen(q))
  OBVIOUS
<1>4. PICK due : due = Total(q.seen, S) + 1
  OBVIOUS
<1>5. WrittenBy(d, q)
          = Rewritten(q.seen, S, reused, {}, due, Free(d, c.origin), c.cycle)
  BY <1>1, <1>3, <1>4 DEF Committing, WrittenBy, Written, ReconcileRows, Resolves
<1>6. due = Total(d.obligations, S) + 1
  BY <1>2, <1>4, SameTotal
<1>7. reused = TakesUpFact(d.obligations, S, FinalizedThen(q))
  BY <1>2, <1>3, SameTakesUp
<1>8. FinalizedThen(q) \subseteq Finalized(d)
  BY DEF Committing, InOriginsOK, StatesOK, FinalizedThen, Acts
<1>9. \A o \in reused : d.obligations[o].cycle \notin Finalized(d)
  <2>1. PICK w : w = WrittenBy(d, q)
    OBVIOUS
  <2>2. reused \subseteq DOMAIN w
    BY <1>5, <2>1 DEF Rewritten
  <2> QED
    BY <2>1, <2>2, NotFinalized
<1>10. reused = TakesUpFact(d.obligations, S, Finalized(d))
  <2>1. CASE OpenIn(d.obligations, S) # {}
    BY <1>7, <2>1 DEF TakesUpFact
  <2>2. CASE OpenIn(d.obligations, S) = {}
    <3>1. reused = {o \in S : /\ \A p \in S : p <= o
                              /\ d.obligations[o].cycle \notin FinalizedThen(q)}
      BY <1>7, <2>2 DEF TakesUpFact
    <3>2. reused = {o \in S : /\ \A p \in S : p <= o
                              /\ d.obligations[o].cycle \notin Finalized(d)}
      BY <1>8, <1>9, <3>1
    <3> QED
      BY <2>2, <3>2 DEF TakesUpFact
  <2> QED
    BY <2>1, <2>2
<1>11. Written(d, c, d.obligations, Finalized(d))
           = Rewritten(d.obligations, S, reused, {}, due, Free(d, c.origin), c.cycle)
  BY <1>1, <1>6, <1>10 DEF Written, ReconcileRows, Resolves
<1>12. Rewritten(q.seen, S, reused, {}, due, Free(d, c.origin), c.cycle)
           = Rewritten(d.obligations, S, reused, {}, due, Free(d, c.origin), c.cycle)
  BY <1>2, SameRewritten
<1> QED
  BY <1>5, <1>11, <1>12

LEMMA WritesOfNow ==
    ASSUME NEW d, NEW L, NEW r, NEW q, NEW c, Committing(d, L, r, q, c)
    PROVE  WrittenBy(d, q) = Written(d, c, d.obligations, Finalized(d))
<1>1. c = q.command /\ c.kind \in Kinds
  BY CommandOK DEF Committing
<1>2. Agree(q.seen, d.obligations, ReadBy(d, c))
  BY ReadIsThere
<1>3. CASE Resolves(c.kind)
  <2>1. ReadBy(d, c) = Named(d, c)
    BY <1>3 DEF ReadBy, Resolves
  <2>2. [o \in Named(d, c) |-> Resolved(q.seen[o])]
            = [o \in Named(d, c) |-> Resolved(d.obligations[o])]
    BY <1>2, <2>1 DEF Agree
  <2> QED
    BY <1>1, <1>3, <2>2 DEF WrittenBy, Written, Resolves
<1>4. CASE c.kind = "MOVE"
  <2>1. ReadBy(d, c) = Named(d, c)
    BY <1>4 DEF ReadBy
  <2>2. [o \in Named(d, c) |-> InCycle(q.seen[o], c.cycle)]
            = [o \in Named(d, c) |-> InCycle(d.obligations[o], c.cycle)]
    BY <1>2, <2>1 DEF Agree
  <2> QED
    BY <1>1, <1>4, <2>2 DEF WrittenBy, Written, Resolves
<1>5. CASE c.kind = "RECONCILE"
  BY <1>5, ReconciledNow
<1>6. CASE c.kind = "REVERSE"
  <2>1. \A f \in OriginsOf(d, c) : RowsOf(d, f) \subseteq ReadBy(d, c)
    BY <1>6 DEF ReadBy
  <2>2. \A f \in OriginsOf(d, c) : Agree(q.seen, d.obligations, RowsOf(d, f))
    BY <1>2, <2>1 DEF Agree
  <2>3. ReverseRows(d, c, q.seen, Finalized(d))
            = ReverseRows(d, c, d.obligations, Finalized(d))
    BY <2>2, SameReversal
  <2> QED
    BY <1>1, <1>6, <2>3 DEF WrittenBy, Written, Resolves
<1>7. CASE ~ Acts(c.kind)
  BY <1>1, <1>7 DEF WrittenBy, Written, Resolves, Acts
<1> QED
  BY <1>1, <1>3, <1>4, <1>5, <1>6, <1>7 DEF Kinds, Acts, Resolves

\* The cycles a reversal has read are as they are, so that it corrects what it would
\* correct now.
LEMMA ReversesNow ==
    ASSUME NEW d, NEW L, NEW r, NEW q, NEW c, Committing(d, L, r, q, c),
           c.kind = "REVERSE"
    PROVE  CanReverse(d, c)
<1>1. /\ \A k \in q.cycles : q.states[k] = d.cycles[k]
      /\ c.cycle # NoCycle => IsOpenCycle(d, c.cycle)
  BY DEF Committing, InCyclesOK, RefusedAtCycles
<1>2. /\ RowsOK(d) /\ Asked(d, c, q.expects)
      /\ Original(d, c).command.kind \in {"TRANSFER", "OFFSET"}
  BY DEF Committing, Asked
<1>3. /\ StatesOK(d, q) /\ q.cycles \subseteq Cycles
      /\ q.cycles = CyclesToLock(d, c, q.seen, FinalizedThen(q))
      /\ ~ IsReversed(d, c.original)
      /\ (\E o \in Named(d, c) :
             \/ Original(d, c).parts[o].cycle \in FinalizedThen(q)
             \/ q.seen[o].cycle \in FinalizedThen(q)) <=> (c.cycle # NoCycle)
  BY DEF Committing, InOriginsOK, Acts
<1>4. \A k \in q.cycles : k \in FinalizedThen(q) <=> k \in Finalized(d)
  BY <1>1, <1>3 DEF StatesOK, FinalizedThen, Finalized
<1>5. FinalizedThen(q) \subseteq q.cycles /\ NoCycle \notin Finalized(d)
  BY <1>3, IdsAssumption DEF StatesOK, FinalizedThen, Finalized
<1>6. ASSUME NEW o \in Named(d, c)
      PROVE  /\ Original(d, c).parts[o].cycle \in FinalizedThen(q)
                    <=> Original(d, c).parts[o].cycle \in Finalized(d)
             /\ q.seen[o].cycle \in FinalizedThen(q)
                    <=> d.obligations[o].cycle \in Finalized(d)
  <2>1. o \in DOMAIN Original(d, c).parts /\ o \in ReadBy(d, c)
    BY <1>2, OriginalOK
  <2>2. \/ Original(d, c).parts[o].cycle = NoCycle
        \/ Original(d, c).parts[o].cycle \in q.cycles
    BY <1>3, <2>1 DEF CyclesToLock, CyclesOf
  <2>3. o \in DOMAIN q.seen /\ q.seen[o] = d.obligations[o]
    BY <2>1, ReadIsThere DEF Agree
  <2>4. q.seen[o].cycle = NoCycle \/ q.seen[o].cycle \in q.cycles
    BY <1>3, <2>3 DEF CyclesToLock, CyclesOf
  <2>5. NoCycle \notin q.cycles
    BY <1>3, IdsAssumption
  <2> QED
    BY <1>4, <1>5, <2>2, <2>3, <2>4, <2>5
<1>7. NeedsCorrection(d, c, d.obligations) <=> (c.cycle # NoCycle)
  BY <1>3, <1>6 DEF NeedsCorrection
<1> QED
  BY <1>1, <1>2, <1>3, <1>7 DEF CanReverse

LEMMA IsAllowed ==
    ASSUME NEW d, NEW L, NEW r, NEW q, NEW c, Committing(d, L, r, q, c),
           NEW w, w = WrittenBy(d, q)
    PROVE  Allowed(d, c, w)
<1>1. c.kind = "FINALIZE" => CanFinalize(d, c)
  BY DEF Committing, InCyclesOK, RefusedAtCycles
<1>2. c.kind = "REVERSE" => CanReverse(d, c)
  BY ReversesNow
<1>3. Resolves(c.kind) \/ c.kind = "MOVE" =>
          \A o \in Named(d, c) : IsOpen(d.obligations[o])
  BY DEF Committing, CheckedOK
<1>4. \A o \in DOMAIN w : {d.obligations[o].cycle, w[o].cycle} \cap Finalized(d) = {}
  BY NotFinalized
<1> QED
  BY <1>1, <1>2, <1>3, <1>4 DEF Allowed

LEMMA CommitExecutes ==
    ASSUME Inv, NEW r \in Requests, Commit(r)
    PROVE  CommandsNext
<1>1. PICK d, q, c, w : /\ d = db /\ q = request[r] /\ c = q.command
                        /\ w = WrittenBy(d, q)
  OBVIOUS
<1>2. Committing(d, locks, r, q, c)
  BY <1>1, MayCommit DEF Commit
<1>3. /\ w = Written(d, c, d.obligations, Finalized(d))
      /\ Allowed(d, c, w)
      /\ q.expects = Seen(d, c)
  BY <1>1, <1>2, WritesOfNow, IsAllowed, SeenIsExpected
<1>4. d.receipts[c.key] = NoReceipt /\ c \in Commands
  BY <1>2 DEF Committing
<1>5. db' = Committed(d, c, q.expects, w)
  BY <1>1 DEF Commit
<1>6. Execute(c)
  BY <1>1, <1>3, <1>4, <1>5 DEF Execute
<1> QED
  BY <1>4, <1>6 DEF CommandsNext

-----------------------------------------------------------------------------
(***************************************************************************)
(* The invariant holds.                                                    *)
(***************************************************************************)
LEMMA InitInv ==
    ASSUME Init
    PROVE  Inv
<1>1. PICK owed \in Debts, opened \in Opened :
          db = [space       |-> 1,
                owed        |-> owed,
                commitments |-> [f \in Origins |-> 1],
                obligations |-> [o \in Obligations |->
                    IF o = FirstOf(OriginOf[o])
                    THEN [version |-> 1, cycle |-> Min(Cycles),
                          remaining |-> owed[OriginOf[o]]]
                    ELSE Absent],
                cycles      |-> [c \in Cycles |->
                    IF c \in opened THEN [status |-> "OPEN", version |-> 1]
                                    ELSE [status |-> "ABSENT", version |-> 0]],
                receipts    |-> [k \in Keys |-> NoReceipt]]
  BY DEF Init, CommandsInit
<1>2. /\ db = [space |-> db.space, owed |-> db.owed, commitments |-> db.commitments,
               obligations |-> db.obligations, cycles |-> db.cycles,
               receipts |-> db.receipts]
      /\ db.receipts = [k \in Keys |-> NoReceipt]
      /\ db.obligations = [o \in Obligations |->
             IF o = FirstOf(OriginOf[o])
             THEN [version |-> 1, cycle |-> Min(Cycles),
                   remaining |-> owed[OriginOf[o]]]
             ELSE Absent]
      /\ db.cycles = [c \in Cycles |->
             IF c \in opened THEN [status |-> "OPEN", version |-> 1]
                             ELSE [status |-> "ABSENT", version |-> 0]]
  BY <1>1
<1>3. PICK first : /\ first = Min(Cycles) /\ first \in opened
                   /\ opened \subseteq Cycles
  BY IdsAssumption
<1>4. HasCycle(db, first) /\ first \in Cycles
  <2>1. first # NoCycle /\ first \in Cycles
    BY <1>3, IdsAssumption
  <2>2. db.cycles[first] = [status |-> "OPEN", version |-> 1]
    BY <1>2, <1>3, <2>1
  <2> QED
    BY <2>1, <2>2 DEF HasCycle
<1>5. ASSUME NEW o \in Obligations
      PROVE  RowOK(db, db.obligations[o])
  <2>1. PICK due : due = owed[OriginOf[o]]
    OBVIOUS
  <2>2. CASE db.obligations[o] = [version |-> 1, cycle |-> first, remaining |-> due]
    BY <1>4, <2>2 DEF RowOK, Exists
  <2>3. CASE db.obligations[o] = Absent
    BY <2>3 DEF RowOK, Absent, Exists
  <2> QED
    BY <1>2, <1>3, <2>1, <2>2, <2>3
<1>6. \A k \in Cycles : db.cycles[k].status \in {"OPEN", "ABSENT"}
  BY <1>2
<1>7. RowsOK(db)
  <2>1. \A k \in Keys : ReceiptOK(db, k)
    BY <1>2 DEF ReceiptOK
  <2>2. Finalized(db) = {}
    BY <1>6 DEF Finalized
  <2> QED
    BY <1>2, <1>5, <1>6, <2>1, <2>2 DEF RowsOK
<1>8. \A r \in Requests : RequestOK(db, locks, r, request[r])
  <2> TAKE r \in Requests
  <2>1. request[r] = Nobody
    BY DEF Init
  <2>2. IsRequest(Nobody) /\ Nobody.stage = "IDLE"
    BY DEF Nobody, IsRequest, Stages
  <2> QED
    BY <2>1, <2>2 DEF RequestOK, InSpace, Prepared, InOrigins, Ready, InCycles,
                      Checked
<1> QED
  BY <1>7, <1>8, MaxLostAssumption DEF Init, Inv

LEMMA NextInv ==
    ASSUME Inv, [Next]_vars
    PROVE  Inv'
<1>1. CASE UNCHANGED vars
  BY <1>1 DEF vars, Inv, RowsOK, RowOK, ReceiptOK, LockOK, RequestOK
<1>2. CASE Next
  <2>1. PICK r \in Requests : Statement(r) \/ Client(r)
    BY <1>2 DEF Next
  <2>2. CASE Commit(r)
    BY <2>2, InvCommit
  <2>3. CASE ~ Commit(r)
    BY <2>1, <2>3, StepMoves, InvMoves
  <2> QED
    BY <2>2, <2>3
<1> QED
  BY <1>1, <1>2

\* A request that ends, or goes on, has the answer or the stage it is given.
LEMMA RequestAfter ==
    ASSUME Inv, NEW r \in Requests
    PROVE  /\ \A answer : Answer(r, answer) => request'[r].answer = answer
           /\ \A stage : Goes(r, stage) => request'[r].stage = stage
           /\ \A stage, answer : Ended(r, stage, answer) => request'[r].stage = stage
<1>1. DOMAIN request = Requests
  BY DEF Inv
<1>2. ASSUME NEW stage, NEW answer, Ended(r, stage, answer)
      PROVE  request'[r].stage = stage /\ request'[r].answer = answer
  <2>1. PICK row : row = [Nobody EXCEPT !.stage   = stage,
                                        !.command = request[r].command,
                                        !.expects = request[r].expects,
                                        !.answer  = answer]
    OBVIOUS
  <2>2. row.stage = stage /\ row.answer = answer
    BY <2>1 DEF Nobody
  <2>3. request' = [request EXCEPT ![r] = row]
    BY <1>2, <2>1 DEF Ended
  <2> QED
    BY <1>1, <2>2, <2>3
<1>3. ASSUME NEW stage, Goes(r, stage)
      PROVE  request'[r].stage = stage
  <2>1. PICK row : row = [request[r] EXCEPT !.stage = stage]
    OBVIOUS
  <2>2. request[r] = [stage   |-> request[r].stage, command |-> request[r].command,
                      expects |-> request[r].expects, seen |-> request[r].seen,
                      origins |-> request[r].origins, cycles |-> request[r].cycles,
                      states  |-> request[r].states, answer |-> request[r].answer]
    BY WasAsked DEF IsRequest
  <2>3. row.stage = stage
    BY <2>1, <2>2
  <2>4. request' = [request EXCEPT ![r] = row]
    BY <1>3, <2>1 DEF Goes
  <2> QED
    BY <1>1, <2>3, <2>4
<1> QED
  BY <1>2, <1>3 DEF Answer

\* A transfer is refused at its cycles when one of them has been finalized.
LEMMA TransferRefused ==
    ASSUME Inv, NEW r \in Requests, NEW q, NEW c, q = request[r], c = q.command,
           q.stage = "CYCLES", c.kind = "TRANSFER", RefusedAtCycles(db, q, c)
    PROVE  CyclesOf(q.seen) \cap Finalized(db) # {}
<1>1. InOriginsOK(db, locks, r, q, c)
  BY WasAsked DEF RequestOK, InOrigins
<1>2. /\ q.cycles \subseteq Cycles /\ StatesOK(db, q)
      /\ q.cycles = CyclesToLock(db, c, q.seen, FinalizedThen(q))
      /\ \A k \in CyclesOf(q.seen) : q.states[k].status # "ABSENT"
  BY <1>1 DEF InOriginsOK, Acts
<1>3. q.cycles = CyclesOf(q.seen)
  BY <1>2 DEF CyclesToLock
<1>4. PICK k \in q.cycles : ~ IsOpenCycle(db, k)
  BY DEF RefusedAtCycles
<1>5. HasCycle(db, k)
  BY <1>2, <1>3 DEF StatesOK
<1>6. db.cycles[k].status \in {"ABSENT", "OPEN", "FINALIZED"}
  BY <1>2 DEF Inv, RowsOK
<1>7. k \in Finalized(db)
  BY <1>2, <1>4, <1>5, <1>6 DEF HasCycle, IsOpenCycle, Finalized
<1> QED
  BY <1>3, <1>7

\* What a request may answer when its twin has been committed.
Told(r) ==
    \/ request'[r].answer = "REPLAYED"
    \/ /\ request'[r].answer = "REFUSED"
       /\ \/ db.space # request[r].expects.space
          \/ /\ Kind(r) = "TRANSFER"
             /\ CyclesOf(request[r].seen) \cap Finalized(db) # {}

LEMMA TwinIsTold ==
    ASSUME Inv, NEW r \in Requests, Statement(r), request'[r].stage = "ANSWERED",
           HasReceipt(r), SameInput(db.receipts[request[r].command.key], r)
    PROVE  Told(r)
<1>1. PICK q, c : q = request[r] /\ c = q.command
  OBVIOUS
<1>2. AnswerWithReceipt(r) => Told(r)
  BY RequestAfter DEF AnswerWithReceipt, Told
<1>3. db.receipts[c.key].command = c
  BY <1>1 DEF SameInput
<1>4. RequestOK(db, locks, r, q) /\ RowsOK(db)
  BY <1>1 DEF Inv
<1>5. q.stage # "IDLE" => Asked(db, c, q.expects) /\ c.kind \in Kinds
  BY <1>1, WasAsked, CommandOK
\* With its origins a request has looked again, but for a transfer.
<1>6. q.stage \in InOrigins => c.kind = "TRANSFER" \/ ~ Acts(c.kind)
  BY <1>1, <1>3, <1>4 DEF RequestOK, InOriginsOK
<1>7. CASE Read(r)
  BY <1>2, <1>7, RequestAfter DEF Read
<1>8. CASE LockSpace(r)
  <2>1. CASE Answer(r, "REFUSED") /\ db.space # request[r].expects.space
    BY <2>1, RequestAfter DEF Told
  <2> QED
    BY <1>2, <1>8, <2>1, RequestAfter DEF LockSpace
<1>9. CASE Discover(r)
  <2>1. PICK row : /\ row = [q EXCEPT
                         !.stage   = IF c.kind \in {"FINALIZE", "START_CLOSURE"}
                                     THEN "CYCLES" ELSE "ORIGINS",
                         !.seen    = IF c.kind = "RECONCILE" THEN NoRows ELSE Rows(db, c),
                         !.origins = OriginsOf(db, c),
                         !.cycles  = IF c.kind = "FINALIZE" THEN {c.cycle} ELSE {}]
                   /\ request' = [request EXCEPT ![r] = row]
    BY <1>1, <1>9 DEF Discover
  <2>2. q = [stage |-> q.stage, command |-> q.command, expects |-> q.expects,
             seen |-> q.seen, origins |-> q.origins, cycles |-> q.cycles,
             states |-> q.states, answer |-> q.answer]
    BY <1>4 DEF RequestOK, IsRequest
  <2>3. row.stage \in {"CYCLES", "ORIGINS"}
    BY <2>1, <2>2
  <2>4. request'[r] = row
    BY <2>1 DEF Inv
  <2> QED
    BY <2>3, <2>4
<1>10. CASE LockOrigin(r)
  BY <1>10, RequestAfter DEF LockOrigin
<1>11. CASE LookAgain(r)
  <2>1. CASE LooksAgain(r)
    BY <1>2, <1>11, <2>1 DEF LookAgain
  <2>2. CASE ~ LooksAgain(r)
    <3>1. c.kind = "TRANSFER"
      BY <1>1, <2>2 DEF LooksAgain, Kind
    <3>2. \A rows : ~ RefusedAtOrigins(db, q, c, rows)
      BY <3>1 DEF RefusedAtOrigins
    <3>3. PICK rows : rows = (IF c.kind \in {"REVERSE", "RECONCILE"}
                              THEN Rows(db, c) ELSE q.seen)
      OBVIOUS
    <3>4. PICK into : into = WritesInto(db, c, rows)
      OBVIOUS
    <3>5. PICK cycles : cycles = into \cup CyclesOf(rows)
                            \cup (IF c.kind = "REVERSE"
                                  THEN CyclesOf(Original(db, c).parts) ELSE {})
      OBVIOUS
    <3>6. PICK states : states = [k \in cycles |-> db.cycles[k]]
      OBVIOUS
    <3>7. PICK s : s = (IF \A k \in into : HasCycle(db, k) THEN "CYCLES"
                                                           ELSE "CREATE")
      OBVIOUS
    <3>8. PICK row : row = [request[r] EXCEPT !.stage = s, !.seen = rows,
                                              !.cycles = cycles, !.states = states]
      OBVIOUS
    <3>9. ~ RefusedAtOrigins(db, q, c, rows)
      BY <3>2
    <3>10. request' = [request EXCEPT ![r] =
               [request[r] EXCEPT !.stage = s, !.seen = rows, !.cycles = cycles,
                                  !.states = states]]
      BY <1>1, <1>11, <2>2, <3>3, <3>4, <3>5, <3>6, <3>7, <3>9 DEF LookAgain, Inv
    <3>11. row.stage = s
      <4>1. q = [stage |-> q.stage, command |-> q.command, expects |-> q.expects,
                 seen |-> q.seen, origins |-> q.origins, cycles |-> q.cycles,
                 states |-> q.states, answer |-> q.answer]
        BY <1>4 DEF RequestOK, IsRequest
      <4> QED
        BY <1>1, <3>8, <4>1
    <3>12. request'[r] = row
      BY <3>8, <3>10 DEF Inv
    <3> QED
      BY <3>7, <3>11, <3>12
  <2> QED
    BY <2>1, <2>2
<1>12. CASE CreateCycle(r)
  <2>1. c.kind \in {"MOVE", "RECONCILE"} /\ q.stage \in InOrigins
    BY <1>1, <1>4, <1>12 DEF CreateCycle, RequestOK, InOriginsOK, InOrigins
  <2> QED
    BY <1>6, <2>1 DEF Acts
<1>13. CASE LockCycle(r)
  BY <1>13, RequestAfter DEF LockCycle
<1>14. CASE CheckCycles(r)
  <2>1. q.stage = "CYCLES" /\ q.stage \in InOrigins
    BY <1>1, <1>14 DEF CheckCycles, InOrigins
  <2>2. CASE AnswerWithReceipt(r)
    BY <1>2, <2>2
  <2>3. CASE Answer(r, "REFUSED") /\ RefusedAtCycles(db, q, c)
             /\ (c.kind # "FINALIZE" \/ ~ HasReceipt(r))
    <3>1. c.kind # "START_CLOSURE"
      BY <2>3 DEF RefusedAtCycles
    <3>2. c.kind = "TRANSFER"
      BY <1>5, <1>6, <2>1, <2>3, <3>1 DEF Acts
    <3>3. CyclesOf(q.seen) \cap Finalized(db) # {}
      BY <1>1, <2>1, <2>3, <3>2, TransferRefused
    <3> QED
      BY <1>1, <2>3, <3>2, <3>3, RequestAfter DEF Told, Kind
  <2>4. CASE Goes(r, "OBLIGATIONS")
    BY <2>4, RequestAfter
  <2> QED
    BY <1>1, <1>14, <2>2, <2>3, <2>4 DEF CheckCycles
<1>15. CASE LockObligation(r)
  BY <1>15, RequestAfter DEF LockObligation
<1>16. CASE CheckObligations(r)
  <2>1. q.stage = "OBLIGATIONS" /\ q.stage \in InOrigins /\ q.stage \in Prepared
    BY <1>1, <1>16 DEF CheckObligations, InOrigins, Prepared
  <2>2. CASE c.kind = "TRANSFER"
    BY <1>1, <1>2, <1>16, <2>2 DEF CheckObligations
  <2>3. CASE ~ Acts(c.kind)
    <3>1. Named(db, c) = {} /\ DOMAIN q.expects.obligations = {}
      <4>1. Asked(db, c, q.expects) /\ RowsOK(db)
        BY <1>4, <1>5, <2>1
      <4>2. Named(db, c) = {}
        BY <2>3, <4>1, NamedOK
      <4> QED
        BY <2>3, <4>1, <4>2 DEF Asked, AsSeen
    <3>2. DOMAIN q.seen = {}
      BY <1>1, <1>4, <2>1, <2>3, <3>1 DEF RequestOK, PreparedOK, Acts
    <3>3. ~ Moved(db, q) /\ ~ OutOfDate(db, q, c)
      BY <2>3, <3>1, <3>2 DEF Moved, OutOfDate, Acts
    <3>4. PICK row, seen : /\ row = [q EXCEPT !.stage = "SAVE", !.seen = seen]
                           /\ request' = [request EXCEPT ![r] = row]
      BY <1>1, <1>16, <2>3, <3>3 DEF CheckObligations, Resolves, Acts
    <3>5. q = [stage |-> q.stage, command |-> q.command, expects |-> q.expects,
               seen |-> q.seen, origins |-> q.origins, cycles |-> q.cycles,
               states |-> q.states, answer |-> q.answer]
      BY <1>4 DEF RequestOK, IsRequest
    <3>6. row.stage = "SAVE"
      BY <3>4, <3>5
    <3>7. request'[r] = row
      BY <3>4 DEF Inv
    <3> QED
      BY <3>6, <3>7
  <2> QED
    BY <1>6, <2>1, <2>2, <2>3
<1>17. CASE SaveReceipt(r)
  BY <1>17, RequestAfter DEF SaveReceipt
<1>18. CASE Commit(r)
  <2>1. db.receipts[c.key] = NoReceipt
    BY <1>1, <1>18, MayCommit DEF Commit, Committing
  <2> QED
    BY <1>1, <2>1 DEF HasReceipt
<1>19. CASE Recover(r)
  BY <1>2, <1>19 DEF Recover, AnswerRace
<1> QED
  BY <1>7, <1>8, <1>9, <1>10, <1>11, <1>12, <1>13, <1>14, <1>15, <1>16, <1>17, <1>18,
     <1>19 DEF Statement

LEMMA TwinStep ==
    ASSUME Inv, [Next]_vars, NEW r \in Requests,
           request[r].stage # "ANSWERED", request'[r].stage = "ANSWERED",
           HasReceipt(r), SameInput(db.receipts[request[r].command.key], r)
    PROVE  Told(r)
<1>1. PICK p \in Requests : Statement(p) \/ Client(p)
  BY DEF Next, vars
<1>2. DOMAIN request = Requests
  BY DEF Inv
<1>3. CASE Statement(r)
  BY <1>3, TwinIsTold
<1>4. ASSUME ~ Statement(r), Client(p)
      PROVE  FALSE
  <2>1. \A c, e : Begun(c, e).stage = "READ"
    BY DEF Begun, Nobody
  <2>2. ASSUME NEW c, NEW e, request' = [request EXCEPT ![p] = Begun(c, e)]
        PROVE  FALSE
    BY <1>2, <2>1, <2>2
  <2>3. CASE Lose(p)
    <3>1. request'[p].stage = "LOST"
      BY <2>3, RequestAfter DEF Lose
    <3>2. \A s \in Requests \ {p} : request'[s] = request[s]
      BY <1>2, <2>3 DEF Lose, Ended
    <3> QED
      BY <3>1, <3>2
  <2>4. CASE Retry(p)
    <3>1. request' = [request EXCEPT ![p] =
                          Begun(request[p].command, request[p].expects)]
      BY <2>4 DEF Retry, Inv
    <3> QED
      BY <2>2, <3>1
  <2> QED
    BY <1>4, <2>2, <2>3, <2>4 DEF Client, Ask, AskAgain
<1>5. ASSUME p # r, Statement(p)
      PROVE  FALSE
  <2>1. request'[r] = request[r]
    <3>1. CASE Commit(p)
      BY <1>2, <1>5, <3>1 DEF Commit, Ended
    <3>2. CASE ~ Commit(p)
      <4>1. PICK row : Moves(p, row)
        BY <1>5, <3>2, StepMoves
      <4> QED
        BY <1>2, <1>5, <4>1 DEF Moves
    <3> QED
      BY <3>1, <3>2
  <2> QED
    BY <2>1
<1> QED
  BY <1>1, <1>3, <1>4, <1>5

-----------------------------------------------------------------------------
(***************************************************************************)
(* What remains to be paid of an origin, from one command to the next.     *)
(***************************************************************************)
Owed(d, f)     == Total(d.obligations, RowsOf(d, f))
Balanced(d, f) == Owed(d, f) = d.owed[f] + Cardinality(Reconciled(d, f)) - Settled(d, f)

\* The rows of an origin are as many as the commands have written, each owes a number,
\* and what a reversal restores is a transfer or an offset.
MoneyOK(d) ==
    /\ \A f \in Origins : IsFiniteSet(RowsOf(d, f))
    /\ \A o \in Obligations : d.obligations[o].remaining \in Nat
    /\ d.owed \in [Origins -> Nat]
    /\ IsFiniteSet({k \in Keys : CommandOf(d, k).kind # "NONE"})
    /\ \A k \in Keys : CommandOf(d, k).kind = "REVERSE" =>
           Original(d, CommandOf(d, k)).command.kind \in {"TRANSFER", "OFFSET"}

\* A command that is carried out.
Executing(d, d2, c, w) ==
    /\ RowsOK(d) /\ MoneyOK(d) /\ c \in Commands
    /\ d.receipts[c.key] = NoReceipt
    /\ w = Written(d, c, d.obligations, Finalized(d))
    /\ Allowed(d, c, w)
    /\ d2 = Committed(d, c, Seen(d, c), w)

\* What it leaves: the rows it has written, the others, and one receipt more.
LEMMA Executed ==
    ASSUME NEW d, NEW d2, NEW c, NEW w, Executing(d, d2, c, w)
    PROVE  /\ \A o \in Obligations :
                  d2.obligations[o] = IF o \in DOMAIN w THEN w[o] ELSE d.obligations[o]
           /\ d2.owed = d.owed
           /\ \A k \in Keys :
                  CommandOf(d2, k) = IF k = c.key THEN c ELSE CommandOf(d, k)
           /\ CommandOf(d, c.key).kind = "NONE"
<1>1. PICK e, parts : d2.receipts = [d.receipts EXCEPT ![c.key] =
                          [command |-> c, expects |-> e, parts |-> parts]]
  <2>1. PICK e, parts : e = Seen(d, c)
                        /\ parts = [o \in Named(d, c) |->
                                        [cycle |-> d.obligations[o].cycle]]
    OBVIOUS
  <2>2. d2.receipts = [d.receipts EXCEPT ![c.key] =
                          [command |-> c, expects |-> e, parts |-> parts]]
    BY <2>1 DEF Executing, Committed
  <2> QED
    BY <2>2
<1>2. DOMAIN d.receipts = Keys
  BY DEF Executing, RowsOK
<1>3. \A k \in Keys : CommandOf(d2, k) = IF k = c.key THEN c ELSE CommandOf(d, k)
  <2> TAKE k \in Keys
  <2>1. CASE k = c.key
    BY <1>1, <1>2, <2>1 DEF CommandOf
  <2>2. CASE k # c.key
    <3>1. d2.receipts[k] = d.receipts[k]
      BY <1>1, <1>2, <2>2
    <3> QED
      BY <2>2, <3>1 DEF CommandOf
  <2> QED
    BY <2>1, <2>2
<1>4. d2.obligations = [o \in Obligations |->
          IF o \in DOMAIN w THEN w[o] ELSE d.obligations[o]]
  BY DEF Executing, Committed
<1>5. d2.owed = d.owed
  BY DEF Executing, Committed
<1>6. CommandOf(d, c.key).kind = "NONE"
  BY DEF Executing, CommandOf, NoReceipt, NoCommand
<1> QED
  BY <1>3, <1>4, <1>5, <1>6

\* The obligations a command names are there.
LEMMA NamedExist ==
    ASSUME NEW d, NEW d2, NEW c, NEW w, Executing(d, d2, c, w)
    PROVE  \A o \in Named(d, c) : o \in Obligations /\ Exists(d.obligations[o])
<1>1. c \in Commands /\ c.kind \in Kinds
  BY CommandOK DEF Executing
<1>2. CASE Resolves(c.kind) \/ c.kind = "MOVE"
  <2>1. Named(d, c) = ToSet(c.targets) /\ ToSet(c.targets) \subseteq Obligations
    BY <1>1, <1>2, CommandOK DEF Named, Resolves
  <2>2. ASSUME NEW o \in Named(d, c)
        PROVE  Exists(d.obligations[o])
    <3>1. IsOpen(d.obligations[o]) /\ RowOK(d, d.obligations[o])
      BY <1>2, <2>1, <2>2 DEF Executing, Allowed, RowsOK
    <3>2. d.obligations[o] # Absent
      BY <3>1 DEF IsOpen, Absent
    <3> QED
      BY <3>1, <3>2 DEF RowOK
  <2> QED
    BY <2>1, <2>2
<1>3. CASE c.kind = "REVERSE"
  <2>1. PICK original : original = c.original /\ original \in Keys
    BY <1>1, <1>3, CommandOK
  <2>2. PICK command : command = d.receipts[original].command
    OBVIOUS
  <2>3. command.kind \in {"TRANSFER", "OFFSET"}
    BY <1>3, <2>1, <2>2 DEF Executing, Allowed, CanReverse, Original
  <2>4. Named(d, c) = ToSet(command.targets)
    BY <1>3, <2>1, <2>2 DEF Named, Original
  <2>5. ReceiptOK(d, original)
    BY <2>1 DEF Executing, RowsOK
  <2>6. d.receipts[original] # NoReceipt
    BY <2>2, <2>3 DEF NoReceipt, NoCommand
  <2>7. /\ command \in Commands
        /\ \A o \in ToSet(command.targets) : Exists(d.obligations[o])
    BY <2>2, <2>3, <2>5, <2>6 DEF ReceiptOK, Resolves
  <2>8. ToSet(command.targets) \subseteq Obligations
    BY <2>3, <2>7, CommandOK
  <2> QED
    BY <2>4, <2>7, <2>8
<1>4. CASE c.kind \in {"RECONCILE", "FINALIZE", "START_CLOSURE"}
  <2>1. Named(d, c) = {}
    BY <1>1, <1>4, CommandOK DEF Named
  <2> QED
    BY <2>1
<1> QED
  BY <1>1, <1>2, <1>3, <1>4 DEF Kinds, Resolves

\* What the rows of an origin owe can be added up.
LEMMA OwedIsNat ==
    ASSUME NEW d, MoneyOK(d), NEW f \in Origins
    PROVE  /\ IsFiniteSet(RowsOf(d, f))
           /\ \A o \in RowsOf(d, f) : d.obligations[o].remaining \in Nat
           /\ Owed(d, f) \in Nat
<1>1. PICK S : S = RowsOf(d, f)
  OBVIOUS
<1>2. PICK g : g = [o \in S |-> d.obligations[o].remaining]
  OBVIOUS
<1>3. IsFiniteSet(S) /\ \A o \in S : d.obligations[o].remaining \in Nat
  BY <1>1 DEF MoneyOK, RowsOf
<1>4. IsFiniteSet(DOMAIN g) /\ \A o \in DOMAIN g : g[o] \in Nat
  BY <1>2, <1>3
<1>5. SumFunction(g) \in Nat
  BY <1>4, TotalIsAtLeast
<1>6. Owed(d, f) = SumFunction(g)
  BY <1>1, <1>2, Zenon DEF Owed, Total
<1> QED
  BY <1>1, <1>3, <1>5, <1>6

\* An origin that keeps its rows, and what each of them owes, owes the same.
LEMMA SameOwed ==
    ASSUME NEW d, MoneyOK(d), NEW d2, NEW f \in Origins,
           \A o \in Obligations : OriginOf[o] = f =>
               /\ Exists(d2.obligations[o]) <=> Exists(d.obligations[o])
               /\ d2.obligations[o].remaining = d.obligations[o].remaining
    PROVE  RowsOf(d2, f) = RowsOf(d, f) /\ Owed(d2, f) = Owed(d, f)
<1>1. RowsOf(d2, f) = RowsOf(d, f)
  BY DEF RowsOf
<1>2. PICK S : S = RowsOf(d, f)
  OBVIOUS
<1>3. [o \in S |-> d2.obligations[o].remaining] = [o \in S |-> d.obligations[o].remaining]
  BY <1>2 DEF RowsOf
<1>4. Total(d2.obligations, S) = Total(d.obligations, S)
  BY <1>3, Zenon DEF Total
<1> QED
  BY <1>1, <1>2, <1>4 DEF Owed

\* The rows of an origin, those that are written and those that are not.
Rewrote(d, d2, f, w) ==
    \A o \in Obligations : OriginOf[o] = f =>
        d2.obligations[o] = IF o \in DOMAIN w THEN w[o] ELSE d.obligations[o]

\* No more than one row.
AtMostOne(S, T) == T = {} \/ \E x \in S : T = {x}

\* There is always one to take up what is due, as long as there is an id for it.
LEMMA Rebalanced ==
    ASSUME NEW d, RowsOK(d), MoneyOK(d), NEW d2, NEW f \in Origins,
           NEW reused, AtMostOne(RowsOf(d, f), reused),
           NEW touched, touched \subseteq RowsOf(d, f), NEW due \in Nat, NEW k,
           NEW w, w = Rewritten(d.obligations, RowsOf(d, f), reused, touched, due,
                                Free(d, f), k),
           Rewrote(d, d2, f, w)
    PROVE  /\ IsFiniteSet(RowsOf(d2, f))
           /\ \A o \in Obligations : OriginOf[o] = f =>
                  d2.obligations[o].remaining \in Nat
           /\ Free(d, f) # {} => Owed(d2, f) = due
<1>1. PICK S, free, rows : S = RowsOf(d, f) /\ free = Free(d, f) /\ rows = d.obligations
  OBVIOUS
<1>2. /\ IsFiniteSet(S) /\ S \subseteq Obligations
      /\ \A o \in S : OriginOf[o] = f /\ IsRow(rows[o]) /\ Exists(rows[o])
      /\ \A o \in Obligations : rows[o].remaining \in Nat
  BY <1>1 DEF MoneyOK, RowsOf, RowsOK, RowOK, IsRow
<1>3. AtMostOne(S, reused) /\ reused \subseteq S /\ touched \subseteq S
  BY <1>1 DEF AtMostOne
<1>4. w = Rewritten(rows, S, reused, touched, due, free, k)
  BY <1>1
<1>5. /\ DOMAIN w = OpenIn(rows, S) \cup reused \cup touched
                        \cup (IF reused = {} THEN free ELSE {})
      /\ \A o \in DOMAIN w : Exists(w[o])
  <2>1. WritesRows(rows, S, reused, touched, free, k, w)
    BY <1>2, <1>3, <1>4, RewrittenOK
  <2> QED
    BY <2>1 DEF WritesRows
<1>6. \A o \in free : o \in Obligations /\ OriginOf[o] = f /\ o \notin S
  BY <1>1, FreeOK DEF RowsOf
<1>7. AtMostOne(free, free)
  BY <1>1 DEF Free, AtMostOne
<1>8. PICK new : new = (IF reused = {} THEN free ELSE {})
  OBVIOUS
<1>9. ASSUME NEW o \in DOMAIN w
      PROVE  w[o].remaining = IF o \in reused \/ o \notin S THEN due ELSE 0
  <2>1. CASE o \notin S
    <3>1. w[o] = NewRow(k, due)
      BY <1>4, <1>9, <2>1 DEF Rewritten
    <3> QED
      BY <2>1, <3>1 DEF NewRow
  <2>2. CASE o \in S
    <3>1. PICK owes : owes = IF o \in reused THEN due ELSE 0
      OBVIOUS
    <3>2. w[o] = Owing(rows[o], owes)
      BY <1>4, <1>9, <2>2, <3>1 DEF Rewritten
    <3>3. PICK row : row = rows[o] /\ IsRow(row)
      BY <1>2, <2>2
    <3>4. Owing(row, owes).remaining = owes
      <4>1. PICK v, j, m : row = [version |-> v, cycle |-> j, remaining |-> m]
        BY <3>3 DEF IsRow
      <4> QED
        BY <4>1 DEF Owing
    <3> QED
      BY <2>2, <3>1, <3>2, <3>3, <3>4
  <2> QED
    BY <2>1, <2>2
<1>10. ASSUME NEW o \in S, o \notin DOMAIN w
       PROVE  rows[o].remaining = 0 /\ o \notin reused
  <2>1. ~ (rows[o].remaining > 0)
    BY <1>5, <1>10 DEF OpenIn, IsOpen
  <2> QED
    BY <1>2, <1>5, <1>10, <2>1
<1>11. ASSUME NEW o \in Obligations, OriginOf[o] = f
       PROVE  /\ Exists(d2.obligations[o]) <=> o \in S \cup new
              /\ o \in S \cup new => d2.obligations[o].remaining =
                                         IF o \in reused \/ o \notin S THEN due ELSE 0
              /\ d2.obligations[o].remaining \in Nat
  <2>1. d2.obligations[o] = IF o \in DOMAIN w THEN w[o] ELSE rows[o]
    BY <1>1, <1>11 DEF Rewrote
  <2>2. CASE o \in DOMAIN w
    <3>1. o \in S \cup new
      BY <1>3, <1>5, <1>8, <2>2 DEF OpenIn
    <3> QED
      BY <1>5, <1>9, <2>1, <2>2, <3>1
  <2>3. CASE o \notin DOMAIN w
    <3>1. o \notin new
      BY <1>5, <1>8, <2>3
    <3>2. Exists(rows[o]) <=> o \in S
      BY <1>1, <1>11 DEF RowsOf
    <3> QED
      BY <1>2, <1>10, <2>1, <2>3, <3>1, <3>2
  <2> QED
    BY <2>2, <2>3
<1>12. RowsOf(d2, f) = S \cup new
  BY <1>2, <1>6, <1>8, <1>11 DEF RowsOf
<1>13. IsFiniteSet(S \cup new)
  <2>1. IsFiniteSet({}) /\ \A x : IsFiniteSet({x})
    BY FS_EmptySet, FS_Singleton
  <2>2. new = {} \/ \E x : new = {x}
    BY <1>7, <1>8 DEF AtMostOne
  <2>3. IsFiniteSet(new)
    BY <2>1, <2>2
  <2> QED
    BY <1>2, <2>3, FS_Union
<1>14. ASSUME free # {}
       PROVE  Owed(d2, f) = due
  <2>1. PICK g, T : T = S \cup new /\ g = [o \in T |-> d2.obligations[o].remaining]
    OBVIOUS
  <2>2. Owed(d2, f) = SumFunction(g) /\ DOMAIN g = T
    <3>1. Owed(d2, f) = SumFunction([o \in T |-> d2.obligations[o].remaining])
      BY <1>12, <2>1, Zenon DEF Owed, Total
    <3> QED
      BY <2>1, <3>1
  <2>3. PICK x \in T : \A o \in T : (o \in reused \/ o \notin S) <=> o = x
    <3>1. CASE reused = {}
      <4>1. PICK x : free = {x} /\ new = {x} /\ x \notin S
        BY <1>6, <1>7, <1>8, <1>14, <3>1 DEF AtMostOne
      <4> QED
        BY <2>1, <3>1, <4>1
    <3>2. CASE reused # {}
      <4>1. PICK x \in S : reused = {x} /\ new = {}
        BY <1>3, <1>8, <3>2 DEF AtMostOne
      <4> QED
        BY <2>1, <4>1
    <3> QED
      BY <3>1, <3>2
  <2>4. \A o \in T : g[o] = IF o = x THEN due ELSE 0
    BY <1>2, <1>6, <1>8, <1>11, <2>1, <2>3
  <2>5. SumFunctionOnSet(g, T) = g[x]
    <3>1. g[x] \in Int /\ \A y \in T \ {x} : g[y] = 0
      BY <2>4
    <3>2. IsFiniteSet(T)
      BY <1>13, <2>1
    <3> QED
      BY <3>1, <3>2, SumOfOne
  <2> QED
    BY <2>2, <2>3, <2>4, <2>5 DEF SumFunction
<1> QED
  BY <1>1, <1>11, <1>12, <1>13, <1>14

\* No more than one obligation takes up a difference.
LEMMA TakesUpOne ==
    ASSUME NEW rows, NEW S, S \subseteq Obligations, NEW restored, NEW F
    PROVE  /\ AtMostOne(S, TakesUpFact(rows, S, F))
           /\ AtMostOne(S, TakesUpReversal(rows, S, restored, F))
<1>1. ASSUME NEW T, T \subseteq S
      PROVE  AtMostOne(S, FirstIn(T))
  <2>1. T \in SUBSET Nat
    BY <1>1, IdsAssumption
  <2>2. T # {} => Min(T) \in T
    BY <2>1, MinIsLeast
  <2> QED
    BY <1>1, <2>2 DEF FirstIn, AtMostOne
<1>2. AtMostOne(S, TakesUpFact(rows, S, F))
  <2>1. PICK last : last = {o \in S : /\ \A p \in S : p <= o
                                      /\ rows[o].cycle \notin F}
    OBVIOUS
  <2>2. \A x, y \in last : x = y
    <3>1. \A x, y \in S : x \in Nat /\ y \in Nat
      BY IdsAssumption
    <3>2. \A x, y \in last : x \in S /\ y \in S /\ x <= y /\ y <= x
      BY <2>1
    <3> QED
      BY <3>1, <3>2
  <2>3. AtMostOne(S, last)
    BY <2>1, <2>2 DEF AtMostOne
  <2>4. OpenIn(rows, S) \subseteq S
    BY DEF OpenIn
  <2> QED
    BY <1>1, <2>1, <2>3, <2>4 DEF TakesUpFact
<1>3. AtMostOne(S, TakesUpReversal(rows, S, restored, F))
  <2>1. PICK writable : writable = {o \in S : rows[o].cycle \notin F}
    OBVIOUS
  <2>2. OpenIn(rows, writable) \subseteq S /\ writable \cap restored \subseteq S
    BY <2>1 DEF OpenIn
  <2> QED
    BY <1>1, <2>1, <2>2 DEF TakesUpReversal
<1> QED
  BY <1>2, <1>3

\* What a command makes of what an origin owes, if there is an id for a new obligation.
Change(d, c, f) ==
    IF Resolves(c.kind) THEN - Share(d, c, f)
    ELSE IF c.kind = "RECONCILE" /\ c.origin = f THEN 1
    ELSE IF c.kind = "REVERSE" THEN Share(d, c, f) ELSE 0

OwesAfter(d, d2, c, f) ==
    /\ IsFiniteSet(RowsOf(d2, f))
    /\ \A o \in Obligations : OriginOf[o] = f => d2.obligations[o].remaining \in Nat
    /\ Free(d, f) # {} => Owed(d2, f) = Owed(d, f) + Change(d, c, f)

\* The obligations of an origin that a command names are among its rows.
LEMMA ShareIsNat ==
    ASSUME NEW d, NEW d2, NEW c, NEW w, Executing(d, d2, c, w), NEW f \in Origins
    PROVE  /\ {o \in Named(d, c) : OriginOf[o] = f} = Named(d, c) \cap RowsOf(d, f)
           /\ IsFiniteSet({o \in Named(d, c) : OriginOf[o] = f})
           /\ Share(d, c, f) \in Nat
<1>1. PICK R : R = {o \in Named(d, c) : OriginOf[o] = f}
  OBVIOUS
<1>2. R = Named(d, c) \cap RowsOf(d, f)
  BY <1>1, NamedExist DEF RowsOf
<1>3. IsFiniteSet(R)
  <2>1. IsFiniteSet(RowsOf(d, f)) /\ R \in SUBSET RowsOf(d, f)
    BY <1>2 DEF Executing, MoneyOK
  <2> QED
    BY <2>1, FS_Subset
<1>4. Cardinality(R) \in Nat
  BY <1>3, FS_CardinalityType
<1> QED
  BY <1>1, <1>2, <1>3, <1>4 DEF Share

\* A resolution pays one of every obligation it names.
LEMMA ResolvedOwes ==
    ASSUME NEW d, NEW d2, NEW c, NEW w, Executing(d, d2, c, w), NEW f \in Origins,
           Resolves(c.kind)
    PROVE  OwesAfter(d, d2, c, f)
<1>1. PICK S, R, rows, after :
          /\ S = RowsOf(d, f) /\ R = {o \in Named(d, c) : OriginOf[o] = f}
          /\ rows = d.obligations /\ after = d2.obligations
  OBVIOUS
<1>2. w = [o \in Named(d, c) |-> Resolved(rows[o])]
  BY <1>1 DEF Executing, Written, Resolves
<1>3. /\ IsFiniteSet(S) /\ R \subseteq S /\ S \subseteq Obligations
      /\ \A o \in R : IsOpen(rows[o])
      /\ \A o \in Obligations : rows[o].remaining \in Nat
  <2>1. IsFiniteSet(S) /\ \A o \in Obligations : rows[o].remaining \in Nat
    BY <1>1 DEF Executing, MoneyOK
  <2>2. \A o \in R : IsOpen(rows[o])
    BY <1>1 DEF Executing, Allowed
  <2>3. R \subseteq S /\ S \subseteq Obligations
    BY <1>1, ShareIsNat DEF RowsOf
  <2> QED
    BY <2>1, <2>2, <2>3
<1>4. ASSUME NEW o \in Obligations, OriginOf[o] = f
      PROVE  /\ Exists(after[o]) <=> Exists(rows[o])
             /\ after[o].remaining \in Nat
             /\ rows[o].remaining = after[o].remaining + (IF o \in R THEN 1 ELSE 0)
  <2>1. after[o] = IF o \in R THEN Resolved(rows[o]) ELSE rows[o]
    BY <1>1, <1>2, <1>4, Executed
  <2>2. PICK row : row = rows[o] /\ RowOK(d, row)
    BY <1>1 DEF Executing, RowsOK
  <2>3. PICK v, j, m : /\ row = [version |-> v, cycle |-> j, remaining |-> m]
                       /\ v \in Nat /\ m \in Nat
    <3>1. PICK v, j, m : v = row.version /\ j = row.cycle /\ m = row.remaining
      OBVIOUS
    <3>2. m \in Nat
      BY <1>3, <2>2, <3>1
    <3>3. v \in Nat /\ row = [version |-> v, cycle |-> j, remaining |-> m]
      BY <2>2, <3>1 DEF RowOK
    <3> QED
      BY <3>2, <3>3
  <2>4. CASE o \in R
    <3>1. Exists(row)
      <4>1. \A p \in S : Exists(rows[p])
        BY <1>1 DEF RowsOf
      <4> QED
        BY <1>3, <2>2, <2>4, <4>1
    <3>2. PICK new : new = Resolved(row)
      OBVIOUS
    <3>3. new = [version |-> v + 1, cycle |-> j, remaining |-> m - 1]
      BY <2>3, <3>2 DEF Resolved
    <3>4. row.remaining = m /\ row.version = v
      BY <2>3
    <3>5. row.remaining > 0
      BY <1>3, <2>2, <2>4 DEF IsOpen
    <3>6. new.remaining = m - 1 /\ new.version = v + 1
      BY <3>3
    <3>7. Exists(new) /\ new.remaining \in Nat /\ m = new.remaining + 1
      BY <2>3, <3>4, <3>5, <3>6 DEF Exists
    <3> QED
      BY <2>1, <2>2, <2>4, <3>1, <3>2, <3>4, <3>7
  <2>5. CASE o \notin R
    BY <2>1, <2>2, <2>3, <2>5
  <2> QED
    BY <2>4, <2>5
<1>5. RowsOf(d2, f) = S
  BY <1>1, <1>4 DEF RowsOf
<1>6. PICK g, h, e : /\ g = [o \in S |-> after[o].remaining]
                     /\ h = [o \in S |-> rows[o].remaining]
                     /\ e = [o \in S |-> IF o \in R THEN 1 ELSE 0]
  OBVIOUS
<1>7. \A o \in S : g[o] \in Int /\ e[o] \in Int /\ h[o] = g[o] + e[o]
  <2>1. \A o \in S : o \in Obligations /\ OriginOf[o] = f
    BY <1>1 DEF RowsOf
  <2> QED
    BY <1>4, <1>6, <2>1
<1>8. SumFunctionOnSet(h, S) = SumFunctionOnSet(g, S) + SumFunctionOnSet(e, S)
  BY <1>3, <1>7, SumOfSums
<1>9. SumFunctionOnSet(e, S) = Cardinality(R)
  <2>1. R \in SUBSET S /\ \A o \in S : e[o] = IF o \in R THEN 1 ELSE 0
    BY <1>3, <1>6
  <2> QED
    BY <1>3, <2>1, SumOfOnes
<1>10. Owed(d, f) = SumFunction(h) /\ Owed(d2, f) = SumFunction(g)
  <2>1. Owed(d, f) = SumFunction([o \in S |-> rows[o].remaining])
    BY <1>1, Zenon DEF Owed, Total
  <2>2. Owed(d2, f) = SumFunction([o \in S |-> after[o].remaining])
    BY <1>1, <1>5, Zenon DEF Owed, Total
  <2> QED
    BY <1>6, <2>1, <2>2
<1>11. DOMAIN h = S /\ DOMAIN g = S /\ Cardinality(R) = Share(d, c, f)
  BY <1>1, <1>6 DEF Share
<1>12. Owed(d, f) = Owed(d2, f) + Share(d, c, f)
  BY <1>8, <1>9, <1>10, <1>11 DEF SumFunction
<1>13. Owed(d2, f) \in Int /\ Share(d, c, f) \in Nat
  <2>1. SumFunctionOnSet(g, S) \in Int
    BY <1>3, <1>7, SumIsInt
  <2> QED
    BY <1>10, <1>11, <2>1, ShareIsNat DEF SumFunction
<1>14. Change(d, c, f) = - Share(d, c, f)
  BY DEF Change
<1>15. Owed(d2, f) = Owed(d, f) + Change(d, c, f)
  BY <1>12, <1>13, <1>14
<1> QED
  BY <1>1, <1>3, <1>4, <1>5, <1>15 DEF OwesAfter

\* An origin whose rows keep what they owe.
LEMMA KeepsOwing ==
    ASSUME NEW d, NEW d2, NEW c, MoneyOK(d), NEW f \in Origins, Change(d, c, f) = 0,
           \A o \in Obligations : OriginOf[o] = f =>
               /\ Exists(d2.obligations[o]) <=> Exists(d.obligations[o])
               /\ d2.obligations[o].remaining = d.obligations[o].remaining
    PROVE  OwesAfter(d, d2, c, f)
<1>1. RowsOf(d2, f) = RowsOf(d, f) /\ Owed(d2, f) = Owed(d, f)
  BY SameOwed
<1>2. \A o \in Obligations : OriginOf[o] = f => d2.obligations[o].remaining \in Nat
  BY DEF MoneyOK
<1>3. IsFiniteSet(RowsOf(d2, f)) /\ Owed(d, f) \in Nat
  BY <1>1, OwedIsNat
<1> QED
  BY <1>1, <1>2, <1>3 DEF OwesAfter

\* A move changes the cycle of what it names; a cycle that is finalized and a closure
\* that starts, no obligation.
LEMMA MovedOwes ==
    ASSUME NEW d, NEW d2, NEW c, NEW w, Executing(d, d2, c, w), NEW f \in Origins,
           c.kind \in {"MOVE", "FINALIZE", "START_CLOSURE"}
    PROVE  OwesAfter(d, d2, c, f)
<1>1. Change(d, c, f) = 0
  BY DEF Change, Resolves
<1>2. CASE c.kind = "MOVE"
  <2>1. w = [o \in Named(d, c) |-> InCycle(d.obligations[o], c.cycle)]
    BY <1>2 DEF Executing, Written, Resolves
  <2>2. ASSUME NEW o \in Obligations
        PROVE  /\ Exists(d2.obligations[o]) <=> Exists(d.obligations[o])
               /\ d2.obligations[o].remaining = d.obligations[o].remaining
    <3>1. PICK row : row = d.obligations[o] /\ RowOK(d, row)
      BY <2>2 DEF Executing, RowsOK
    <3>2. d2.obligations[o] = IF o \in Named(d, c) THEN InCycle(row, c.cycle) ELSE row
      BY <2>1, <3>1, Executed
    <3>3. CASE o \in Named(d, c)
      <4>1. PICK v, j, m, k : /\ v = row.version /\ j = row.cycle
                              /\ m = row.remaining /\ k = c.cycle
        OBVIOUS
      <4>2. row = [version |-> v, cycle |-> j, remaining |-> m] /\ v \in Nat
        BY <3>1, <4>1 DEF RowOK
      <4>3. PICK new : new = InCycle(row, k)
        OBVIOUS
      <4>4. new = [version |-> v + 1, cycle |-> k, remaining |-> m]
        BY <4>2, <4>3 DEF InCycle
      <4>5. new.version = v + 1 /\ new.remaining = m
        BY <4>4
      <4>6. Exists(row) /\ Exists(new)
        <5>1. Exists(row)
          BY <3>1, <3>3, NamedExist
        <5> QED
          BY <4>2, <4>5, <5>1 DEF Exists
      <4> QED
        BY <3>1, <3>2, <3>3, <4>1, <4>3, <4>5, <4>6
    <3>4. CASE o \notin Named(d, c)
      BY <3>1, <3>2, <3>4
    <3> QED
      BY <3>3, <3>4
  <2> QED
    BY <1>1, <2>2, KeepsOwing DEF Executing
<1>3. CASE c.kind \in {"FINALIZE", "START_CLOSURE"}
  <2>1. w = [o \in {} |-> Absent]
    BY <1>3 DEF Executing, Written, Resolves
  <2>2. \A o \in Obligations : d2.obligations[o] = d.obligations[o]
    BY <2>1, Executed
  <2> QED
    BY <1>1, <2>2, KeepsOwing DEF Executing
<1> QED
  BY <1>2, <1>3

\* A fact adds its difference to what its origin owes.
LEMMA ReconciledOwes ==
    ASSUME NEW d, NEW d2, NEW c, NEW w, Executing(d, d2, c, w), NEW f \in Origins,
           c.kind = "RECONCILE"
    PROVE  OwesAfter(d, d2, c, f)
<1>1. PICK g, S, rows : g = c.origin /\ S = RowsOf(d, g) /\ rows = d.obligations
  OBVIOUS
<1>2. PICK reused : reused = TakesUpFact(rows, S, Finalized(d))
  OBVIOUS
<1>3. PICK due : due = Total(rows, S) + 1
  OBVIOUS
<1>4. w = Rewritten(rows, S, reused, {}, due, Free(d, g), c.cycle)
  BY <1>1, <1>2, <1>3 DEF Executing, Written, ReconcileRows, Resolves
<1>5. g \in Origins /\ RowsOK(d) /\ MoneyOK(d)
  BY <1>1, CommandOK DEF Executing
<1>6. S \subseteq Obligations /\ \A o \in S : OriginOf[o] = g
  BY <1>1 DEF RowsOf
<1>7. AtMostOne(S, reused)
  BY <1>2, <1>6, TakesUpOne
<1>8. CASE f = g
  <2>1. due \in Nat /\ due = Owed(d, f) + 1
    BY <1>1, <1>3, <1>5, <1>8, OwedIsNat DEF Owed
  <2>2. Rewrote(d, d2, f, w)
    BY Executed DEF Rewrote
  <2>3. /\ IsFiniteSet(RowsOf(d2, f))
        /\ \A o \in Obligations : OriginOf[o] = f => d2.obligations[o].remaining \in Nat
        /\ Free(d, f) # {} => Owed(d2, f) = due
    <3>1. w = Rewritten(d.obligations, RowsOf(d, f), reused, {}, due, Free(d, f), c.cycle)
      BY <1>1, <1>4, <1>8
    <3>2. AtMostOne(RowsOf(d, f), reused) /\ {} \subseteq RowsOf(d, f)
      BY <1>1, <1>7, <1>8
    <3> QED
      BY <1>5, <2>1, <2>2, <3>1, <3>2, Rebalanced
  <2>4. Change(d, c, f) = 1
    BY <1>1, <1>8 DEF Change, Resolves
  <2> QED
    BY <2>1, <2>3, <2>4 DEF OwesAfter
<1>9. CASE f # g
  <2>1. Change(d, c, f) = 0
    BY <1>1, <1>9 DEF Change, Resolves
  <2>2. \A o \in DOMAIN w : OriginOf[o] = g
    <3>1. DOMAIN w = OpenIn(rows, S) \cup reused \cup {}
                         \cup (IF reused = {} THEN Free(d, g) ELSE {})
      BY <1>4 DEF Rewritten
    <3>2. OpenIn(rows, S) \subseteq S /\ reused \subseteq S
      BY <1>7 DEF OpenIn, AtMostOne
    <3> QED
      BY <1>6, <3>1, <3>2, FreeOK
  <2>3. \A o \in Obligations : OriginOf[o] = f => d2.obligations[o] = d.obligations[o]
    BY <1>9, <2>2, Executed
  <2> QED
    BY <1>5, <2>1, <2>3, KeepsOwing
<1> QED
  BY <1>8, <1>9

\* A reversal restores what its original has resolved of every origin.
LEMMA ReversedOwes ==
    ASSUME NEW d, NEW d2, NEW c, NEW w, Executing(d, d2, c, w), NEW f \in Origins,
           c.kind = "REVERSE"
    PROVE  OwesAfter(d, d2, c, f)
<1>1. PICK rows, F : rows = d.obligations /\ F = Finalized(d)
  OBVIOUS
<1>2. PICK plans : plans = [g \in OriginsOf(d, c) |-> PlanOf(d, c, rows, F, g)]
  OBVIOUS
<1>3. w = ReverseRows(d, c, rows, F) /\ RowsOK(d) /\ MoneyOK(d)
  BY <1>1 DEF Executing, Written, Resolves
<1>4. w = [o \in UNION {DOMAIN plans[g] : g \in DOMAIN plans} |-> plans[OriginOf[o]][o]]
  BY <1>2, <1>3 DEF ReverseRows, PlanOf
<1>5. \A o \in Obligations : IsRow(rows[o])
  BY <1>1, <1>3 DEF RowsOK, RowOK, IsRow
<1>6. \A o \in DOMAIN w : /\ OriginOf[o] \in OriginsOf(d, c)
                          /\ o \in DOMAIN PlanOf(d, c, rows, F, OriginOf[o])
                          /\ w[o] = PlanOf(d, c, rows, F, OriginOf[o])[o]
  <2>1. \A g \in OriginsOf(d, c) : \A o \in RowsOf(d, g) : IsRow(rows[o])
    BY <1>5 DEF RowsOf
  <2> QED
    BY <1>3, <2>1, ReverseIsPlans
<1>7. Change(d, c, f) = Share(d, c, f)
  BY DEF Change, Resolves
<1>8. OriginsOf(d, c) = {OriginOf[o] : o \in Named(d, c)}
  BY DEF OriginsOf
<1>9. CASE f \notin OriginsOf(d, c)
  <2>1. Change(d, c, f) = 0
    <3>1. {o \in Named(d, c) : OriginOf[o] = f} = {}
      BY <1>8, <1>9
    <3>2. Cardinality({}) = 0
      BY FS_EmptySet
    <3> QED
      BY <1>7, <3>1, <3>2 DEF Share
  <2>2. \A o \in Obligations : OriginOf[o] = f => d2.obligations[o] = d.obligations[o]
    BY <1>6, <1>9, Executed
  <2> QED
    BY <1>3, <2>1, <2>2, KeepsOwing
<1>10. CASE f \in OriginsOf(d, c)
  <2>1. PICK S, restored : S = RowsOf(d, f) /\ restored = Named(d, c) \cap S
    OBVIOUS
  <2>2. PICK reused, touched : /\ reused = TakesUpReversal(rows, S, restored, F)
                               /\ touched = {o \in restored : rows[o].cycle \notin F}
    OBVIOUS
  <2>3. PICK due : due = Total(rows, S) + Cardinality(restored)
    OBVIOUS
  <2>4. PICK plan : plan = PlanOf(d, c, rows, F, f)
    OBVIOUS
  <2>5. plan = Rewritten(rows, S, reused, touched, due, Free(d, f), c.cycle)
    BY <2>1, <2>2, <2>3, <2>4 DEF PlanOf
  <2>6. AtMostOne(S, reused) /\ touched \subseteq S
    <3>1. S \subseteq Obligations
      BY <2>1 DEF RowsOf
    <3> QED
      BY <2>1, <2>2, <3>1, TakesUpOne
  <2>7. due \in Nat /\ due = Owed(d, f) + Share(d, c, f)
    <3>1. {o \in Named(d, c) : OriginOf[o] = f} = restored /\ Share(d, c, f) \in Nat
      BY <2>1, ShareIsNat
    <3>2. Owed(d, f) = Total(rows, S) /\ Owed(d, f) \in Nat
      BY <1>1, <1>3, <2>1, OwedIsNat DEF Owed
    <3>3. Share(d, c, f) = Cardinality(restored)
      BY <3>1 DEF Share
    <3> QED
      BY <2>3, <3>1, <3>2, <3>3
  <2>8. Rewrote(d, d2, f, plan)
    <3>1. ASSUME NEW o \in Obligations, OriginOf[o] = f
          PROVE  /\ o \in DOMAIN w <=> o \in DOMAIN plan
                 /\ o \in DOMAIN w => w[o] = plan[o]
      <4>1. plans[f] = plan /\ f \in DOMAIN plans
        BY <1>2, <1>10, <2>4
      <4>2. o \in DOMAIN plan => o \in DOMAIN w
        BY <1>4, <4>1
      <4> QED
        BY <1>6, <2>4, <3>1, <4>2
    <3> QED
      BY <3>1, Executed DEF Rewrote
  <2>9. /\ IsFiniteSet(RowsOf(d2, f))
        /\ \A o \in Obligations : OriginOf[o] = f => d2.obligations[o].remaining \in Nat
        /\ Free(d, f) # {} => Owed(d2, f) = due
    <3>1. plan = Rewritten(d.obligations, RowsOf(d, f), reused, touched, due, Free(d, f),
                           c.cycle)
      BY <1>1, <2>1, <2>5
    <3>2. AtMostOne(RowsOf(d, f), reused) /\ touched \subseteq RowsOf(d, f)
      BY <2>1, <2>6
    <3> QED
      BY <1>3, <2>7, <2>8, <3>1, <3>2, Rebalanced
  <2> QED
    BY <1>7, <2>7, <2>9 DEF OwesAfter
<1> QED
  BY <1>9, <1>10

LEMMA CommandOwes ==
    ASSUME NEW d, NEW d2, NEW c, NEW w, Executing(d, d2, c, w), NEW f \in Origins
    PROVE  OwesAfter(d, d2, c, f)
<1>1. c.kind \in Kinds
  BY CommandOK DEF Executing
<1>2. \/ Resolves(c.kind)
      \/ c.kind \in {"MOVE", "FINALIZE", "START_CLOSURE"}
      \/ c.kind = "RECONCILE" \/ c.kind = "REVERSE"
  BY <1>1 DEF Kinds, Resolves
<1> QED
  BY <1>2, ResolvedOwes, MovedOwes, ReconciledOwes, ReversedOwes

\* The resolutions that stand are of obligations that are there.
LEMMA StandingShare ==
    ASSUME NEW d, RowsOK(d), MoneyOK(d), NEW f \in Origins, NEW k \in Standing(d)
    PROVE  Share(d, CommandOf(d, k), f) \in Nat
<1>1. PICK command : command = CommandOf(d, k)
  OBVIOUS
<1>2. k \in Keys /\ Resolves(command.kind)
  BY <1>1 DEF Standing
<1>3. d.receipts[k] # NoReceipt
  BY <1>1, <1>2 DEF NoReceipt, NoCommand, CommandOf, Resolves
<1>4. ReceiptOK(d, k)
  BY <1>2 DEF RowsOK
<1>5. /\ command \in Commands
      /\ \A o \in ToSet(command.targets) : Exists(d.obligations[o])
  BY <1>1, <1>2, <1>3, <1>4 DEF ReceiptOK, CommandOf
<1>6. Named(d, command) = ToSet(command.targets)
  BY <1>2 DEF Named, Resolves
<1>7. ToSet(command.targets) \subseteq Obligations
  BY <1>2, <1>5, CommandOK DEF Resolves
<1>8. PICK R : R = {o \in Named(d, command) : OriginOf[o] = f}
  OBVIOUS
<1>9. R \in SUBSET RowsOf(d, f)
  BY <1>5, <1>6, <1>7, <1>8 DEF RowsOf
<1>10. IsFiniteSet(R)
  <2>1. IsFiniteSet(RowsOf(d, f))
    BY DEF MoneyOK
  <2> QED
    BY <1>9, <2>1, FS_Subset
<1>11. Cardinality(R) \in Nat
  BY <1>10, FS_CardinalityType
<1> QED
  BY <1>1, <1>8, <1>11 DEF Share

Shares(d, f) == [k \in Standing(d) |-> Share(d, CommandOf(d, k), f)]

LEMMA SettledIsInt ==
    ASSUME NEW d, RowsOK(d), MoneyOK(d), NEW f \in Origins
    PROVE  /\ IsSummable(Shares(d, f))
           /\ Settled(d, f) = SumFunction(Shares(d, f))
           /\ Settled(d, f) \in Int
           /\ Cardinality(Reconciled(d, f)) \in Nat /\ IsFiniteSet(Reconciled(d, f))
<1>1. PICK given : given = {k \in Keys : CommandOf(d, k).kind # "NONE"}
  OBVIOUS
<1>2. IsFiniteSet(given)
  BY <1>1 DEF MoneyOK
<1>3. Standing(d) \in SUBSET given /\ Reconciled(d, f) \in SUBSET given
  BY <1>1 DEF Standing, Reconciled, Resolves
<1>4. IsFiniteSet(Standing(d)) /\ IsFiniteSet(Reconciled(d, f))
  BY <1>2, <1>3, FS_Subset
<1>5. IsSummable(Shares(d, f))
  BY <1>4, StandingShare DEF Shares, IsSummable
<1>6. Settled(d, f) = SumFunction(Shares(d, f))
  BY Zenon DEF Settled, Shares
<1>7. SumFunction(Shares(d, f)) \in Int
  BY <1>5, TotalIsInt
<1>8. Cardinality(Reconciled(d, f)) \in Nat
  BY <1>4, FS_CardinalityType
<1> QED
  BY <1>4, <1>5, <1>6, <1>7, <1>8

\* A command adds a fact, a resolution, or what it reverses.
LEMMA ReversedAfter ==
    ASSUME NEW d, NEW d2, NEW c, NEW w, Executing(d, d2, c, w), NEW key
    PROVE  /\ IsReversed(d2, key) <=>
                  IsReversed(d, key) \/ (c.kind = "REVERSE" /\ c.original = key)
           /\ ~ IsReversed(d, c.key)
<1>1. \A k \in Keys : CommandOf(d2, k) = IF k = c.key THEN c ELSE CommandOf(d, k)
  BY Executed
<1>2. CommandOf(d, c.key).kind = "NONE" /\ c.key \in Keys
  BY Executed, CommandOK DEF Executing
<1>3. \A x : /\ IsReversed(d, x) <=> \E k \in Keys : /\ CommandOf(d, k).kind = "REVERSE"
                                                     /\ CommandOf(d, k).original = x
             /\ IsReversed(d2, x) <=> \E k \in Keys : /\ CommandOf(d2, k).kind = "REVERSE"
                                                      /\ CommandOf(d2, k).original = x
  BY DEF IsReversed, CommandOf
<1>4. ASSUME NEW k \in Keys, CommandOf(d, k).kind = "REVERSE",
             CommandOf(d, k).original = c.key
      PROVE  FALSE
  <2>1. Original(d, CommandOf(d, k)).command.kind \in {"TRANSFER", "OFFSET"}
    BY <1>4 DEF Executing, MoneyOK
  <2>2. CommandOf(d, c.key).kind \in {"TRANSFER", "OFFSET"}
    BY <1>4, <2>1 DEF Original, CommandOf
  <2> QED
    BY <1>2, <2>2
<1>5. ~ IsReversed(d, c.key)
  BY <1>3, <1>4
<1>6. IsReversed(d2, key) <=>
          IsReversed(d, key) \/ (c.kind = "REVERSE" /\ c.original = key)
  BY <1>1, <1>2, <1>3
<1> QED
  BY <1>5, <1>6

\* The facts of an origin: one more, if that is what the command brings.
LEMMA ReconciledAfter ==
    ASSUME NEW d, NEW d2, NEW c, NEW w, Executing(d, d2, c, w), NEW f \in Origins
    PROVE  Cardinality(Reconciled(d2, f)) = Cardinality(Reconciled(d, f))
               + (IF c.kind = "RECONCILE" /\ c.origin = f THEN 1 ELSE 0)
<1>1. /\ \A k \in Keys : CommandOf(d2, k) = IF k = c.key THEN c ELSE CommandOf(d, k)
      /\ CommandOf(d, c.key).kind = "NONE" /\ c.key \in Keys
  BY Executed, CommandOK DEF Executing
<1>2. PICK facts : facts = Reconciled(d, f)
  OBVIOUS
<1>3. IsFiniteSet(facts) /\ Cardinality(facts) \in Nat
  BY <1>2, SettledIsInt DEF Executing
<1>4. c.key \notin facts
  BY <1>1, <1>2 DEF Reconciled
<1>5. CASE c.kind = "RECONCILE" /\ c.origin = f
  <2>1. Reconciled(d2, f) = facts \cup {c.key}
    BY <1>1, <1>2, <1>5 DEF Reconciled
  <2>2. Cardinality(facts \cup {c.key}) = Cardinality(facts) + 1
    BY <1>3, <1>4, FS_AddElement
  <2> QED
    BY <1>2, <1>5, <2>1, <2>2
<1>6. CASE ~ (c.kind = "RECONCILE" /\ c.origin = f)
  <2>1. Reconciled(d2, f) = facts
    BY <1>1, <1>2, <1>6 DEF Reconciled
  <2> QED
    BY <1>2, <1>3, <1>6, <2>1
<1> QED
  BY <1>5, <1>6

\* What stands of the resolutions changes as the command says.
LEMMA SettledAfter ==
    ASSUME NEW d, NEW d2, NEW c, NEW w, Executing(d, d2, c, w), NEW f \in Origins
    PROVE  Settled(d2, f) = Settled(d, f)
               + (IF Resolves(c.kind) THEN Share(d, c, f)
                  ELSE IF c.kind = "REVERSE" THEN - Share(d, c, f) ELSE 0)
<1>1. /\ \A k \in Keys : CommandOf(d2, k) = IF k = c.key THEN c ELSE CommandOf(d, k)
      /\ CommandOf(d, c.key).kind = "NONE" /\ c.key \in Keys
  BY Executed, CommandOK DEF Executing
<1>2. PICK before, after : before = Shares(d, f) /\ after = Shares(d2, f)
  OBVIOUS
<1>3. /\ DOMAIN before = Standing(d) /\ DOMAIN after = Standing(d2)
      /\ \A k \in Standing(d) : before[k] = Share(d, CommandOf(d, k), f)
      /\ \A k \in Standing(d2) : after[k] = Share(d2, CommandOf(d2, k), f)
  BY <1>2 DEF Shares
<1>4. /\ IsSummable(before) /\ Settled(d, f) = SumFunction(before)
      /\ Settled(d, f) \in Int
  BY <1>2, SettledIsInt DEF Executing
<1>5. Settled(d2, f) = SumFunction(after)
  BY <1>2, Zenon DEF Settled, Shares
<1>6. Share(d, c, f) \in Nat
  BY ShareIsNat
<1>7. \A command : Resolves(command.kind) => Share(d2, command, f) = Share(d, command, f)
  <2> TAKE command
  <2> HAVE Resolves(command.kind)
  <2>1. Named(d2, command) = Named(d, command)
    BY DEF Named, Resolves
  <2> QED
    BY <2>1 DEF Share
<1>8. c.key \notin Standing(d)
  BY <1>1 DEF Standing, Resolves
<1>9. \A k \in Standing(d) : /\ k # c.key /\ CommandOf(d2, k) = CommandOf(d, k)
                             /\ Resolves(CommandOf(d, k).kind)
  BY <1>1, <1>8 DEF Standing
<1>10. \A k \in Standing(d) \cap Standing(d2) : after[k] = before[k]
  BY <1>3, <1>7, <1>9
<1>11. CASE Resolves(c.kind)
  <2>1. Standing(d2) = Standing(d) \cup {c.key}
    <3>1. \A k \in Keys : IsReversed(d2, k) <=> IsReversed(d, k)
      BY <1>11, ReversedAfter DEF Resolves
    <3>2. ~ IsReversed(d, c.key)
      BY ReversedAfter
    <3> QED
      BY <1>1, <1>11, <3>1, <3>2 DEF Standing
  <2>2. after[c.key] = Share(d, c, f)
    BY <1>1, <1>3, <1>7, <1>11, <2>1
  <2>3. SumFunction(after) = SumFunction(before) + after[c.key]
    <3>1. /\ DOMAIN after = DOMAIN before \cup {c.key} /\ c.key \notin DOMAIN before
          /\ after[c.key] \in Int /\ \A k \in DOMAIN before : after[k] = before[k]
      BY <1>3, <1>6, <1>8, <1>10, <2>1, <2>2
    <3> QED
      BY <1>4, <3>1, TotalOfMore
  <2> QED
    BY <1>4, <1>5, <1>11, <2>2, <2>3
<1>12. CASE c.kind = "REVERSE"
  <2>1. PICK original : original = c.original
    OBVIOUS
  <2>2. original \in Standing(d)
    <3>1. original \in Keys
      BY <1>12, <2>1, CommandOK DEF Executing
    <3>2. /\ CommandOf(d, original).kind \in {"TRANSFER", "OFFSET"}
          /\ ~ IsReversed(d, original)
      BY <1>12, <2>1 DEF Executing, Allowed, CanReverse, Original, CommandOf
    <3> QED
      BY <3>1, <3>2 DEF Standing, Resolves
  <2>3. Standing(d2) = Standing(d) \ {original}
    <3>1. \A k \in Keys : IsReversed(d2, k) <=> IsReversed(d, k) \/ k = original
      BY <1>12, <2>1, ReversedAfter
    <3>2. c.key \notin Standing(d2)
      BY <1>1, <1>12 DEF Standing, Resolves
    <3> QED
      BY <1>1, <1>8, <3>1, <3>2 DEF Standing
  <2>4. before[original] = Share(d, c, f)
    <3>1. PICK command : command = CommandOf(d, original) /\ Resolves(command.kind)
      BY <1>9, <2>2
    <3>2. Named(d, c) = ToSet(command.targets)
      BY <1>12, <2>1, <3>1 DEF Named, Original, CommandOf
    <3>3. Named(d, command) = ToSet(command.targets)
      BY <3>1 DEF Named, Resolves
    <3>4. Share(d, command, f) = Share(d, c, f)
      BY <3>2, <3>3 DEF Share
    <3> QED
      BY <1>3, <2>2, <3>1, <3>4
  <2>5. IsSummable(after)
    <3>1. IsFiniteSet(Standing(d))
      BY <1>3, <1>4 DEF IsSummable
    <3>2. IsFiniteSet(Standing(d2))
      <4>1. Standing(d2) \in SUBSET Standing(d)
        BY <2>3
      <4> QED
        BY <3>1, <4>1, FS_Subset
    <3>3. \A k \in DOMAIN after : k \in DOMAIN before /\ after[k] = before[k]
      BY <1>3, <1>10, <2>3
    <3>4. \A k \in DOMAIN after : after[k] \in Int
      BY <1>4, <3>3 DEF IsSummable
    <3> QED
      BY <1>3, <3>2, <3>4 DEF IsSummable
  <2>6. SumFunction(before) = SumFunction(after) + before[original]
    <3>1. /\ DOMAIN before = DOMAIN after \cup {original} /\ original \notin DOMAIN after
          /\ before[original] \in Int /\ \A k \in DOMAIN after : before[k] = after[k]
      BY <1>3, <1>6, <1>10, <2>2, <2>3, <2>4
    <3> QED
      BY <2>5, <3>1, TotalOfMore
  <2>7. SumFunction(after) \in Int
    BY <2>5, TotalIsInt
  <2>8. ~ Resolves(c.kind)
    BY <1>12 DEF Resolves
  <2> QED
    BY <1>4, <1>5, <1>6, <1>12, <2>4, <2>6, <2>7, <2>8
<1>13. CASE ~ Resolves(c.kind) /\ c.kind # "REVERSE"
  <2>1. Standing(d2) = Standing(d)
    <3>1. \A k \in Keys : IsReversed(d2, k) <=> IsReversed(d, k)
      BY <1>13, ReversedAfter
    <3>2. ~ Resolves(CommandOf(d, c.key).kind) /\ ~ Resolves(CommandOf(d2, c.key).kind)
      BY <1>1, <1>13 DEF Resolves
    <3> QED
      BY <1>1, <3>1, <3>2 DEF Standing
  <2>2. SumFunction(after) = SumFunction(before)
    <3>1. DOMAIN after = DOMAIN before /\ \A k \in DOMAIN before : after[k] = before[k]
      BY <1>3, <1>10, <2>1
    <3> QED
      BY <1>4, <3>1, TotalOfSame
  <2> QED
    BY <1>4, <1>5, <1>13, <2>2
<1> QED
  BY <1>11, <1>12, <1>13

\* What an origin owes remains what its facts make due, less what has been settled.
LEMMA BalancedNext ==
    ASSUME NEW d, NEW d2, NEW c, NEW w, Executing(d, d2, c, w), NEW f \in Origins,
           Balanced(d, f), Free(d, f) # {}
    PROVE  Balanced(d2, f)
<1>1. PICK owed, facts, settled, share :
          /\ owed = d.owed[f] /\ facts = Cardinality(Reconciled(d, f))
          /\ settled = Settled(d, f) /\ share = Share(d, c, f)
  OBVIOUS
<1>2. owed \in Nat /\ facts \in Nat /\ settled \in Int /\ share \in Nat
  BY <1>1, SettledIsInt, ShareIsNat DEF Executing, MoneyOK
<1>3. Owed(d, f) = owed + facts - settled
  BY <1>1 DEF Balanced
<1>4. Owed(d2, f) = Owed(d, f) + Change(d, c, f)
  BY CommandOwes DEF OwesAfter
<1>5. d2.owed[f] = owed
  BY <1>1, Executed
<1>6. Cardinality(Reconciled(d2, f)) =
          facts + (IF c.kind = "RECONCILE" /\ c.origin = f THEN 1 ELSE 0)
  BY <1>1, ReconciledAfter
<1>7. Settled(d2, f) =
          settled + (IF Resolves(c.kind) THEN share
                     ELSE IF c.kind = "REVERSE" THEN - share ELSE 0)
  BY <1>1, SettledAfter
<1>8. Change(d, c, f) = IF Resolves(c.kind) THEN - share
                        ELSE IF c.kind = "RECONCILE" /\ c.origin = f THEN 1
                        ELSE IF c.kind = "REVERSE" THEN share ELSE 0
  BY <1>1 DEF Change
<1>9. ~ (Resolves(c.kind) /\ c.kind \in {"RECONCILE", "REVERSE"})
  BY DEF Resolves
<1>10. Owed(d2, f) = d2.owed[f] + Cardinality(Reconciled(d2, f)) - Settled(d2, f)
  <2>1. CASE Resolves(c.kind)
    BY <1>2, <1>3, <1>4, <1>5, <1>6, <1>7, <1>8, <1>9, <2>1
  <2>2. CASE c.kind = "REVERSE"
    BY <1>2, <1>3, <1>4, <1>5, <1>6, <1>7, <1>8, <1>9, <2>2
  <2>3. CASE ~ Resolves(c.kind) /\ c.kind # "REVERSE"
    BY <1>2, <1>3, <1>4, <1>5, <1>6, <1>7, <1>8, <2>3
  <2> QED
    BY <2>1, <2>2, <2>3
<1> QED
  BY <1>10 DEF Balanced

\* And its rows remain numbers that can be added up.
LEMMA MoneyNext ==
    ASSUME NEW d, NEW d2, NEW c, NEW w, Executing(d, d2, c, w)
    PROVE  MoneyOK(d2)
<1>1. /\ \A k \in Keys : CommandOf(d2, k) = IF k = c.key THEN c ELSE CommandOf(d, k)
      /\ CommandOf(d, c.key).kind = "NONE" /\ c.key \in Keys
      /\ c \in Commands /\ c.kind \in Kinds
  BY Executed, CommandOK DEF Executing
<1>2. \A f \in Origins : IsFiniteSet(RowsOf(d2, f))
  BY CommandOwes DEF OwesAfter
<1>3. \A o \in Obligations : d2.obligations[o].remaining \in Nat
  <2> TAKE o \in Obligations
  <2>1. PICK f \in Origins : OriginOf[o] = f
    BY IdsAssumption
  <2> QED
    BY <2>1, CommandOwes DEF OwesAfter
<1>4. d2.owed \in [Origins -> Nat]
  BY Executed DEF Executing, MoneyOK
<1>5. IsFiniteSet({k \in Keys : CommandOf(d2, k).kind # "NONE"})
  <2>1. PICK given : given = {k \in Keys : CommandOf(d, k).kind # "NONE"}
    OBVIOUS
  <2>2. {k \in Keys : CommandOf(d2, k).kind # "NONE"} = given \cup {c.key}
    BY <1>1, <2>1 DEF Kinds
  <2>3. IsFiniteSet(given)
    BY <2>1 DEF Executing, MoneyOK
  <2>4. IsFiniteSet(given \cup {c.key})
    BY <2>3, FS_AddElement
  <2> QED
    BY <2>2, <2>4
<1>6. ASSUME NEW k \in Keys, CommandOf(d2, k).kind = "REVERSE"
      PROVE  Original(d2, CommandOf(d2, k)).command.kind \in {"TRANSFER", "OFFSET"}
  <2>1. PICK original : original = CommandOf(d2, k).original
    OBVIOUS
  <2>2. original \in Keys /\ CommandOf(d, original).kind \in {"TRANSFER", "OFFSET"}
    <3>1. CASE k = c.key
      <4>1. CommandOf(d2, k) = c /\ original = c.original
        BY <1>1, <2>1, <3>1
      <4>2. CommandOf(d, c.original).kind \in {"TRANSFER", "OFFSET"}
        BY <1>6, <4>1 DEF Executing, Allowed, CanReverse, Original, CommandOf
      <4> QED
        BY <1>1, <1>6, <4>1, <4>2, CommandOK
    <3>2. CASE k # c.key
      <4>1. CommandOf(d2, k) = CommandOf(d, k) /\ CommandOf(d, k).kind = "REVERSE"
        BY <1>1, <1>6, <3>2
      <4>2. CommandOf(d, original).kind \in {"TRANSFER", "OFFSET"}
        <5>1. Original(d, CommandOf(d, k)).command.kind \in {"TRANSFER", "OFFSET"}
          BY <4>1 DEF Executing, MoneyOK
        <5> QED
          BY <2>1, <4>1, <5>1 DEF Original, CommandOf
      <4>3. CommandOf(d, k) \in Commands
        <5>1. ReceiptOK(d, k) /\ d.receipts[k] # NoReceipt
          BY <4>1 DEF Executing, RowsOK, NoReceipt, NoCommand, CommandOf
        <5> QED
          BY <5>1 DEF ReceiptOK, CommandOf
      <4> QED
        BY <2>1, <4>1, <4>2, <4>3, CommandOK
    <3> QED
      BY <3>1, <3>2
  <2>3. CommandOf(d2, original) = CommandOf(d, original)
    BY <1>1, <2>2
  <2> QED
    BY <2>1, <2>2, <2>3 DEF Original, CommandOf
<1> QED
  BY <1>2, <1>3, <1>4, <1>5, <1>6 DEF MoneyOK

\* There is an id for another obligation of every origin.
RoomIsLeft == \A f \in Origins : Free(db, f) # {}

LEMMA InitMoney ==
    ASSUME Init
    PROVE  /\ MoneyOK(db)
           /\ RoomIsLeft => \A f \in Origins : Balanced(db, f)
<1>1. PICK owed \in Debts, opened \in Opened :
          db = [space       |-> 1,
                owed        |-> owed,
                commitments |-> [f \in Origins |-> 1],
                obligations |-> [o \in Obligations |->
                    IF o = FirstOf(OriginOf[o])
                    THEN [version |-> 1, cycle |-> Min(Cycles),
                          remaining |-> owed[OriginOf[o]]]
                    ELSE Absent],
                cycles      |-> [c \in Cycles |->
                    IF c \in opened THEN [status |-> "OPEN", version |-> 1]
                                    ELSE [status |-> "ABSENT", version |-> 0]],
                receipts    |-> [k \in Keys |-> NoReceipt]]
  BY DEF Init, CommandsInit
<1>2. /\ db.owed = owed
      /\ db.receipts = [k \in Keys |-> NoReceipt]
      /\ db.obligations = [o \in Obligations |->
             IF o = FirstOf(OriginOf[o])
             THEN [version |-> 1, cycle |-> Min(Cycles), remaining |-> owed[OriginOf[o]]]
             ELSE Absent]
  BY <1>1
<1>3. owed \in [Origins -> Nat]
  BY IdsAssumption
<1>4. ASSUME NEW o \in Obligations
      PROVE  /\ Exists(db.obligations[o]) <=> o = FirstOf(OriginOf[o])
             /\ db.obligations[o].remaining = IF o = FirstOf(OriginOf[o])
                                              THEN owed[OriginOf[o]] ELSE 0
  <2>1. PICK first, due : first = Min(Cycles) /\ due = owed[OriginOf[o]]
    OBVIOUS
  <2>2. db.obligations[o] = IF o = FirstOf(OriginOf[o])
                            THEN [version |-> 1, cycle |-> first, remaining |-> due]
                            ELSE Absent
    BY <1>2, <2>1
  <2> QED
    BY <2>1, <2>2 DEF Exists, Absent
<1>5. \A k \in Keys : CommandOf(db, k).kind = "NONE"
  BY <1>2 DEF CommandOf, NoReceipt, NoCommand
<1>6. ASSUME NEW f \in Origins
      PROVE  /\ RowsOf(db, f) = {o \in {FirstOf(f)} : o \in Obligations /\ OriginOf[o] = f}
             /\ IsFiniteSet(RowsOf(db, f))
  <2>1. RowsOf(db, f) = {o \in {FirstOf(f)} : o \in Obligations /\ OriginOf[o] = f}
    BY <1>4 DEF RowsOf
  <2>2. IsFiniteSet({FirstOf(f)})
    BY FS_Singleton
  <2>3. RowsOf(db, f) \in SUBSET {FirstOf(f)}
    BY <2>1
  <2>4. IsFiniteSet(RowsOf(db, f))
    BY <2>2, <2>3, FS_Subset
  <2> QED
    BY <2>1, <2>4
<1>7. MoneyOK(db)
  <2>1. \A o \in Obligations : db.obligations[o].remaining \in Nat
    <3>1. \A o \in Obligations : OriginOf[o] \in Origins
      BY IdsAssumption
    <3> QED
      BY <1>3, <1>4, <3>1
  <2>2. {k \in Keys : CommandOf(db, k).kind # "NONE"} = {}
    BY <1>5
  <2>3. IsFiniteSet({k \in Keys : CommandOf(db, k).kind # "NONE"})
    BY <2>2, FS_EmptySet
  <2> QED
    BY <1>2, <1>3, <1>5, <1>6, <2>1, <2>3 DEF MoneyOK
<1>8. ASSUME NEW f \in Origins, Free(db, f) # {}
      PROVE  Balanced(db, f)
  <2>1. PICK x, all : all = {o \in Obligations : OriginOf[o] = f} /\ x = FirstOf(f)
    OBVIOUS
  <2>2. x \in all
    <3>1. all # {}
      BY <1>8, <2>1, FreeOK
    <3>2. all \in SUBSET Nat /\ x = Min(all)
      BY <2>1, IdsAssumption DEF FirstOf
    <3> QED
      BY <3>1, <3>2, MinIsLeast
  <2>3. RowsOf(db, f) = {x}
    BY <1>6, <2>1, <2>2
  <2>4. Owed(db, f) = owed[f]
    <3>1. PICK g : g = [o \in {x} |-> db.obligations[o].remaining]
      OBVIOUS
    <3>2. g[x] = owed[f] /\ owed[f] \in Nat
      BY <1>3, <1>4, <2>1, <2>2, <3>1
    <3>3. SumFunctionOnSet(g, {x}) = g[x]
      <4>1. PICK S : S = {x} /\ x \in S
        OBVIOUS
      <4>2. IsFiniteSet(S)
        BY <4>1, FS_Singleton
      <4>3. g[x] \in Int /\ \A y \in S \ {x} : g[y] = 0
        BY <3>2, <4>1
      <4>4. SumFunctionOnSet(g, S) = g[x]
        BY <4>1, <4>2, <4>3, SumOfOne
      <4> QED
        BY <4>1, <4>4
    <3>4. Owed(db, f) = SumFunction([o \in {x} |-> db.obligations[o].remaining])
      BY <2>3, Zenon DEF Owed, Total
    <3> QED
      BY <3>1, <3>2, <3>3, <3>4 DEF SumFunction
  <2>5. Cardinality(Reconciled(db, f)) = 0
    <3>1. Reconciled(db, f) = {}
      BY <1>5 DEF Reconciled
    <3> QED
      BY <3>1, FS_EmptySet
  <2>6. Settled(db, f) = 0
    <3>1. Standing(db) = {}
      BY <1>5 DEF Standing, Resolves
    <3>2. PICK g : g = Shares(db, f)
      OBVIOUS
    <3>3. DOMAIN g = {}
      BY <3>1, <3>2 DEF Shares
    <3>4. Settled(db, f) = SumFunction(g)
      BY <3>2, Zenon DEF Settled, Shares
    <3>5. SumFunctionOnSet(g, {}) = 0
      BY SumOfNone
    <3> QED
      BY <3>3, <3>4, <3>5 DEF SumFunction
  <2>7. owed[f] = owed[f] + 0 - 0
    BY <1>3
  <2> QED
    BY <1>2, <2>4, <2>5, <2>6, <2>7 DEF Balanced
<1> QED
  BY <1>7, <1>8 DEF RoomIsLeft

\* A step of a transaction writes nothing, or carries out its command.
LEMMA StepExecutes ==
    ASSUME Inv, [Next]_vars
    PROVE  db' = db \/ \E c \in Commands : Execute(c)
<1>1. CASE UNCHANGED vars
  BY <1>1 DEF vars
<1>2. CASE Next
  <2>1. PICK r \in Requests : Statement(r) \/ Client(r)
    BY <1>2 DEF Next
  <2>2. CASE Commit(r)
    BY <2>2, CommitExecutes DEF CommandsNext
  <2>3. CASE ~ Commit(r)
    BY <2>1, <2>3, StepMoves DEF Moves
  <2> QED
    BY <2>2, <2>3
<1> QED
  BY <1>1, <1>2

LEMMA StepKeepsMoney ==
    ASSUME Inv, [Next]_vars, MoneyOK(db)
    PROVE  /\ MoneyOK(db')
           /\ \A f \in Origins :
                  Balanced(db, f) /\ Free(db, f) # {} => Balanced(db', f)
<1>1. CASE db' = db
  BY <1>1
<1>2. CASE db' # db
  <2>1. PICK c \in Commands : Execute(c)
    BY <1>2, StepExecutes
  <2>2. PICK d, d2, w : /\ d = db /\ d2 = db'
                        /\ w = Written(d, c, d.obligations, Finalized(d))
    OBVIOUS
  <2>3. /\ d.receipts[c.key] = NoReceipt
        /\ Allowed(d, c, w)
        /\ d2 = Committed(d, c, Seen(d, c), w)
    BY <2>1, <2>2 DEF Execute
  <2>4. Executing(d, d2, c, w)
    BY <2>2, <2>3 DEF Executing, Inv
  <2>5. MoneyOK(d2) /\ \A f \in Origins :
                           Balanced(d, f) /\ Free(d, f) # {} => Balanced(d2, f)
    BY <2>4, MoneyNext, BalancedNext
  <2> QED
    BY <2>2, <2>5
<1> QED
  BY <1>1, <1>2

-----------------------------------------------------------------------------
(***************************************************************************)
(* What is proved of every behaviour.                                      *)
(***************************************************************************)
\* The rows, the locks and what every request holds are as the invariant says.
THEOREM Invariance == Spec => []Inv
<1>1. Init => Inv
  BY InitInv
<1>2. Inv /\ [Next]_vars => Inv'
  BY NextInv
<1> QED
  BY <1>1, <1>2, PTL DEF Spec

\* Every request is at one of its statements, holds locks only between the lock of the
\* space and its end, and no two locks conflict.
THEOREM TypeCorrect == Spec => []TypeOK
<1>1. Inv => TypeOK
  BY DEF Inv, RequestOK, IsRequest, LockOK, LockOf, InSpace, TypeOK
<1> QED
  BY <1>1, Invariance, PTL

\* Nothing is owed in a cycle that is finalized, whatever transactions were writing
\* into it when it was: lockCycle takes it FOR UPDATE, and the commands that write
\* obligations FOR SHARE.
THEOREM CyclesSettled == Spec => []FinalizedCyclesAreSettled
<1>1. Inv => FinalizedCyclesAreSettled
  BY DEF Inv, RowsOK, FinalizedCyclesAreSettled
<1> QED
  BY <1>1, Invariance, PTL

\* The transactions of the handlers, interleaved at every statement, are the commands
\* of SettlementCommands one after the other: each finds the rows its client has seen,
\* though it has read most of them before they were locked.
THEOREM OneAtATime == Spec => OneCommandAtATime
<1>1. Init => CommandsInit
  BY DEF Init
<1>2. Inv /\ [Next]_vars => [CommandsNext]_db
  BY StepExecutes DEF CommandsNext
<1> QED
  BY <1>1, <1>2, Invariance, PTL DEF Spec, OneCommandAtATime, CommandsSpec

\* A request that finds the receipt of its twin is answered with it; it is refused
\* before only for the version of the space, or, a transfer, for a cycle finalized in
\* between.
THEOREM TwinReplayed == Spec => TwinIsReplayed
<1>1. Inv /\ [Next]_vars =>
          \A r \in Requests :
              (/\ request[r].stage # "ANSWERED"
               /\ request'[r].stage = "ANSWERED"
               /\ HasReceipt(r)
               /\ SameInput(db.receipts[request[r].command.key], r))
              => \/ request'[r].answer = "REPLAYED"
                 \/ /\ request'[r].answer = "REFUSED"
                    /\ \/ db.space # request[r].expects.space
                       \/ /\ Kind(r) = "TRANSFER"
                          /\ CyclesOf(request[r].seen) \cap Finalized(db) # {}
  BY TwinStep DEF Told
<1> QED
  BY <1>1, Invariance, PTL DEF Spec, TwinIsReplayed

\* The rows, the receipts and what each of them stands for.
LEMMA Accounts == Spec => []MoneyOK(db)
<1>1. Init => MoneyOK(db)
  BY InitMoney
<1>2. Inv /\ MoneyOK(db) /\ [Next]_vars => MoneyOK(db)'
  BY StepKeepsMoney
<1> QED
  BY <1>1, <1>2, Invariance, PTL DEF Spec

\* What remains to be paid of an origin is what its facts make due, less what has been
\* settled and not restored, as long as there is an id for another obligation: the
\* model has only so many, and a difference that no obligation can take up is dropped.
THEOREM NothingLost == Spec /\ []RoomIsLeft => []NothingIsLost
<1> DEFINE Even == \A f \in Origins : Balanced(db, f)
<1>1. Init /\ RoomIsLeft => Even
  BY InitMoney
<1>2. Inv /\ MoneyOK(db) /\ RoomIsLeft /\ Even /\ [Next]_vars => Even'
  BY StepKeepsMoney DEF RoomIsLeft
<1>3. Even => NothingIsLost
  BY Zenon DEF Balanced, Owed, NothingIsLost
<1> HIDE DEF Even
<1> QED
  BY <1>1, <1>2, <1>3, Invariance, Accounts, PTL DEF Spec

\* The ids of the database do not run out: with infinitely many for every origin
\* nothing is lost in any behaviour.
Inexhaustible == \A f \in Origins : ~ IsFiniteSet({o \in Obligations : OriginOf[o] = f})

THEOREM NothingLostEver ==
    ASSUME Inexhaustible
    PROVE  Spec => []NothingIsLost
<1>1. MoneyOK(db) => RoomIsLeft
  <2> SUFFICES ASSUME MoneyOK(db), NEW f \in Origins
               PROVE  Free(db, f) # {}
    BY DEF RoomIsLeft
  <2>1. PICK all, absent, there :
            /\ all = {o \in Obligations : OriginOf[o] = f}
            /\ absent = {o \in Obligations : OriginOf[o] = f
                                             /\ ~ Exists(db.obligations[o])}
            /\ there = RowsOf(db, f)
    OBVIOUS
  <2>2. IsFiniteSet(there) /\ ~ IsFiniteSet(all)
    BY <2>1 DEF MoneyOK, Inexhaustible
  <2>3. all = absent \cup there
    BY <2>1 DEF RowsOf
  <2>4. absent # {}
    BY <2>2, <2>3
  <2> QED
    BY <2>1, <2>4 DEF Free
<1> QED
  BY <1>1, Accounts, NothingLost, PTL

=============================================================================
