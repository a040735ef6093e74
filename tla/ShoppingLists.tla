--------------------------- MODULE ShoppingLists ---------------------------
(***************************************************************************)
(* The shopping lists of a space, and the tasks that are linked to them,   *)
(* as the members change them at the same time.  A command is a            *)
(* transaction at READ COMMITTED: it takes the advisory lock of its key    *)
(* and looks for its receipt, shares the row of the space, reads without a *)
(* lock, and updates its list, or its task, on the condition that the      *)
(* version is still the one that the client named.  Commands interleave at *)
(* every statement; a connection may be lost at any of them, and a client  *)
(* asks again with the same key.                                           *)
(*                                                                         *)
(* An id that the code draws at random is named in the command.            *)
(***************************************************************************)
EXTENDS Integers, FiniteSets, Functions

CONSTANTS Lists, Items, Purchases, Tasks, Keys,
          Commands,     \* [kind, key, list, item, purchase, task, quantity]
          MaxQuantity,  \* the largest quantity: 999999999.999 in the code
          Requests,     \* the transactions that may run at the same time
          MaxAsked,     \* bound on what is asked
          MaxLost       \* bound on the connections that are lost

NoReceipt == [status |-> "NONE"]
NoList    == "NO_LIST"
NoItem    == "NO_ITEM"
Nobody    == [stage |-> "IDLE"]

IsNew(c)    == c.kind \in {"CREATE", "CREATE_TASK"}
OnItem(c)   == c.kind \in {"NEED", "REMOVE", "PURCHASE", "CORRECT"}
About(c)    == c.kind = "ADD" \/ OnItem(c)
OnTask(c)   == c.kind \in {"LINK", "UNLINK"}
LinksTo(c)  == c.kind \in {"LINK", "CREATE_TASK"} /\ c.list # NoList

ASSUME BoundsAssumption == IsFiniteSet(Purchases) /\ MaxQuantity \in Nat

\* Only the list of a task may be null, and it is when it is unlinked.
ASSUME CommandsAssumption ==
    /\ NoList \notin Lists /\ NoItem \notin Items
    /\ \A c \in Commands :
          /\ c.kind \in {"CREATE", "RENAME", "ARCHIVE", "ADD", "CREATE_TASK"}
                 \/ OnItem(c) \/ OnTask(c)
          /\ c = [kind |-> c.kind, key |-> c.key, list |-> c.list, item |-> c.item,
                  purchase |-> c.purchase, task |-> c.task, quantity |-> c.quantity]
          /\ c.key \in Keys /\ c.item \in Items /\ c.purchase \in Purchases
          /\ c.task \in Tasks /\ c.quantity \in Nat
          /\ c.list \in Lists \/ (c.kind \in {"CREATE_TASK", "UNLINK"} /\ c.list = NoList)
          /\ c.kind = "UNLINK" => c.list = NoList

\* The ids of what is created are drawn at random, and an item belongs to one list.
ASSUME IdsAssumption ==
    \A c, d \in Commands :
        /\ c.kind = d.kind =>
              /\ c.kind = "CREATE" /\ c.list = d.list => c = d
              /\ c.kind = "CREATE_TASK" /\ c.task = d.task => c = d
              /\ c.kind = "ADD" /\ c.item = d.item => c = d
              /\ c.kind = "PURCHASE" /\ c.purchase = d.purchase => c = d
        /\ About(c) /\ About(d) /\ c.item = d.item => c.list = d.list

VARIABLES
    db,       \* [space, lists, items, purchases, corrections, tasks, history, receipts]
    request,  \* what every request has read, and where it is
    locks,    \* [by, on, mode]
    asked, lost

vars == <<db, request, locks, asked, lost>>

Init ==
    /\ db = [space       |-> "ACTIVE",
             lists       |-> [l \in Lists |-> [status |-> "NONE", version |-> 0]],
             items       |-> [i \in Items |-> [status |-> "NONE", desired |-> 0]],
             purchases   |-> [p \in Purchases |-> [item |-> NoItem, quantity |-> 0]],
             corrections |-> {},
             tasks       |-> [t \in Tasks |-> [list |-> NoList, version |-> 0]],
             history     |-> {},
             receipts    |-> [k \in Keys |-> NoReceipt]]
    /\ request = [r \in Requests |-> Nobody]
    /\ locks = {}
    /\ asked = 0
    /\ lost = 0

-----------------------------------------------------------------------------
(***************************************************************************)
(* The rows and what is computed from them.                                *)
(***************************************************************************)
\* Mistake: a correction of a correction is not seen.
FirstCorrected(s, p) ==
    LET own == {c \in s.corrections : c.purchase = p}
    IN  IF own = {} THEN s.purchases[p].quantity
        ELSE (CHOOSE c \in own : \A d \in own : c.sequence <= d.sequence).quantity

\* effectivePurchaseQuantitySql: the last correction counts.
Effective(s, p) ==
    LET own == {c \in s.corrections : c.purchase = p}
    IN  IF own = {} THEN s.purchases[p].quantity
        ELSE (CHOOSE c \in own : \A d \in own : d.sequence <= c.sequence).quantity

PurchasesOf(s, i) == {p \in Purchases : s.purchases[p].item = i}

Total(s, i) ==
    SumFunctionOnSet([p \in Purchases |-> Effective(s, p)], PurchasesOf(s, i))

\* itemProgress
Progress(status, desired, purchased) ==
    [desired   |-> desired, purchased |-> purchased,
     status    |-> IF status = "REMOVED" THEN "REMOVED"
                   ELSE IF purchased = 0 THEN "PENDING"
                   ELSE IF purchased < desired THEN "PARTIALLY_PURCHASED" ELSE "PURCHASED"]

\* What a command purchases in all: purchasedAfter, correctedPurchased.
PurchasedBy(c, seen) ==
    CASE c.kind = "PURCHASE" -> seen.total + c.quantity
      [] c.kind = "CORRECT"  -> (IF seen.total > seen.effective
                                 THEN seen.total - seen.effective ELSE 0) + c.quantity
      [] c.kind = "ADD"      -> 0
      [] OTHER               -> seen.total

-----------------------------------------------------------------------------
(***************************************************************************)
(* Locks and answers.                                                      *)
(***************************************************************************)
Free(r, on, mode) ==
    \A l \in locks : l.on = on /\ l.by # r => l.mode = "SHARE" /\ mode = "SHARE"

\* Mistake: a receipt is looked for while a twin may be on its way.
KeyLockNotTaken(r, key) == UNCHANGED locks

\* lockReceipt
LockKey(r, key) ==
    /\ Free(r, <<"KEY", key>>, "UPDATE")
    /\ locks' = locks \cup {[by |-> r, on |-> <<"KEY", key>>, mode |-> "UPDATE"]}

\* Mistake: the list that a task is linked to is read without a lock.
ListRead(r, list) == UNCHANGED locks

\* lockActive
LockList(r, list) ==
    /\ Free(r, <<"LIST", list>>, "SHARE")
    /\ locks' = locks \cup {[by |-> r, on |-> <<"LIST", list>>, mode |-> "SHARE"]}

Answer(r, answer) ==
    /\ request' = [request EXCEPT ![r] = [stage |-> "ANSWERED", command |-> @.command,
                                          expects |-> @.expects, answer |-> answer]]
    /\ locks' = {l \in locks : l.by # r}
    /\ UNCHANGED <<db, asked, lost>>

Goes(r, stage, read) ==
    /\ request' = [request EXCEPT ![r] = [stage |-> stage, command |-> @.command,
                                          expects |-> @.expects, seen |-> read]]
    /\ UNCHANGED <<db, asked, lost>>

-----------------------------------------------------------------------------
(***************************************************************************)
(* The clients.                                                            *)
(***************************************************************************)
\* What a client can name is what it has been shown.
Shown(c) ==
    /\ ~ IsNew(c) /\ ~ OnTask(c) => db.lists[c.list].version > 0
    /\ LinksTo(c) => db.lists[c.list].version > 0
    /\ OnItem(c) => db.items[c.item].status # "NONE"
    /\ OnTask(c) => db.tasks[c.task].version > 0
    /\ c.kind = "CORRECT" => db.purchases[c.purchase].item = c.item

Begun(c, expects) ==
    [stage |-> "KEY", command |-> c, expects |-> expects,
     seen |-> [status |-> "NONE", desired |-> 0, total |-> 0, effective |-> 0]]

Ask(r, c) ==
    /\ asked < MaxAsked
    /\ request[r].stage \in {"IDLE", "ANSWERED"}
    /\ Shown(c)
    /\ request' = [request EXCEPT ![r] =
           Begun(c, IF OnTask(c) THEN db.tasks[c.task].version
                    ELSE IF IsNew(c) THEN 0 ELSE db.lists[c.list].version)]
    /\ asked' = asked + 1
    /\ UNCHANGED <<db, locks, lost>>

\* A request is repeated while its twin is on its way, or after it.
AskAgain(r, twin) ==
    /\ asked < MaxAsked
    /\ request[r].stage \in {"IDLE", "ANSWERED"}
    /\ r # twin /\ request[twin].stage # "IDLE"
    /\ request' = [request EXCEPT ![r] = Begun(request[twin].command, request[twin].expects)]
    /\ asked' = asked + 1
    /\ UNCHANGED <<db, locks, lost>>

\* The connection is lost: what was not committed is rolled back, and the client, who
\* does not know, asks again.
Lose(r) ==
    /\ lost < MaxLost
    /\ request[r].stage # "IDLE"
    /\ request[r].stage = "ANSWERED" => request[r].answer # "REFUSED"
    /\ request' = [request EXCEPT ![r] = Begun(@.command, @.expects)]
    /\ locks' = {l \in locks : l.by # r}
    /\ lost' = lost + 1
    /\ UNCHANGED <<db, asked>>

-----------------------------------------------------------------------------
(***************************************************************************)
(* The transaction.                                                        *)
(***************************************************************************)
Command(r) == request[r].command

\* lockReceipt and receipt; a key is used for one command only.
Look(r) ==
    LET receipt == db.receipts[Command(r).key]
    IN  /\ request[r].stage = "KEY"
        /\ IF receipt = NoReceipt
           THEN LockKey(r, Command(r).key) /\ Goes(r, "SPACE", request[r].seen)
           ELSE /\ Free(r, <<"KEY", Command(r).key>>, "UPDATE")
                /\ Answer(r, IF receipt.command = Command(r)
                                  /\ receipt.expects = request[r].expects
                             THEN "REPLAYED" ELSE "KEY_REUSED")

\* lockForWrite
ShareSpace(r) ==
    /\ request[r].stage = "SPACE"
    /\ IF db.space # "ACTIVE" THEN Answer(r, "REFUSED")
       ELSE /\ Goes(r, IF Command(r).kind = "CREATE" THEN "COMMIT"
                       ELSE IF Command(r).kind = "CREATE_TASK" THEN "LIST" ELSE "FIND",
                    request[r].seen)
            /\ locks' = locks \cup {[by |-> r, on |-> <<"SPACE">>, mode |-> "SHARE"]}

\* find: the list, or the task, in the version that the client named.
Find(r) ==
    LET c == Command(r)
    IN  /\ request[r].stage = "FIND"
        /\ IF IF OnTask(c) THEN db.tasks[c.task].version # request[r].expects
              ELSE \/ db.lists[c.list].version # request[r].expects
                   \/ db.lists[c.list].status # "ACTIVE"
           THEN Answer(r, "REFUSED")
           ELSE /\ Goes(r, IF OnItem(c) THEN "ITEM" ELSE IF OnTask(c) THEN "LIST" ELSE "UPDATE",
                        request[r].seen)
                /\ UNCHANGED locks

\* findItem: the row, and then the sum of its purchases.
FindItem(r) ==
    LET item == db.items[Command(r).item]
    IN  /\ request[r].stage = "ITEM"
        /\ IF item.status # "ACTIVE" THEN Answer(r, "REFUSED")
           ELSE /\ Goes(r, "TOTAL", [request[r].seen EXCEPT !.status = item.status,
                                                          !.desired = item.desired])
                /\ UNCHANGED locks

SumPurchases(r) ==
    /\ request[r].stage = "TOTAL"
    /\ Goes(r, IF Command(r).kind = "CORRECT" THEN "PURCHASE" ELSE "CHECK",
            [request[r].seen EXCEPT !.total = Total(db, Command(r).item)])
    /\ UNCHANGED locks

FindPurchase(r) ==
    /\ request[r].stage = "PURCHASE"
    /\ Goes(r, "CHECK",
            [request[r].seen EXCEPT !.effective = Effective(db, Command(r).purchase)])
    /\ UNCHANGED locks

\* changeItemNeed, Quantity.add and correctedPurchased.
TooMuch(c, seen) ==
    \/ PurchasedBy(c, seen) > MaxQuantity
    \/ c.kind = "CORRECT" /\ seen.effective > seen.total
    \/ c.kind = "NEED" /\ c.quantity < seen.desired /\ c.quantity < seen.total

Check(r) ==
    LET c == Command(r)
        seen == request[r].seen
    IN  /\ request[r].stage = "CHECK"
        /\ IF TooMuch(c, seen) THEN Answer(r, "REFUSED")
           ELSE Goes(r, "UPDATE", seen) /\ UNCHANGED locks

\* lockActive: nobody archives the list until the link is committed.
FindList(r) ==
    LET c == Command(r)
    IN  /\ request[r].stage = "LIST"
        /\ IF ~ LinksTo(c) THEN Goes(r, "UPDATE", request[r].seen) /\ UNCHANGED locks
           ELSE IF db.lists[c.list].status # "ACTIVE"
           THEN Free(r, <<"LIST", c.list>>, "SHARE") /\ Answer(r, "REFUSED")
           ELSE LockList(r, c.list) /\ Goes(r, "UPDATE", request[r].seen)

\* update: the row, if it is still in the version that was read.
Update(r) ==
    LET c  == Command(r)
        on == IF OnTask(c) THEN <<"TASK", c.task>> ELSE <<"LIST", c.list>>
    IN  /\ request[r].stage = "UPDATE"
        /\ IF c.kind = "CREATE_TASK" THEN Goes(r, "COMMIT", request[r].seen) /\ UNCHANGED locks
           ELSE /\ Free(r, on, "UPDATE")
                /\ IF request[r].expects # (IF OnTask(c) THEN db.tasks[c.task].version
                                            ELSE db.lists[c.list].version)
                   THEN Answer(r, "REFUSED")
                   ELSE /\ Goes(r, "COMMIT", request[r].seen)
                        /\ locks' = locks \cup {[by |-> r, on |-> on, mode |-> "UPDATE"]}

\* What a command leaves, once the row of its list or of its task is its own.
Created(s, c)           == [s EXCEPT !.lists[c.list] = [status |-> "ACTIVE", version |-> 1]]
Renamed(s, c, version)  == [s EXCEPT !.lists[c.list].version = version]
Archived(s, c, version) == [s EXCEPT !.lists[c.list] = [status |-> "ARCHIVED",
                                                        version |-> version]]

Added(s, c, version) ==
    [Renamed(s, c, version) EXCEPT !.items[c.item] = [status |-> "ACTIVE",
                                                      desired |-> c.quantity]]

NeedChanged(s, c, version) ==
    [Renamed(s, c, version) EXCEPT !.items[c.item].desired = c.quantity]

Removed(s, c, version, seen) ==
    [Renamed(s, c, version) EXCEPT !.items[c.item] = [status |-> "REMOVED",
                                                      desired |-> seen.desired]]

Purchased(s, c, version) ==
    [Renamed(s, c, version) EXCEPT !.purchases[c.purchase] = [item |-> c.item,
                                                              quantity |-> c.quantity]]

Corrected(s, c, version) ==
    [Renamed(s, c, version) EXCEPT
        !.corrections = @ \cup {[purchase |-> c.purchase, quantity |-> c.quantity,
                                 sequence |-> version]}]

Linked(s, c, version) ==
    [s EXCEPT !.tasks[c.task] = [list |-> c.list, version |-> version]]

Written(s, c, version, seen) ==
    CASE c.kind = "CREATE"   -> Created(s, c)
      [] c.kind = "RENAME"   -> Renamed(s, c, version)
      [] c.kind = "ARCHIVE"  -> Archived(s, c, version)
      [] c.kind = "ADD"      -> Added(s, c, version)
      [] c.kind = "NEED"     -> NeedChanged(s, c, version)
      [] c.kind = "REMOVE"   -> Removed(s, c, version, seen)
      [] c.kind = "PURCHASE" -> Purchased(s, c, version)
      [] c.kind = "CORRECT"  -> Corrected(s, c, version)
      [] OTHER               -> Linked(s, c, version)

\* The answer that is kept with the receipt.
Result(c, version, seen) ==
    [version |-> version,
     item |-> IF About(c)
              THEN Progress(IF c.kind = "REMOVE" THEN "REMOVED" ELSE "ACTIVE",
                            IF c.kind \in {"ADD", "NEED"} THEN c.quantity ELSE seen.desired,
                            PurchasedBy(c, seen))
              ELSE Progress("REMOVED", 0, 0)]

Commit(r) ==
    LET c       == Command(r)
        seen    == request[r].seen
        version == request[r].expects + 1
        s       == Written(db, c, version, seen)
    IN  /\ request[r].stage = "COMMIT"
        /\ IF db.receipts[c.key] # NoReceipt THEN Answer(r, "REFUSED")
           ELSE /\ db' = [s EXCEPT
                       !.history = IF OnTask(c) \/ c.kind = "CREATE_TASK" THEN @
                                   ELSE @ \cup {[sequence |-> version, command |-> c]},
                       !.receipts[c.key] = [status |-> "KEPT", command |-> c,
                                            expects |-> request[r].expects,
                                            result |-> Result(c, version, seen)]]
                /\ request' = [request EXCEPT ![r] =
                       [stage |-> "ANSWERED", command |-> c, expects |-> @.expects,
                        answer |-> "APPLIED"]]
                /\ locks' = {l \in locks : l.by # r}
                /\ UNCHANGED <<asked, lost>>

\* The closure of the space waits for the commands, and archives the lists.
Close ==
    /\ db.space = "ACTIVE"
    /\ \A l \in locks : l.on # <<"SPACE">>
    /\ db' = [db EXCEPT
           !.space = "CLOSED",
           !.lists = [l \in Lists |-> IF @[l].status = "ACTIVE"
                                      THEN [status |-> "ARCHIVED", version |-> @[l].version + 1]
                                      ELSE @[l]]]
    /\ UNCHANGED <<request, locks, asked, lost>>

Next ==
    \/ \E r \in Requests :
          \/ \E c \in Commands : Ask(r, c)
          \/ \E twin \in Requests : AskAgain(r, twin)
          \/ Lose(r) \/ Look(r) \/ ShareSpace(r) \/ Find(r) \/ FindItem(r)
          \/ SumPurchases(r) \/ FindPurchase(r) \/ Check(r) \/ FindList(r)
          \/ Update(r) \/ Commit(r)
    \/ Close

Spec == Init /\ [][Next]_vars

-----------------------------------------------------------------------------
(***************************************************************************)
(* Properties.                                                             *)
(***************************************************************************)
\* What a history tells of an item up to a version, by events of some kinds.
Told(history, c, version, kinds) ==
    {e \in history : /\ e.command.list = c.list /\ e.command.item = c.item
                     /\ e.sequence <= version /\ e.command.kind \in kinds}

LastOf(events) == CHOOSE e \in events : \A f \in events : f.sequence <= e.sequence

RetoldOf(history, c, version, p) ==
    LastOf({e \in Told(history, c, version, {"PURCHASE", "CORRECT"}) :
                e.command.purchase = p}).command.quantity

Retold(history, c, version) ==
    Progress(IF Told(history, c, version, {"REMOVE"}) = {} THEN "ACTIVE" ELSE "REMOVED",
             LastOf(Told(history, c, version, {"ADD", "NEED"})).command.quantity,
             SumFunctionOnSet(
                 [p \in Purchases |-> RetoldOf(history, c, version, p)],
                 {e.command.purchase : e \in Told(history, c, version, {"PURCHASE"})}))

\* Whatever runs at the same time, the answer kept for a command on an item is what
\* the history of the list tells as of the version of the answer: computed from reads
\* without a lock, it counts every purchase and correction before it, each once.
AnswersAreRetold ==
    \A k \in Keys :
        LET receipt == db.receipts[k]
        IN  receipt # NoReceipt /\ About(receipt.command) =>
                /\ receipt.result.item =
                       Retold(db.history, receipt.command, receipt.result.version)
                /\ receipt.result.item.purchased <= MaxQuantity

\* Who is told that a command was refused can rely on it: it has had no effect, not
\* even in a twin of the request or in one whose connection was lost.
RefusedHadNoEffect ==
    \A r \in Requests :
        (request[r].stage = "ANSWERED" /\ request[r].answer = "REFUSED") =>
            LET receipt == db.receipts[Command(r).key]
            IN  receipt = NoReceipt \/ receipt.command # Command(r)
                    \/ receipt.expects # request[r].expects

\* A task is linked to a list only while the list is not archived, though both are
\* changed by commands that only share the space.
LinkedWhileActive ==
    [][\A t \in Tasks :
          db.tasks[t].list # db'.tasks[t].list /\ db'.tasks[t].list # NoList =>
              db'.lists[db'.tasks[t].list].status = "ACTIVE"]_vars
=============================================================================
