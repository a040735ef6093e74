------------------------ MODULE ShoppingListsProofs ------------------------
(***************************************************************************)
(* What is proved of ShoppingLists, for any commands, lists, items,        *)
(* purchases and tasks, and any number of requests that interleave.        *)
(***************************************************************************)
EXTENDS ShoppingLists, SumTheorems, TLAPS

-----------------------------------------------------------------------------
(***************************************************************************)
(* The invariant: the rows.                                                *)
(***************************************************************************)
Kinds    == {"CREATE", "CREATE_TASK", "RENAME", "ARCHIVE", "ADD", "NEED", "REMOVE",
             "PURCHASE", "CORRECT", "LINK", "UNLINK"}
ListRows == [status : {"NONE", "ACTIVE", "ARCHIVED"}, version : Nat]
ItemRows == [status : {"NONE", "ACTIVE", "REMOVED"}, desired : Nat]
Bought   == [item : Items \cup {NoItem}, quantity : Nat]
TaskRows == [list : Lists \cup {NoList}, version : Nat]
Corrections == [purchase : Purchases, quantity : Nat, sequence : Nat]
Events   == [sequence : Nat, command : Commands]
Results  == [version : Nat,
             item : [desired : Nat, purchased : Nat,
                     status : {"REMOVED", "PENDING", "PARTIALLY_PURCHASED", "PURCHASED"}]]
Receipts == {NoReceipt} \cup
            [status : {"KEPT"}, command : Commands, expects : Nat, result : Results]
Tables   == [space       : {"ACTIVE", "CLOSED"},
             lists       : [Lists -> ListRows],
             items       : [Items -> ItemRows],
             purchases   : [Purchases -> Bought],
             corrections : SUBSET Corrections,
             tasks       : [Tasks -> TaskRows],
             history     : SUBSET Events,
             receipts    : [Keys -> Receipts]]

ChangesList(c) == c.kind \notin {"CREATE", "CREATE_TASK", "LINK", "UNLINK"}

\* The id of what a command creates is taken once it was carried out.
Made(d) ==
    \A c \in Commands :
        \/ d.receipts[c.key] # NoReceipt
        \/ /\ c.kind = "CREATE" => d.lists[c.list].version = 0
           /\ c.kind = "CREATE_TASK" => d.tasks[c.task].version = 0
           /\ c.kind = "ADD" => d.items[c.item].status = "NONE"
           /\ c.kind = "PURCHASE" => d.purchases[c.purchase].item = NoItem

\* The history of a list numbers its commands by the version they left.
Numbered(d) ==
    /\ \A l \in Lists : d.lists[l].version = 0 <=> d.lists[l].status = "NONE"
    /\ \A e \in d.history :
           /\ e.command.list \in Lists
           /\ e.sequence <= d.lists[e.command.list].version
           /\ About(e.command) => d.items[e.command.item].status # "NONE"

\* What is purchased and corrected is of an item, and was told.
Placed(d) ==
    /\ \A p \in Purchases : Effective(d, p) \in Nat
    /\ \A p \in Purchases :
           d.purchases[p].item # NoItem => d.items[d.purchases[p].item].status # "NONE"
    /\ \A x \in d.corrections :
           \E e \in d.history :
               /\ e.command.kind = "CORRECT" /\ e.command.purchase = x.purchase
               /\ e.sequence = x.sequence
               /\ d.purchases[x.purchase].item = e.command.item

\* The history tells what the rows of an item hold.
EventsOf(d, c, kinds) ==
    {e \in d.history : /\ e.command.list = c.list /\ e.command.item = c.item
                       /\ e.command.kind \in kinds}

ToldOf(d, c, p) ==
    LastOf({e \in EventsOf(d, c, {"PURCHASE", "CORRECT"}) : e.command.purchase = p})

TellsItem(d, c) ==
    /\ EventsOf(d, c, {"REMOVE"}) = {} <=> d.items[c.item].status = "ACTIVE"
    /\ LastOf(EventsOf(d, c, {"ADD", "NEED"})).command.quantity = d.items[c.item].desired

TellsPurchases(d, c) ==
    /\ {e.command.purchase : e \in EventsOf(d, c, {"PURCHASE"})} = PurchasesOf(d, c.item)
    /\ \A p \in PurchasesOf(d, c.item) :
           ToldOf(d, c, p).command.quantity = Effective(d, p)

Tells(d) ==
    \A c \in Commands : About(c) /\ d.items[c.item].status # "NONE" =>
        TellsItem(d, c) /\ TellsPurchases(d, c)

ReceiptOK(d, k) ==
    LET receipt == d.receipts[k]
        c       == receipt.command
    IN  receipt # NoReceipt /\ About(c) =>
            /\ receipt.result.version <= d.lists[c.list].version
            /\ receipt.result.item = Retold(d.history, c, receipt.result.version)
            /\ receipt.result.item.purchased <= MaxQuantity

RowsOK(d) ==
    /\ d \in Tables
    /\ Made(d) /\ Numbered(d) /\ Placed(d) /\ Tells(d)
    /\ \A k \in Keys : ReceiptOK(d, k)

-----------------------------------------------------------------------------
(***************************************************************************)
(* The invariant: what a request knows.                                    *)
(***************************************************************************)
InItem   == {"TOTAL", "PURCHASE", "CHECK", "UPDATE", "COMMIT"}
InList   == InItem \cup {"ITEM"}
InSpace  == InList \cup {"FIND", "LIST"}
InKey    == InSpace \cup {"SPACE"}
Seen     == [status : {"NONE", "ACTIVE"}, desired : Nat, total : Nat, effective : Nat]
Running  == [stage : InKey \cup {"KEY"}, command : Commands, expects : Nat, seen : Seen]
Answered == [stage : {"ANSWERED"}, command : Commands, expects : Nat,
             answer : {"REPLAYED", "KEY_REUSED", "REFUSED", "APPLIED"}]

\* A command goes through the statements of its own.
OnItsWay(stage, c) ==
    /\ stage \in InSpace => c.kind # "CREATE" \/ stage = "COMMIT"
    /\ stage \in {"FIND", "ITEM", "TOTAL", "PURCHASE", "CHECK"} => ~ IsNew(c)
    /\ stage = "LIST" => c.kind = "CREATE_TASK" \/ OnTask(c)
    /\ stage \in {"ITEM", "TOTAL", "PURCHASE", "CHECK"} => OnItem(c)
    /\ stage = "PURCHASE" => c.kind = "CORRECT"

\* What was shown to the client is there.
Asked(d, c, expects) ==
    /\ IsNew(c) => expects = 0
    /\ ChangesList(c) => expects \in 1 .. d.lists[c.list].version
    /\ OnTask(c) => expects \in 1 .. d.tasks[c.task].version
    /\ LinksTo(c) => d.lists[c.list].version > 0
    /\ OnItem(c) => d.items[c.item].status # "NONE"
    /\ c.kind = "CORRECT" => d.purchases[c.purchase].item = c.item

Holds(L, r, on, mode) == [by |-> r, on |-> on, mode |-> mode] \in L

\* What the locks keep as it is.
Kept(d, L, r, stage, c, expects) ==
    /\ stage \in InKey => /\ Holds(L, r, <<"KEY", c.key>>, "UPDATE")
                          /\ d.receipts[c.key] = NoReceipt
    /\ stage \in InSpace => Holds(L, r, <<"SPACE">>, "SHARE") /\ d.space = "ACTIVE"
    /\ stage \in {"UPDATE", "COMMIT"} /\ LinksTo(c) =>
           /\ Holds(L, r, <<"LIST", c.list>>, "SHARE")
           /\ d.lists[c.list].status = "ACTIVE"
    /\ stage = "COMMIT" /\ ChangesList(c) =>
           /\ Holds(L, r, <<"LIST", c.list>>, "UPDATE")
           /\ d.lists[c.list].version = expects
    /\ stage = "COMMIT" /\ OnTask(c) =>
           /\ Holds(L, r, <<"TASK", c.task>>, "UPDATE")
           /\ d.tasks[c.task].version = expects

\* What was read without a lock is as it was, unless the version of the list moved.
SeenAs(d, stage, c, expects, seen) ==
    /\ ChangesList(c) /\ stage \in InList /\ d.lists[c.list].version = expects =>
           d.lists[c.list].status = "ACTIVE"
    /\ OnItem(c) /\ stage \in InItem /\ d.lists[c.list].version = expects =>
           /\ d.items[c.item].status = "ACTIVE"
           /\ seen.desired = d.items[c.item].desired
           /\ stage # "TOTAL" => seen.total = Total(d, c.item)
           /\ stage \notin {"TOTAL", "PURCHASE"} /\ c.kind = "CORRECT" =>
                  seen.effective = Effective(d, c.purchase)
    /\ OnItem(c) /\ stage \in {"UPDATE", "COMMIT"} => ~ TooMuch(c, seen)

\* A command that names what it names can never be carried out any more.
Now(d, c) == [desired |-> d.items[c.item].desired, total |-> Total(d, c.item),
              effective |-> Effective(d, c.purchase)]

Outdated(d, c, expects) ==
    \/ d.space = "CLOSED"
    \/ LinksTo(c) /\ d.lists[c.list].status = "ARCHIVED"
    \/ OnTask(c) /\ d.tasks[c.task].version > expects
    \/ /\ ChangesList(c)
       /\ \/ d.lists[c.list].version > expects
          \/ d.lists[c.list].status = "ARCHIVED"
          \/ OnItem(c) /\ (d.items[c.item].status = "REMOVED" \/ TooMuch(c, Now(d, c)))

Carried(d, c, expects) ==
    LET receipt == d.receipts[c.key]
    IN  receipt # NoReceipt /\ receipt.command = c /\ receipt.expects = expects

RequestOK(d, L, r, row) ==
    \/ row = Nobody
    \/ /\ row \in Running
       /\ OnItsWay(row.stage, row.command)
       /\ Asked(d, row.command, row.expects)
       /\ Kept(d, L, r, row.stage, row.command, row.expects)
       /\ SeenAs(d, row.stage, row.command, row.expects, row.seen)
    \/ /\ row \in Answered
       /\ Asked(d, row.command, row.expects)
       /\ row.answer = "REFUSED" => /\ Outdated(d, row.command, row.expects)
                                    /\ ~ Carried(d, row.command, row.expects)

LocksOK(L) ==
    /\ \A l, m \in L :
           l.on = m.on /\ l.by # m.by => l.mode = "SHARE" /\ m.mode = "SHARE"
    /\ \A l \in L : l.on = <<"SPACE">> => l.mode = "SHARE"

Inv ==
    /\ RowsOK(db)
    /\ DOMAIN request = Requests
    /\ \A r \in Requests : RequestOK(db, locks, r, request[r])
    /\ LocksOK(locks)

-----------------------------------------------------------------------------
(***************************************************************************)
(* Commands and rows.                                                      *)
(***************************************************************************)
TouchesList(c) == ChangesList(c) \/ c.kind = "CREATE"
TouchesTask(c) == OnTask(c) \/ c.kind = "CREATE_TASK"

LEMMA CommandTypes ==
    ASSUME NEW c \in Commands
    PROVE  /\ c.kind \in Kinds
           /\ c.key \in Keys /\ c.item \in Items /\ c.purchase \in Purchases
           /\ c.task \in Tasks /\ c.quantity \in Nat
           /\ c.list \in Lists \cup {NoList}
           /\ TouchesList(c) \/ LinksTo(c) => c.list \in Lists
           /\ About(c) => ChangesList(c)
           /\ OnItem(c) => About(c)
           /\ TouchesTask(c) <=> ~ TouchesList(c)
           /\ c.kind = "CREATE" \/ c.kind = "CREATE_TASK" \/ ChangesList(c) \/ OnTask(c)
           /\ ChangesList(c) => ~ OnTask(c) /\ ~ IsNew(c)
           /\ OnTask(c) => ~ IsNew(c)
BY CommandsAssumption
DEF Kinds, TouchesList, TouchesTask, LinksTo, About, OnItem, OnTask, ChangesList, IsNew

LEMMA RowTypes ==
    ASSUME NEW d \in Tables
    PROVE  /\ \A l \in Lists : d.lists[l] \in ListRows
           /\ \A i \in Items : d.items[i] \in ItemRows
           /\ \A p \in Purchases : d.purchases[p] \in Bought
           /\ \A t \in Tasks : d.tasks[t] \in TaskRows
           /\ \A k \in Keys : d.receipts[k] \in Receipts
           /\ d.corrections \in SUBSET Corrections
           /\ d.history \in SUBSET Events
           /\ d.space \in {"ACTIVE", "CLOSED"}
BY DEF Tables

\* What all the purchases of an item come to.
LEMMA TotalIsNat ==
    ASSUME NEW d, Placed(d), NEW i
    PROVE  Total(d, i) \in Nat
<1> DEFINE f == [p \in Purchases |-> Effective(d, p)]
<1>1. \A p \in PurchasesOf(d, i) : f[p] \in Nat
  BY DEF Placed, PurchasesOf
<1>2. IsFiniteSet(PurchasesOf(d, i))
  BY BoundsAssumption, FS_Subset DEF PurchasesOf
<1>3. 0 \in Nat /\ Nat \in SUBSET Int /\ \A a, b \in Nat : a + b \in Nat
  OBVIOUS
<1>4. SumFunctionOnSet(f, PurchasesOf(d, i)) \in Nat
  BY <1>1, <1>2, <1>3, SumIsIn
<1> QED
  BY <1>4 DEF Total

-----------------------------------------------------------------------------
(***************************************************************************)
(* How the rows change: nothing that a version was given to changes under  *)
(* it, and nothing is undone.                                              *)
(***************************************************************************)
Grows(d, e) ==
    /\ d.space = "CLOSED" => e.space = "CLOSED"
    /\ \A l \in Lists :
           /\ d.lists[l].version <= e.lists[l].version
           /\ d.lists[l].version = e.lists[l].version => d.lists[l] = e.lists[l]
           /\ d.lists[l].status = "ARCHIVED" => e.lists[l].status = "ARCHIVED"
    /\ \A t \in Tasks : d.tasks[t].version <= e.tasks[t].version
    /\ \A k \in Keys : d.receipts[k] # NoReceipt => e.receipts[k] = d.receipts[k]
    /\ \A i \in Items : d.items[i].status # "NONE" => e.items[i].status # "NONE"
    /\ \A p \in Purchases :
           d.purchases[p].item # NoItem => e.purchases[p].item = d.purchases[p].item
    /\ \A c \in Commands :
           OnItem(c) /\ d.lists[c.list].version = e.lists[c.list].version =>
               /\ e.items[c.item] = d.items[c.item]
               /\ Total(e, c.item) = Total(d, c.item)
               /\ d.purchases[c.purchase].item = c.item =>
                      Effective(e, c.purchase) = Effective(d, c.purchase)

\* What was shown to a client stays.
LEMMA AskedGrows ==
    ASSUME NEW d \in Tables, NEW e \in Tables, Grows(d, e),
           NEW c \in Commands, NEW x \in Nat, Asked(d, c, x)
    PROVE  Asked(e, c, x)
<1>1. ASSUME NEW l \in Lists
      PROVE  /\ d.lists[l].version \in Nat /\ e.lists[l].version \in Nat
             /\ d.lists[l].version <= e.lists[l].version
  BY RowTypes DEF ListRows, Grows
<1>2. ASSUME NEW t \in Tasks
      PROVE  /\ d.tasks[t].version \in Nat /\ e.tasks[t].version \in Nat
             /\ d.tasks[t].version <= e.tasks[t].version
  BY RowTypes DEF TaskRows, Grows
<1>3. ChangesList(c) \/ LinksTo(c) => c.list \in Lists
  BY CommandTypes DEF TouchesList
<1>4. c.item \in Items /\ c.task \in Tasks /\ c.purchase \in Purchases /\ c.item # NoItem
  BY CommandTypes, CommandsAssumption
<1>5. OnItem(c) => e.items[c.item].status # "NONE"
  BY <1>4 DEF Asked, Grows
<1>6. c.kind = "CORRECT" => e.purchases[c.purchase].item = c.item
  BY <1>4 DEF Asked, Grows
<1>7. ChangesList(c) => x \in 1 .. e.lists[c.list].version
  BY <1>1, <1>3 DEF Asked
<1>8. OnTask(c) => x \in 1 .. e.tasks[c.task].version
  BY <1>2, <1>4 DEF Asked
<1>9. LinksTo(c) => e.lists[c.list].version > 0
  BY <1>1, <1>3 DEF Asked
<1> QED
  BY <1>5, <1>6, <1>7, <1>8, <1>9 DEF Asked

\* What can never be carried out stays so.
LEMMA OutdatedGrows ==
    ASSUME NEW d \in Tables, NEW e \in Tables, Grows(d, e),
           NEW c \in Commands, NEW x \in Nat, Asked(d, c, x), Outdated(d, c, x)
    PROVE  Outdated(e, c, x)
<1>1. ASSUME NEW l \in Lists
      PROVE  /\ d.lists[l].version \in Nat /\ e.lists[l].version \in Nat
             /\ d.lists[l].version <= e.lists[l].version
  BY RowTypes DEF ListRows, Grows
<1>2. ASSUME NEW t \in Tasks
      PROVE  /\ d.tasks[t].version \in Nat /\ e.tasks[t].version \in Nat
             /\ d.tasks[t].version <= e.tasks[t].version
  BY RowTypes DEF TaskRows, Grows
<1>3. ChangesList(c) \/ LinksTo(c) => c.list \in Lists
  BY CommandTypes DEF TouchesList
<1>4. c.task \in Tasks
  BY CommandTypes
<1>5. CASE d.space = "CLOSED"
  BY <1>5 DEF Grows, Outdated
<1>6. CASE LinksTo(c) /\ d.lists[c.list].status = "ARCHIVED"
  BY <1>3, <1>6 DEF Grows, Outdated
<1>7. CASE OnTask(c) /\ d.tasks[c.task].version > x
  BY <1>2, <1>4, <1>7 DEF Outdated
<1>8. CASE ChangesList(c) /\ d.lists[c.list].version > x
  BY <1>1, <1>3, <1>8 DEF Outdated
<1>9. CASE ChangesList(c) /\ d.lists[c.list].status = "ARCHIVED"
  BY <1>3, <1>9 DEF Grows, Outdated
<1>10. CASE /\ ChangesList(c) /\ OnItem(c)
            /\ d.items[c.item].status = "REMOVED" \/ TooMuch(c, Now(d, c))
  <2>1. CASE d.lists[c.list].version # e.lists[c.list].version
    <3>1. e.lists[c.list].version > x
      BY <1>1, <1>3, <1>10, <2>1 DEF Asked
    <3> QED
      BY <1>10, <3>1 DEF Outdated
  <2>2. CASE d.lists[c.list].version = e.lists[c.list].version
    <3>1. /\ e.items[c.item] = d.items[c.item]
          /\ Total(e, c.item) = Total(d, c.item)
          /\ c.kind = "CORRECT" => Effective(e, c.purchase) = Effective(d, c.purchase)
      BY <1>10, <2>2 DEF Grows, Asked
    <3>2. TooMuch(c, Now(d, c)) => TooMuch(c, Now(e, c))
      BY <3>1 DEF TooMuch, PurchasedBy, Now
    <3> QED
      BY <1>10, <3>1, <3>2 DEF Outdated
  <2> QED
    BY <2>1, <2>2
<1> QED
  BY <1>5, <1>6, <1>7, <1>8, <1>9, <1>10 DEF Outdated

\* What was read stays as it was read, or the version of the list moved.
LEMMA SeenGrows ==
    ASSUME NEW d \in Tables, NEW e \in Tables, Grows(d, e),
           NEW c \in Commands, NEW x \in Nat, NEW stage, NEW seen,
           Asked(d, c, x), SeenAs(d, stage, c, x, seen)
    PROVE  SeenAs(e, stage, c, x, seen)
<1>1. /\ ChangesList(c) => c.list \in Lists
      /\ OnItem(c) => ChangesList(c)
  BY CommandTypes DEF TouchesList
<1>2. CASE ~ ChangesList(c)
  BY <1>1, <1>2 DEF SeenAs
<1>3. CASE ChangesList(c) /\ e.lists[c.list].version # x
  BY <1>3 DEF SeenAs
<1>4. CASE ChangesList(c) /\ e.lists[c.list].version = x
  <2>1. /\ d.lists[c.list].version \in Nat /\ e.lists[c.list].version \in Nat
        /\ d.lists[c.list].version <= e.lists[c.list].version
    BY <1>1, <1>4, RowTypes DEF ListRows, Grows
  <2>2. d.lists[c.list].version = e.lists[c.list].version
    BY <1>4, <2>1 DEF Asked
  <2>3. d.lists[c.list] = e.lists[c.list]
    BY <1>1, <1>4, <2>2 DEF Grows
  <2>4. OnItem(c) => /\ e.items[c.item] = d.items[c.item]
                     /\ Total(e, c.item) = Total(d, c.item)
                     /\ c.kind = "CORRECT" =>
                            Effective(e, c.purchase) = Effective(d, c.purchase)
    BY <2>2 DEF Grows, Asked
  <2> QED
    BY <2>3, <2>4 DEF SeenAs
<1> QED
  BY <1>2, <1>3, <1>4

-----------------------------------------------------------------------------
(***************************************************************************)
(* A step that changes no row: a request goes on, with a lock more perhaps *)
(* or none any more.                                                       *)
(***************************************************************************)
Moves(r) ==
    /\ db' = db
    /\ \E row : /\ request' = [request EXCEPT ![r] = row]
                /\ RequestOK(db, locks', r, row)
    /\ \A l \in locks : l.by # r => l \in locks'
    /\ LocksOK(locks')

\* What a request holds.
LEMMA Held ==
    ASSUME Inv, NEW r \in Requests
    PROVE  /\ db \in Tables /\ Placed(db) /\ Numbered(db)
           /\ RequestOK(db, locks, r, request[r])
           /\ request[r].stage \in InKey \cup {"KEY"} =>
                  /\ request[r] \in Running
                  /\ OnItsWay(request[r].stage, Command(r))
                  /\ Asked(db, Command(r), request[r].expects)
                  /\ Kept(db, locks, r, request[r].stage, Command(r), request[r].expects)
                  /\ SeenAs(db, request[r].stage, Command(r), request[r].expects,
                            request[r].seen)
                  /\ Command(r) \in Commands /\ request[r].expects \in Nat
                  /\ request[r].seen \in Seen
<1>1. RequestOK(db, locks, r, request[r])
  BY DEF Inv
<1>2. request[r].stage \in InKey \cup {"KEY"} => request[r] # Nobody /\ request[r] \notin Answered
  BY DEF Nobody, Answered, InKey, InSpace, InList, InItem
<1>3. request[r].stage \in InKey \cup {"KEY"} => request[r] \in Running
  BY <1>1, <1>2 DEF RequestOK
<1> QED
  BY <1>1, <1>2, <1>3 DEF Inv, RowsOK, RequestOK, Running, Command

\* Locks that stay are held by who held them.
LEMMA OthersKeep ==
    ASSUME NEW d, NEW L, NEW M, NEW r, NEW q, q # r, NEW row,
           \A l \in L : l.by # r => l \in M,
           RequestOK(d, L, q, row)
    PROVE  RequestOK(d, M, q, row)
<1>1. \A on, mode : Holds(L, q, on, mode) => Holds(M, q, on, mode)
  BY DEF Holds
<1>2. row \in Running =>
          (Kept(d, L, q, row.stage, row.command, row.expects) =>
              Kept(d, M, q, row.stage, row.command, row.expects))
  BY <1>1 DEF Kept
<1> QED
  BY <1>2 DEF RequestOK

LEMMA InvMoves ==
    ASSUME Inv, NEW r \in Requests, Moves(r)
    PROVE  Inv'
<1>1. PICK row : /\ request' = [request EXCEPT ![r] = row]
                 /\ RequestOK(db, locks', r, row)
  BY DEF Moves
<1>2. db' = db /\ LocksOK(locks') /\ \A l \in locks : l.by # r => l \in locks'
  BY DEF Moves
<1>3. DOMAIN request' = Requests /\ request'[r] = row
      /\ \A q \in Requests \ {r} : request'[q] = request[q]
  BY <1>1 DEF Inv
<1>4. \A q \in Requests : RequestOK(db, locks, q, request[q])
  BY DEF Inv
<1>5. ASSUME NEW q \in Requests
      PROVE  RequestOK(db, locks', q, request'[q])
  BY <1>1, <1>2, <1>3, <1>4, OthersKeep
<1>6. ASSUME NEW q \in Requests
      PROVE  RequestOK(db', locks', q, request'[q])
  BY <1>2, <1>5
<1>7. RowsOK(db')
  BY <1>2 DEF Inv
<1> QED
  BY <1>2, <1>3, <1>6, <1>7 DEF Inv

\* Locks that are given up, or taken while they are free, do not conflict.
LEMMA LocksFreed ==
    ASSUME LocksOK(locks), NEW r
    PROVE  LocksOK({l \in locks : l.by # r})
           /\ \A l \in locks : l.by # r => l \in {m \in locks : m.by # r}
BY DEF LocksOK

LEMMA LocksTaken ==
    ASSUME LocksOK(locks), NEW r, NEW on, NEW mode, Free(r, on, mode),
           on = <<"SPACE">> => mode = "SHARE"
    PROVE  LocksOK(locks \cup {[by |-> r, on |-> on, mode |-> mode]})
<1> DEFINE new == [by |-> r, on |-> on, mode |-> mode]
<1>1. new.by = r /\ new.on = on /\ new.mode = mode
  OBVIOUS
<1>2. \A l \in locks : l.on = new.on /\ l.by # new.by =>
          l.mode = "SHARE" /\ new.mode = "SHARE"
  BY <1>1 DEF Free
<1>3. new.on = <<"SPACE">> => new.mode = "SHARE"
  BY <1>1
<1> HIDE DEF new
<1>4. LocksOK(locks \cup {new})
  BY <1>2, <1>3 DEF LocksOK
<1> QED
  BY <1>4 DEF new

\* A request that is answered, or begins again, gives up what it holds.
LEMMA AnswerMoves ==
    ASSUME Inv, NEW r \in Requests, request[r].stage \in InKey \cup {"KEY"},
           NEW answer \in {"REPLAYED", "KEY_REUSED", "REFUSED"}, Answer(r, answer),
           answer = "REFUSED" =>
               /\ Outdated(db, Command(r), request[r].expects)
               /\ ~ Carried(db, Command(r), request[r].expects)
    PROVE  Moves(r)
<1> DEFINE row == [stage |-> "ANSWERED", command |-> Command(r),
                   expects |-> request[r].expects, answer |-> answer]
<1>1. /\ request' = [request EXCEPT ![r] = row]
      /\ db' = db /\ locks' = {l \in locks : l.by # r}
  BY DEF Answer, Command, Inv
<1>2. row \in Answered
  BY Held DEF Answered
<1>3. /\ row.command = Command(r) /\ row.expects = request[r].expects
      /\ row.answer = answer
  OBVIOUS
<1> HIDE DEF row
<1>4. RequestOK(db, locks', r, row)
  BY <1>2, <1>3, Held DEF RequestOK
<1> QED
  BY <1>1, <1>4, LocksFreed DEF Moves, Inv

\* A request goes on to another statement.
LEMMA GoesMoves ==
    ASSUME Inv, NEW r \in Requests, request[r].stage \in InKey \cup {"KEY"},
           NEW stage \in InKey, NEW seen \in Seen, Goes(r, stage, seen),
           OnItsWay(stage, Command(r)),
           Kept(db, locks', r, stage, Command(r), request[r].expects),
           SeenAs(db, stage, Command(r), request[r].expects, seen),
           \A l \in locks : l.by # r => l \in locks',
           LocksOK(locks')
    PROVE  Moves(r)
<1> DEFINE row == [stage |-> stage, command |-> Command(r),
                   expects |-> request[r].expects, seen |-> seen]
<1>2. request' = [request EXCEPT ![r] = row] /\ db' = db
  BY DEF Goes, Command
<1>3. row \in Running
  BY Held DEF Running
<1>4. /\ row.stage = stage /\ row.command = Command(r) /\ row.seen = seen
      /\ row.expects = request[r].expects
  OBVIOUS
<1> HIDE DEF row
<1>5. RequestOK(db, locks', r, row)
  BY <1>3, <1>4, Held DEF RequestOK
<1> QED
  BY <1>2, <1>5 DEF Moves

-----------------------------------------------------------------------------
(***************************************************************************)
(* The clients.                                                            *)
(***************************************************************************)
LEMMA BegunOK ==
    ASSUME NEW L, NEW r, NEW c \in Commands, NEW x \in Nat, Asked(db, c, x)
    PROVE  RequestOK(db, L, r, Begun(c, x))
<1> DEFINE row == Begun(c, x)
<1>1. row \in Running
  BY DEF Begun, Running, Seen
<1>2. row.stage = "KEY" /\ row.command = c /\ row.expects = x
  BY DEF Begun
<1> HIDE DEF row
<1>3. /\ OnItsWay(row.stage, c) /\ Kept(db, L, r, row.stage, c, x)
      /\ SeenAs(db, row.stage, c, x, row.seen)
  BY <1>2 DEF OnItsWay, Kept, SeenAs, InKey, InSpace, InList, InItem
<1>4. RequestOK(db, L, r, row)
  BY <1>1, <1>2, <1>3 DEF RequestOK
<1> QED
  BY <1>4 DEF row

\* A request that is not idle is one that was asked.
LEMMA AskedBefore ==
    ASSUME Inv, NEW r \in Requests, request[r].stage # "IDLE"
    PROVE  /\ request[r].command \in Commands /\ request[r].expects \in Nat
           /\ Asked(db, request[r].command, request[r].expects)
BY Held DEF RequestOK, Nobody, Running, Answered

LEMMA AskMoves ==
    ASSUME Inv, NEW r \in Requests, NEW c \in Commands, Ask(r, c)
    PROVE  Moves(r)
<1> DEFINE x == IF OnTask(c) THEN db.tasks[c.task].version
                ELSE IF IsNew(c) THEN 0 ELSE db.lists[c.list].version
<1>1. /\ request' = [request EXCEPT ![r] = Begun(c, x)]
      /\ db' = db /\ locks' = locks /\ Shown(c)
  BY DEF Ask
<1>2. /\ db.tasks[c.task].version \in Nat
      /\ ChangesList(c) => db.lists[c.list].version \in Nat
  BY Held, RowTypes, CommandTypes DEF TaskRows, ListRows, TouchesList
<1>3. OnTask(c) \/ IsNew(c) \/ ChangesList(c)
  BY CommandTypes DEF IsNew
<1>4. x \in Nat
  BY <1>2, <1>3
<1>5. /\ OnTask(c) => x = db.tasks[c.task].version /\ x > 0
      /\ ChangesList(c) => x = db.lists[c.list].version /\ x > 0
      /\ IsNew(c) => x = 0
  BY <1>1, CommandTypes DEF Shown
<1> HIDE DEF x
<1>6. Asked(db, c, x)
  BY <1>1, <1>2, <1>4, <1>5 DEF Asked, Shown
<1> QED
  BY <1>1, <1>4, <1>6, BegunOK DEF Moves, Inv

LEMMA AskAgainMoves ==
    ASSUME Inv, NEW r \in Requests, NEW twin \in Requests, AskAgain(r, twin)
    PROVE  Moves(r)
<1>1. /\ request' = [request EXCEPT ![r] = Begun(request[twin].command, request[twin].expects)]
      /\ db' = db /\ locks' = locks /\ request[twin].stage # "IDLE"
  BY DEF AskAgain
<1> QED
  BY <1>1, AskedBefore, BegunOK DEF Moves, Inv

LEMMA LoseMoves ==
    ASSUME Inv, NEW r \in Requests, Lose(r)
    PROVE  Moves(r)
<1>1. /\ request' = [request EXCEPT ![r] = Begun(request[r].command, request[r].expects)]
      /\ db' = db /\ locks' = {l \in locks : l.by # r} /\ request[r].stage # "IDLE"
  BY DEF Lose
<1> QED
  BY <1>1, AskedBefore, BegunOK, LocksFreed DEF Moves, Inv

-----------------------------------------------------------------------------
(***************************************************************************)
(* The statements of a transaction.                                        *)
(***************************************************************************)
\* What a request knows survives the lock that it takes.
LEMMA KeptMore ==
    ASSUME NEW d, NEW L, NEW M, L \subseteq M, NEW r, NEW stage, NEW c, NEW x,
           Kept(d, L, r, stage, c, x)
    PROVE  Kept(d, M, r, stage, c, x)
BY DEF Kept, Holds

\* The receipt of its key is not there while a request runs.
LEMMA NotCarried ==
    ASSUME NEW d, NEW L, NEW r, NEW stage \in InKey, NEW c, NEW x, NEW y,
           Kept(d, L, r, stage, c, x)
    PROVE  ~ Carried(d, c, y)
BY DEF Kept, Carried

LEMMA LookMoves ==
    ASSUME Inv, NEW r \in Requests, Look(r)
    PROVE  Moves(r)
<1> DEFINE c   == Command(r)
           x   == request[r].expects
           key == <<"KEY", c.key>>
<1>1. request[r].stage = "KEY"
  BY DEF Look
<1>2. CASE db.receipts[c.key] = NoReceipt
  <2>1. /\ Free(r, key, "UPDATE") /\ Goes(r, "SPACE", request[r].seen)
        /\ locks' = locks \cup {[by |-> r, on |-> key, mode |-> "UPDATE"]}
    BY <1>2 DEF Look, LockKey
  <2>2. LocksOK(locks')
    BY <2>1, LocksTaken DEF Inv
  <2>3. Kept(db, locks', r, "SPACE", c, x)
    BY <1>2, <2>1 DEF Kept, Holds, InKey, InSpace, InList, InItem
  <2>4. OnItsWay("SPACE", c) /\ SeenAs(db, "SPACE", c, x, request[r].seen)
    BY DEF OnItsWay, SeenAs, InSpace, InList, InItem
  <2>5. "SPACE" \in InKey /\ request[r].stage \in InKey \cup {"KEY"}
    BY <1>1 DEF InKey
  <2> HIDE DEF c, x, key
  <2> QED
    BY <2>1, <2>2, <2>3, <2>4, <2>5, Held, GoesMoves DEF c, x
<1>3. CASE db.receipts[c.key] # NoReceipt
  <2>1. PICK answer \in {"REPLAYED", "KEY_REUSED"} : Answer(r, answer)
    BY <1>3 DEF Look
  <2> QED
    BY <1>1, <2>1, AnswerMoves
<1> QED
  BY <1>2, <1>3

LEMMA ShareSpaceMoves ==
    ASSUME Inv, NEW r \in Requests, ShareSpace(r)
    PROVE  Moves(r)
<1> DEFINE c    == Command(r)
           x    == request[r].expects
           seen == request[r].seen
           stage == IF c.kind = "CREATE" THEN "COMMIT"
                    ELSE IF c.kind = "CREATE_TASK" THEN "LIST" ELSE "FIND"
           new  == [by |-> r, on |-> <<"SPACE">>, mode |-> "SHARE"]
<1>1. request[r].stage = "SPACE" /\ "SPACE" \in InKey
  BY DEF ShareSpace, InKey
<1>2. CASE db.space # "ACTIVE"
  <2>1. Outdated(db, c, x)
    BY <1>2, Held, RowTypes DEF Outdated
  <2>2. ~ Carried(db, c, x)
    BY <1>1, Held, NotCarried
  <2>3. Answer(r, "REFUSED")
    BY <1>2 DEF ShareSpace
  <2> QED
    BY <1>1, <2>1, <2>2, <2>3, AnswerMoves
<1>3. CASE db.space = "ACTIVE"
  <2>1. Goes(r, stage, seen) /\ locks' = locks \cup {new}
    BY <1>3 DEF ShareSpace
  <2>2. LocksOK(locks')
    <3>1. Free(r, <<"SPACE">>, "SHARE")
      BY DEF Free, Inv, LocksOK
    <3> QED
      BY <2>1, <3>1, LocksTaken DEF Inv
  <2>3. Kept(db, locks, r, "SPACE", c, x) /\ c \in Commands
    BY <1>1, Held
  <2>4. stage \in InSpace /\ stage \in InKey /\ stage \notin {"UPDATE"}
        /\ stage \in {"FIND", "LIST", "COMMIT"}
        /\ (stage = "COMMIT" => c.kind = "CREATE")
        /\ (stage = "LIST" => c.kind = "CREATE_TASK")
        /\ (stage = "FIND" => ~ IsNew(c))
    BY DEF InKey, InSpace, InList, InItem, IsNew
  <2>5. c.kind = "CREATE" => ~ LinksTo(c) /\ ~ ChangesList(c) /\ ~ OnTask(c) /\ ~ OnItem(c)
    BY DEF LinksTo, ChangesList, OnTask, OnItem
  <2> HIDE DEF stage
  <2>6. Kept(db, locks', r, stage, c, x)
    BY <1>1, <1>3, <2>1, <2>3, <2>4, <2>5 DEF Kept, Holds
  <2>7. OnItsWay(stage, c)
    BY <2>4 DEF OnItsWay, IsNew
  <2>8. SeenAs(db, stage, c, x, seen)
    BY <2>4, <2>5, CommandTypes, <2>3 DEF SeenAs, InList, InItem
  <2> HIDE DEF c, x, seen
  <2> QED
    BY <1>1, <2>1, <2>2, <2>4, <2>6, <2>7, <2>8, Held, GoesMoves DEF c, x, seen
<1> QED
  BY <1>2, <1>3

\* The list, or the task, is as the client named it, or will never be again.
LEMMA FindMoves ==
    ASSUME Inv, NEW r \in Requests, Find(r)
    PROVE  Moves(r)
<1> DEFINE c     == Command(r)
           x     == request[r].expects
           seen  == request[r].seen
           stage == IF OnItem(c) THEN "ITEM" ELSE IF OnTask(c) THEN "LIST" ELSE "UPDATE"
           gone  == IF OnTask(c) THEN db.tasks[c.task].version # x
                    ELSE \/ db.lists[c.list].version # x
                         \/ db.lists[c.list].status # "ACTIVE"
<1>1. request[r].stage = "FIND" /\ "FIND" \in InKey
  BY DEF Find, InKey, InSpace
<1>2. /\ c \in Commands /\ x \in Nat /\ Asked(db, c, x) /\ ~ IsNew(c)
      /\ Kept(db, locks, r, "FIND", c, x)
  BY <1>1, Held DEF OnItsWay
<1>3. OnTask(c) \/ ChangesList(c)
  BY <1>2, CommandTypes DEF IsNew
<1>4. CASE gone
  <2>1. CASE OnTask(c)
    <3>1. db.tasks[c.task].version > x
      BY <1>2, <1>4, <2>1, Held, RowTypes, CommandTypes DEF Asked, TaskRows
    <3> QED
      BY <1>1, <1>2, <1>4, <2>1, <3>1, NotCarried, AnswerMoves DEF Outdated, Find
  <2>2. CASE ~ OnTask(c)
    <3>1. ChangesList(c) /\ c.list \in Lists /\ db.lists[c.list] \in ListRows
      BY <1>2, <1>3, <2>2, Held, RowTypes, CommandTypes DEF TouchesList
    <3>2. db.lists[c.list].version > x \/ db.lists[c.list].status = "ARCHIVED"
      BY <1>2, <1>4, <2>2, <3>1, Held DEF Asked, ListRows, Numbered
    <3>3. Answer(r, "REFUSED")
      BY <1>4, <2>2 DEF Find
    <3> QED
      BY <1>1, <1>2, <3>1, <3>2, <3>3, NotCarried, AnswerMoves DEF Outdated
  <2> QED
    BY <2>1, <2>2
<1>5. CASE ~ gone
  <2>1. Goes(r, stage, seen) /\ locks' = locks
    BY <1>5 DEF Find
  <2>2. /\ stage \in {"ITEM", "LIST", "UPDATE"} /\ stage \in InKey
        /\ stage = "ITEM" => OnItem(c)
        /\ stage = "LIST" => OnTask(c)
        /\ stage = "UPDATE" => ChangesList(c) /\ ~ OnItem(c) /\ ~ OnTask(c)
        /\ ~ LinksTo(c) \/ OnTask(c)
    BY <1>2, <1>3 DEF InKey, InSpace, InList, InItem, LinksTo, IsNew, OnTask
  <2>3. ChangesList(c) => ~ OnTask(c) /\ db.lists[c.list].status = "ACTIVE"
    BY <1>2, <1>5, CommandTypes
  <2> HIDE DEF stage, gone
  <2>4. Kept(db, locks', r, stage, c, x)
    BY <1>2, <2>1, <2>2, CommandTypes DEF Kept, InKey, InSpace
  <2>5. OnItsWay(stage, c)
    BY <1>2, <2>2 DEF OnItsWay, IsNew
  <2>6. SeenAs(db, stage, c, x, seen)
    BY <2>2, <2>3 DEF SeenAs, InItem
  <2>7. LocksOK(locks')
    BY <2>1 DEF Inv
  <2> HIDE DEF c, x, seen
  <2> QED
    BY <1>1, <2>1, <2>2, <2>4, <2>5, <2>6, <2>7, Held, GoesMoves DEF c, x, seen
<1> QED
  BY <1>4, <1>5

\* What a command on an item knows when it reads.
LEMMA OnItemHeld ==
    ASSUME Inv, NEW r \in Requests,
           request[r].stage \in {"ITEM", "TOTAL", "PURCHASE", "CHECK"}
    PROVE  LET c == Command(r)
           IN  /\ c \in Commands /\ OnItem(c) /\ ChangesList(c) /\ ~ IsNew(c)
               /\ ~ OnTask(c) /\ ~ LinksTo(c)
               /\ c.item \in Items /\ c.list \in Lists
               /\ Asked(db, c, request[r].expects)
               /\ db.lists[c.list].version \in Nat /\ request[r].expects \in Nat
               /\ Kept(db, locks, r, request[r].stage, c, request[r].expects)
               /\ \A y : ~ Carried(db, c, y)
               /\ request[r].stage \in InKey /\ request[r].seen \in Seen
<1>1. request[r].stage \in InKey
  BY DEF InKey, InSpace, InList, InItem
<1>2. /\ Command(r) \in Commands /\ OnItsWay(request[r].stage, Command(r))
      /\ Asked(db, Command(r), request[r].expects) /\ request[r].expects \in Nat
      /\ Kept(db, locks, r, request[r].stage, Command(r), request[r].expects)
      /\ request[r].seen \in Seen
  BY <1>1, Held
<1>3. OnItem(Command(r))
  BY <1>2 DEF OnItsWay
<1>4. ChangesList(Command(r)) /\ Command(r).list \in Lists /\ Command(r).item \in Items
      /\ ~ IsNew(Command(r)) /\ ~ OnTask(Command(r)) /\ ~ LinksTo(Command(r))
  BY <1>2, <1>3, CommandTypes DEF TouchesList, LinksTo, IsNew, OnTask
<1>5. db.lists[Command(r).list].version \in Nat
  BY <1>4, Held, RowTypes DEF ListRows
<1> QED
  BY <1>1, <1>2, <1>3, <1>4, <1>5, NotCarried

\* The locks of a command on an item stay, from a read to the next.
LEMMA KeptOnItem ==
    ASSUME NEW d, NEW L, NEW r, NEW c, NEW x, ~ LinksTo(c), ~ OnTask(c),
           NEW stage \in {"ITEM", "TOTAL", "PURCHASE", "CHECK"}, Kept(d, L, r, stage, c, x),
           NEW next \in {"TOTAL", "PURCHASE", "CHECK", "UPDATE"}
    PROVE  Kept(d, L, r, next, c, x)
BY DEF Kept, InKey, InSpace, InList, InItem

\* A read that is made leaves the request with what it read.
LEMMA ReadMoves ==
    ASSUME Inv, NEW r \in Requests,
           request[r].stage \in {"ITEM", "TOTAL", "PURCHASE", "CHECK"},
           NEW stage \in {"TOTAL", "PURCHASE", "CHECK", "UPDATE"},
           NEW seen \in Seen, Goes(r, stage, seen), UNCHANGED locks,
           stage = "PURCHASE" => Command(r).kind = "CORRECT",
           SeenAs(db, stage, Command(r), request[r].expects, seen)
    PROVE  Moves(r)
<1>1. stage \in InKey
  BY DEF InKey, InSpace, InList, InItem
<1>2. OnItsWay(stage, Command(r))
  BY OnItemHeld DEF OnItsWay, IsNew
<1>3. Kept(db, locks', r, stage, Command(r), request[r].expects)
  BY OnItemHeld, KeptOnItem
<1>4. LocksOK(locks')
  BY DEF Inv
<1> QED
  BY <1>1, <1>2, <1>3, <1>4, OnItemHeld, GoesMoves

LEMMA FindItemMoves ==
    ASSUME Inv, NEW r \in Requests, FindItem(r)
    PROVE  Moves(r)
<1> DEFINE c    == Command(r)
           x    == request[r].expects
           item == db.items[c.item]
           seen == [request[r].seen EXCEPT !.status = item.status, !.desired = item.desired]
<1>1. request[r].stage = "ITEM"
  BY DEF FindItem
<1>2. item \in ItemRows /\ item.status # "NONE"
  BY <1>1, OnItemHeld, Held, RowTypes DEF Asked
<1>3. CASE item.status # "ACTIVE"
  <2>1. Outdated(db, c, x)
    BY <1>1, <1>2, <1>3, OnItemHeld DEF Outdated, ItemRows
  <2>2. Answer(r, "REFUSED")
    BY <1>3 DEF FindItem
  <2> QED
    BY <1>1, <2>1, <2>2, OnItemHeld, AnswerMoves
<1>4. CASE item.status = "ACTIVE"
  <2>1. Goes(r, "TOTAL", seen) /\ UNCHANGED locks
    BY <1>4 DEF FindItem
  <2>2. request[r].seen \in Seen
    BY <1>1, OnItemHeld
  <2>3. seen \in Seen /\ seen.desired = item.desired
    BY <1>2, <1>4, <2>2 DEF Seen, ItemRows
  <2>4. /\ OnItem(c) /\ ChangesList(c) /\ "ITEM" \in InList
        /\ SeenAs(db, "ITEM", c, x, request[r].seen)
    BY <1>1, OnItemHeld, Held DEF InKey, InSpace, InList
  <2> HIDE DEF seen
  <2>5. SeenAs(db, "TOTAL", c, x, seen)
    BY <1>4, <2>3, <2>4 DEF SeenAs
  <2> QED
    BY <1>1, <2>1, <2>3, <2>5, ReadMoves
<1> QED
  BY <1>3, <1>4

LEMMA SumPurchasesMoves ==
    ASSUME Inv, NEW r \in Requests, SumPurchases(r)
    PROVE  Moves(r)
<1> DEFINE c     == Command(r)
           x     == request[r].expects
           old   == request[r].seen
           total == Total(db, c.item)
           seen  == [old EXCEPT !.total = total]
           stage == IF c.kind = "CORRECT" THEN "PURCHASE" ELSE "CHECK"
<1>1. request[r].stage = "TOTAL"
  BY DEF SumPurchases
<1>2. Goes(r, stage, seen) /\ UNCHANGED locks
  BY DEF SumPurchases
<1>3. old \in Seen /\ SeenAs(db, "TOTAL", c, x, old) /\ OnItem(c) /\ ChangesList(c)
  BY <1>1, OnItemHeld, Held
<1>4. total \in Nat
  BY Held, TotalIsNat
<1> HIDE DEF total
<1>5. seen \in Seen /\ seen.desired = old.desired /\ seen.total = total
  BY <1>3, <1>4 DEF Seen
<1> HIDE DEF seen, old
<1>6. /\ stage \in {"PURCHASE", "CHECK"} /\ (stage = "PURCHASE" <=> c.kind = "CORRECT")
      /\ stage \in InItem /\ "TOTAL" \in InItem /\ "TOTAL" \in InList
  BY DEF InItem, InList
<1> HIDE DEF stage
<1>7. SeenAs(db, stage, c, x, seen)
  BY <1>3, <1>5, <1>6 DEF SeenAs, total
<1> QED
  BY <1>1, <1>2, <1>5, <1>6, <1>7, ReadMoves

LEMMA FindPurchaseMoves ==
    ASSUME Inv, NEW r \in Requests, FindPurchase(r)
    PROVE  Moves(r)
<1> DEFINE c    == Command(r)
           x    == request[r].expects
           old  == request[r].seen
           of   == Effective(db, c.purchase)
           seen == [old EXCEPT !.effective = of]
<1>1. request[r].stage = "PURCHASE"
  BY DEF FindPurchase
<1>2. Goes(r, "CHECK", seen) /\ UNCHANGED locks
  BY DEF FindPurchase
<1>3. old \in Seen /\ SeenAs(db, "PURCHASE", c, x, old) /\ OnItem(c) /\ ChangesList(c)
      /\ c.purchase \in Purchases
  BY <1>1, OnItemHeld, Held, CommandTypes
<1>4. of \in Nat
  BY <1>3, Held DEF Placed
<1> HIDE DEF of
<1>5. /\ seen \in Seen /\ seen.desired = old.desired /\ seen.total = old.total
      /\ seen.effective = of
  BY <1>3, <1>4 DEF Seen
<1> HIDE DEF seen, old
<1>6. "PURCHASE" \in InItem /\ "CHECK" \in InItem /\ "PURCHASE" \in InList
  BY DEF InItem, InList
<1>7. SeenAs(db, "CHECK", c, x, seen)
  BY <1>3, <1>5, <1>6 DEF SeenAs, of
<1> QED
  BY <1>1, <1>2, <1>5, <1>7, ReadMoves

\* What is too much as it was read is too much as it is, unless the version moved.
LEMMA CheckMoves ==
    ASSUME Inv, NEW r \in Requests, Check(r)
    PROVE  Moves(r)
<1> DEFINE c    == Command(r)
           x    == request[r].expects
           seen == request[r].seen
<1>1. request[r].stage = "CHECK"
  BY DEF Check
<1>2. /\ SeenAs(db, "CHECK", c, x, seen) /\ OnItem(c) /\ ChangesList(c) /\ seen \in Seen
      /\ Asked(db, c, x) /\ db.lists[c.list].version \in Nat /\ x \in Nat
  BY <1>1, OnItemHeld, Held
<1>3. "CHECK" \in InItem /\ "CHECK" \in InList /\ "UPDATE" \in InItem
  BY DEF InItem, InList
<1>4. CASE TooMuch(c, seen)
  <2>1. CASE db.lists[c.list].version # x
    <3>1. db.lists[c.list].version > x
      BY <1>2, <2>1 DEF Asked
    <3> QED
      BY <1>1, <1>2, <1>4, <3>1, OnItemHeld, AnswerMoves DEF Outdated, Check
  <2>2. CASE db.lists[c.list].version = x
    <3>1. TooMuch(c, Now(db, c))
      BY <1>2, <1>3, <1>4, <2>2 DEF SeenAs, TooMuch, PurchasedBy, Now
    <3> QED
      BY <1>1, <1>2, <1>4, <3>1, OnItemHeld, AnswerMoves DEF Outdated, Check
  <2> QED
    BY <2>1, <2>2
<1>5. CASE ~ TooMuch(c, seen)
  <2>1. Goes(r, "UPDATE", seen) /\ UNCHANGED locks
    BY <1>5 DEF Check
  <2>2. SeenAs(db, "UPDATE", c, x, seen)
    BY <1>2, <1>3, <1>5 DEF SeenAs
  <2> QED
    BY <1>1, <1>2, <2>1, <2>2, ReadMoves
<1> QED
  BY <1>4, <1>5

\* A task is linked to a list that nobody may archive until it is committed.
LEMMA FindListMoves ==
    ASSUME Inv, NEW r \in Requests, FindList(r)
    PROVE  Moves(r)
<1> DEFINE c    == Command(r)
           x    == request[r].expects
           seen == request[r].seen
           on   == <<"LIST", c.list>>
<1>1. request[r].stage = "LIST" /\ "LIST" \in InKey /\ "LIST" \in InSpace
      /\ "UPDATE" \in InKey /\ "UPDATE" \in InSpace
  BY DEF FindList, InKey, InSpace, InList, InItem
<1>2. /\ c \in Commands /\ x \in Nat /\ Asked(db, c, x) /\ seen \in Seen
      /\ Kept(db, locks, r, "LIST", c, x) /\ OnItsWay("LIST", c)
  BY <1>1, Held
<1>3. c.kind = "CREATE_TASK" \/ OnTask(c)
  BY <1>2 DEF OnItsWay
<1>4. ~ ChangesList(c) /\ ~ OnItem(c) /\ c.kind # "CREATE"
  BY <1>3 DEF ChangesList, OnTask, OnItem
<1>5. OnItsWay("UPDATE", c) /\ SeenAs(db, "UPDATE", c, x, seen)
  BY <1>4 DEF OnItsWay, SeenAs
<1>6. CASE ~ LinksTo(c)
  <2>1. Goes(r, "UPDATE", seen) /\ locks' = locks
    BY <1>6 DEF FindList
  <2>2. Kept(db, locks', r, "UPDATE", c, x)
    BY <1>1, <1>2, <1>6, <2>1 DEF Kept
  <2>3. LocksOK(locks')
    BY <2>1 DEF Inv
  <2> HIDE DEF c, x, seen
  <2> QED
    BY <1>1, <1>2, <1>5, <2>1, <2>2, <2>3, GoesMoves DEF c, x, seen
<1>7. CASE LinksTo(c) /\ db.lists[c.list].status # "ACTIVE"
  <2>1. c.list \in Lists /\ db.lists[c.list] \in ListRows
    BY <1>2, <1>7, CommandTypes, Held, RowTypes
  <2>2. db.lists[c.list].status = "ARCHIVED"
    BY <1>2, <1>7, <2>1, Held DEF Asked, ListRows, Numbered
  <2>3. Answer(r, "REFUSED")
    BY <1>7 DEF FindList
  <2> QED
    BY <1>1, <1>2, <1>7, <2>2, <2>3, NotCarried, AnswerMoves DEF Outdated
<1>8. CASE LinksTo(c) /\ db.lists[c.list].status = "ACTIVE"
  <2>1. /\ Free(r, on, "SHARE") /\ Goes(r, "UPDATE", seen)
        /\ locks' = locks \cup {[by |-> r, on |-> on, mode |-> "SHARE"]}
    BY <1>8 DEF FindList, LockList
  <2>2. LocksOK(locks')
    BY <2>1, LocksTaken DEF Inv
  <2>3. Kept(db, locks', r, "UPDATE", c, x)
    BY <1>1, <1>2, <1>8, <2>1 DEF Kept, Holds
  <2> HIDE DEF c, x, seen, on
  <2> QED
    BY <1>1, <1>2, <1>5, <2>1, <2>2, <2>3, GoesMoves DEF c, x, seen
<1> QED
  BY <1>6, <1>7, <1>8

\* The row of a list or of a task is a request's own in the version that it named.
LEMMA UpdateMoves ==
    ASSUME Inv, NEW r \in Requests, Update(r)
    PROVE  Moves(r)
<1> DEFINE c    == Command(r)
           x    == request[r].expects
           seen == request[r].seen
           on   == IF OnTask(c) THEN <<"TASK", c.task>> ELSE <<"LIST", c.list>>
           row  == IF OnTask(c) THEN db.tasks[c.task] ELSE db.lists[c.list]
<1>1. request[r].stage = "UPDATE" /\ {"UPDATE", "COMMIT"} \subseteq InItem
      /\ InItem \subseteq InList /\ InList \subseteq InSpace /\ InSpace \subseteq InKey
  BY DEF Update, InKey, InSpace, InList, InItem
<1>2. /\ c \in Commands /\ x \in Nat /\ Asked(db, c, x) /\ seen \in Seen
      /\ Kept(db, locks, r, "UPDATE", c, x) /\ OnItsWay("UPDATE", c)
      /\ SeenAs(db, "UPDATE", c, x, seen)
  BY <1>1, Held
<1>3. c.kind = "CREATE_TASK" \/ OnTask(c) \/ ChangesList(c)
  BY <1>1, <1>2, CommandTypes DEF OnItsWay
<1>4. OnItsWay("COMMIT", c)
  BY DEF OnItsWay
<1>5. SeenAs(db, "COMMIT", c, x, seen)
  BY <1>1, <1>2 DEF SeenAs
<1>6. CASE c.kind = "CREATE_TASK"
  <2>1. Goes(r, "COMMIT", seen) /\ locks' = locks
    BY <1>6 DEF Update
  <2>2. Kept(db, locks', r, "COMMIT", c, x)
    BY <1>1, <1>2, <1>6, <2>1 DEF Kept, ChangesList, OnTask
  <2>3. LocksOK(locks')
    BY <2>1 DEF Inv
  <2> HIDE DEF c, x, seen
  <2> QED
    BY <1>1, <1>2, <1>4, <1>5, <2>1, <2>2, <2>3, GoesMoves DEF c, x, seen
<1>7. CASE c.kind # "CREATE_TASK" /\ row.version # x
  <2>1. Answer(r, "REFUSED")
    BY <1>7 DEF Update
  <2>2. CASE OnTask(c)
    <3>1. row \in TaskRows
      BY <1>2, <2>2, Held, RowTypes, CommandTypes
    <3>2. row.version > x
      BY <1>2, <1>7, <2>2, <3>1 DEF Asked, TaskRows
    <3>3. Outdated(db, c, x)
      BY <2>2, <3>2 DEF Outdated
    <3> QED
      BY <1>1, <1>2, <2>1, <3>3, NotCarried, AnswerMoves
  <2>3. CASE ~ OnTask(c)
    <3>1. ChangesList(c) /\ row \in ListRows
      BY <1>2, <1>3, <1>7, <2>3, Held, RowTypes, CommandTypes DEF TouchesList
    <3>2. row.version > x
      BY <1>2, <1>7, <2>3, <3>1 DEF Asked, ListRows
    <3>3. Outdated(db, c, x)
      BY <2>3, <3>1, <3>2 DEF Outdated
    <3> QED
      BY <1>1, <1>2, <2>1, <3>3, NotCarried, AnswerMoves
  <2> QED
    BY <2>2, <2>3
<1>8. CASE c.kind # "CREATE_TASK" /\ row.version = x
  <2>1. /\ Free(r, on, "UPDATE") /\ Goes(r, "COMMIT", seen)
        /\ locks' = locks \cup {[by |-> r, on |-> on, mode |-> "UPDATE"]}
    BY <1>8 DEF Update
  <2>2. on # <<"SPACE">>
    OBVIOUS
  <2>3. LocksOK(locks')
    BY <2>1, <2>2, LocksTaken DEF Inv
  <2>4. ChangesList(c) => ~ OnTask(c)
    BY <1>2, CommandTypes
  <2>5. Kept(db, locks', r, "COMMIT", c, x)
    BY <1>1, <1>2, <1>8, <2>1, <2>4 DEF Kept, Holds
  <2> HIDE DEF c, x, seen, on
  <2> QED
    BY <1>1, <1>2, <1>4, <1>5, <2>1, <2>3, <2>5, GoesMoves DEF c, x, seen
<1> QED
  BY <1>6, <1>7, <1>8

-----------------------------------------------------------------------------
(***************************************************************************)
(* A commit: what is known of the rows before it, and what it leaves.      *)
(***************************************************************************)
Ready(d, c, x, seen) ==
    /\ RowsOK(d) /\ c \in Commands /\ x \in Nat /\ seen \in Seen
    /\ d.space = "ACTIVE" /\ d.receipts[c.key] = NoReceipt
    /\ Asked(d, c, x)
    /\ TouchesList(c) => d.lists[c.list].version = x
    /\ ChangesList(c) => d.lists[c.list].status = "ACTIVE"
    /\ TouchesTask(c) => d.tasks[c.task].version = x
    /\ LinksTo(c) => d.lists[c.list].status = "ACTIVE"
    /\ OnItem(c) => /\ d.items[c.item].status = "ACTIVE"
                    /\ seen.desired = d.items[c.item].desired
                    /\ seen.total = Total(d, c.item)
                    /\ c.kind = "CORRECT" => seen.effective = Effective(d, c.purchase)
                    /\ ~ TooMuch(c, seen)
    /\ c.kind = "ADD" => d.items[c.item].status = "NONE"
    /\ c.kind = "PURCHASE" => d.purchases[c.purchase].item = NoItem

ListAfter(c, v)  == [status |-> IF c.kind = "ARCHIVE" THEN "ARCHIVED" ELSE "ACTIVE",
                     version |-> v]
Event(c, v)      == [sequence |-> v, command |-> c]
Correction(c, v) == [purchase |-> c.purchase, quantity |-> c.quantity, sequence |-> v]
Receipt(c, v, x, seen) ==
    [status |-> "KEPT", command |-> c, expects |-> x, result |-> Result(c, v, seen)]

Leaves(d, e, c, x, seen) ==
    LET v == x + 1
    IN  /\ e.space = d.space
        /\ \A l \in Lists :
               e.lists[l] = IF TouchesList(c) /\ l = c.list THEN ListAfter(c, v)
                            ELSE d.lists[l]
        /\ \A t \in Tasks :
               e.tasks[t] = IF TouchesTask(c) /\ t = c.task
                            THEN [list |-> c.list, version |-> v] ELSE d.tasks[t]
        /\ \A i \in Items :
               e.items[i] =
                   IF i # c.item THEN d.items[i]
                   ELSE IF c.kind \in {"ADD", "NEED"}
                   THEN [status |-> "ACTIVE", desired |-> c.quantity]
                   ELSE IF c.kind = "REMOVE"
                   THEN [status |-> "REMOVED", desired |-> d.items[i].desired]
                   ELSE d.items[i]
        /\ \A p \in Purchases :
               e.purchases[p] = IF c.kind = "PURCHASE" /\ p = c.purchase
                                THEN [item |-> c.item, quantity |-> c.quantity]
                                ELSE d.purchases[p]
        /\ e.corrections = IF c.kind = "CORRECT" THEN d.corrections \cup {Correction(c, v)}
                           ELSE d.corrections
        /\ e.history = IF TouchesList(c) THEN d.history \cup {Event(c, v)} ELSE d.history
        /\ \A k \in Keys :
               e.receipts[k] = IF k = c.key THEN Receipt(c, v, x, seen) ELSE d.receipts[k]

\* What a request knows at its commit.
LEMMA CommitReady ==
    ASSUME Inv, NEW r \in Requests, request[r].stage = "COMMIT"
    PROVE  Ready(db, Command(r), request[r].expects, request[r].seen)
<1> DEFINE c    == Command(r)
           x    == request[r].expects
           seen == request[r].seen
<1>1. {"COMMIT"} \subseteq InItem
      /\ InItem \subseteq InList /\ InList \subseteq InSpace /\ InSpace \subseteq InKey
  BY DEF InKey, InSpace, InList, InItem
<1>2. /\ c \in Commands /\ x \in Nat /\ Asked(db, c, x) /\ seen \in Seen
      /\ Kept(db, locks, r, "COMMIT", c, x)
      /\ SeenAs(db, "COMMIT", c, x, seen)
  BY <1>1, Held
<1>3. /\ db.space = "ACTIVE" /\ db.receipts[c.key] = NoReceipt
      /\ LinksTo(c) => db.lists[c.list].status = "ACTIVE"
      /\ ChangesList(c) => db.lists[c.list].version = x
      /\ OnTask(c) => db.tasks[c.task].version = x
  BY <1>1, <1>2 DEF Kept
<1>4. /\ c.kind = "CREATE" => db.lists[c.list].version = x
      /\ c.kind = "CREATE_TASK" => db.tasks[c.task].version = x
      /\ c.kind = "ADD" => db.items[c.item].status = "NONE"
      /\ c.kind = "PURCHASE" => db.purchases[c.purchase].item = NoItem
  BY <1>2, <1>3 DEF Inv, RowsOK, Made, Asked, IsNew
<1>5. /\ ChangesList(c) => db.lists[c.list].status = "ACTIVE"
      /\ OnItem(c) => /\ db.items[c.item].status = "ACTIVE"
                      /\ seen.desired = db.items[c.item].desired
                      /\ seen.total = Total(db, c.item)
                      /\ c.kind = "CORRECT" => seen.effective = Effective(db, c.purchase)
                      /\ ~ TooMuch(c, seen)
  BY <1>1, <1>2, <1>3, CommandTypes DEF SeenAs
<1> HIDE DEF c, x, seen
<1>6. Ready(db, c, x, seen)
  BY <1>2, <1>3, <1>4, <1>5 DEF Ready, Inv, TouchesList, TouchesTask
<1> QED
  BY <1>6 DEF c, x, seen

\* A command writes the rows that it is about.
ListsAfter(d, c, v) ==
    IF TouchesList(c) THEN [d.lists EXCEPT ![c.list] = ListAfter(c, v)] ELSE d.lists

ItemsAfter(d, c) ==
    IF c.kind \in {"ADD", "NEED"}
    THEN [d.items EXCEPT ![c.item] = [status |-> "ACTIVE", desired |-> c.quantity]]
    ELSE IF c.kind = "REMOVE"
    THEN [d.items EXCEPT ![c.item] = [status |-> "REMOVED",
                                      desired |-> d.items[c.item].desired]]
    ELSE d.items

PurchasesAfter(d, c) ==
    IF c.kind = "PURCHASE"
    THEN [d.purchases EXCEPT ![c.purchase] = [item |-> c.item, quantity |-> c.quantity]]
    ELSE d.purchases

CorrectionsAfter(d, c, v) ==
    IF c.kind = "CORRECT" THEN d.corrections \cup {Correction(c, v)} ELSE d.corrections

TasksAfter(d, c, v) ==
    IF TouchesTask(c) THEN [d.tasks EXCEPT ![c.task] = [list |-> c.list, version |-> v]]
    ELSE d.tasks

RowsAfter(d, c, v, history, receipts) ==
    [space |-> d.space, lists |-> ListsAfter(d, c, v), items |-> ItemsAfter(d, c),
     purchases |-> PurchasesAfter(d, c), corrections |-> CorrectionsAfter(d, c, v),
     tasks |-> TasksAfter(d, c, v), history |-> history, receipts |-> receipts]

LEMMA FieldsAfter ==
    ASSUME NEW d, NEW c, NEW v, NEW history, NEW receipts
    PROVE  LET e == RowsAfter(d, c, v, history, receipts)
           IN  /\ e.space = d.space /\ e.lists = ListsAfter(d, c, v)
               /\ e.items = ItemsAfter(d, c) /\ e.purchases = PurchasesAfter(d, c)
               /\ e.tasks = TasksAfter(d, c, v)
               /\ e.corrections = CorrectionsAfter(d, c, v)
               /\ e.history = history /\ e.receipts = receipts
BY DEF RowsAfter

LEMMA WrittenRows ==
    ASSUME NEW d, NEW c, NEW x, NEW seen, Ready(d, c, x, seen)
    PROVE  Written(d, c, x + 1, seen) = RowsAfter(d, c, x + 1, d.history, d.receipts)
<1> DEFINE s == Written(d, c, x + 1, seen)
           v == x + 1
<1>1. d \in Tables /\ c \in Commands /\ x \in Nat
  BY DEF Ready, RowsOK
<1>2. PICK space \in {"ACTIVE", "CLOSED"}, lists \in [Lists -> ListRows],
           items \in [Items -> ItemRows], purchases \in [Purchases -> Bought],
           corrections \in SUBSET Corrections, tasks \in [Tasks -> TaskRows],
           history \in SUBSET Events, receipts \in [Keys -> Receipts] :
           d = [space |-> space, lists |-> lists, items |-> items,
                purchases |-> purchases, corrections |-> corrections, tasks |-> tasks,
                history |-> history, receipts |-> receipts]
  BY <1>1 DEF Tables
<1>3. /\ c.kind \in Kinds /\ c.key \in Keys /\ c.item \in Items
      /\ c.purchase \in Purchases /\ c.task \in Tasks
      /\ TouchesList(c) => c.list \in Lists
  BY <1>1, CommandTypes
<1> DEFINE named == [lists EXCEPT ![c.list] = ListAfter(c, v)]
           row   == lists[c.list]
           item  == items[c.item]
           new   == [space |-> space, lists |-> named, items |-> items,
                     purchases |-> purchases, corrections |-> corrections,
                     tasks |-> tasks, history |-> history, receipts |-> receipts]
<1>f. /\ d.lists = lists /\ d.items = items /\ d.purchases = purchases
      /\ d.corrections = corrections /\ d.tasks = tasks /\ d.history = history
      /\ d.receipts = receipts /\ d.space = space
  BY <1>2
<1>r. ChangesList(c) => /\ row = [status |-> "ACTIVE", version |-> row.version]
                        /\ c.list \in Lists
  <2> SUFFICES ASSUME ChangesList(c)
               PROVE  row = [status |-> "ACTIVE", version |-> row.version]
                      /\ c.list \in Lists
    OBVIOUS
  <2>1. c.list \in Lists /\ row.status = "ACTIVE"
    BY <1>3, <1>f DEF TouchesList, Ready
  <2>2. row \in ListRows
    BY <1>2, <2>1
  <2> QED
    BY <2>1, <2>2 DEF ListRows
<1>i. item = [status |-> item.status, desired |-> item.desired]
  BY <1>2, <1>3 DEF ItemRows
<1>n. ChangesList(c) /\ c.kind # "ARCHIVE" => Renamed(d, c, v) = new
  <2> SUFFICES ASSUME ChangesList(c), c.kind # "ARCHIVE"
               PROVE  Renamed(d, c, v) = new
    OBVIOUS
  <2>1. [row EXCEPT !.version = v] = ListAfter(c, v)
    BY <1>r DEF ListAfter
  <2>2. [lists EXCEPT ![c.list] = [row EXCEPT !.version = v]] = named
    BY <2>1
  <2>3. Renamed(d, c, v) = [d EXCEPT !.lists = [lists EXCEPT ![c.list] =
                                                    [row EXCEPT !.version = v]]]
    BY <1>f DEF Renamed
  <2> QED
    BY <1>2, <2>2, <2>3
<1> DEFINE made(L, I, P, C, T) ==
               [space |-> space, lists |-> L, items |-> I, purchases |-> P,
                corrections |-> C, tasks |-> T, history |-> history,
                receipts |-> receipts]
           wanted == [items EXCEPT ![c.item] = [status |-> "ACTIVE", desired |-> c.quantity]]
           gone   == [items EXCEPT ![c.item] = [status |-> "REMOVED",
                                                desired |-> item.desired]]
           bought == [purchases EXCEPT ![c.purchase] = [item |-> c.item,
                                                        quantity |-> c.quantity]]
           linked == [tasks EXCEPT ![c.task] = [list |-> c.list, version |-> v]]
<1>d. d = made(lists, items, purchases, corrections, tasks)
  BY <1>2
<1>e. RowsAfter(d, c, v, d.history, d.receipts) =
          made(ListsAfter(d, c, v), ItemsAfter(d, c), PurchasesAfter(d, c),
               CorrectionsAfter(d, c, v), TasksAfter(d, c, v))
  BY <1>f DEF RowsAfter
<1>k. /\ TouchesList(c) <=> c.kind \notin {"CREATE_TASK", "LINK", "UNLINK"}
      /\ TouchesTask(c) <=> c.kind \in {"CREATE_TASK", "LINK", "UNLINK"}
  BY <1>3 DEF TouchesList, TouchesTask, ChangesList, OnTask, Kinds
<1>l. ListsAfter(d, c, v) = IF TouchesList(c) THEN named ELSE lists
  BY <1>f DEF ListsAfter
<1>m. ItemsAfter(d, c) = IF c.kind \in {"ADD", "NEED"} THEN wanted
                         ELSE IF c.kind = "REMOVE" THEN gone ELSE items
  BY <1>f DEF ItemsAfter
<1>p. PurchasesAfter(d, c) = IF c.kind = "PURCHASE" THEN bought ELSE purchases
  BY <1>f DEF PurchasesAfter
<1>c. CorrectionsAfter(d, c, v) = IF c.kind = "CORRECT"
                                  THEN corrections \cup {Correction(c, v)} ELSE corrections
  BY <1>f DEF CorrectionsAfter
<1>t. TasksAfter(d, c, v) = IF TouchesTask(c) THEN linked ELSE tasks
  BY <1>f DEF TasksAfter
<1> DEFINE after == made(ListsAfter(d, c, v), ItemsAfter(d, c), PurchasesAfter(d, c),
                         CorrectionsAfter(d, c, v), TasksAfter(d, c, v))
<1> SUFFICES s = after
  BY <1>e
<1>4. CASE c.kind = "CREATE"
  <2>1. v = 1
    BY <1>4 DEF Ready, Asked, IsNew
  <2>2. s = [d EXCEPT !.lists[c.list] = [status |-> "ACTIVE", version |-> 1]]
    BY <1>4 DEF Written, Created
  <2>3. s = made(named, items, purchases, corrections, tasks)
    BY <1>d, <1>4, <2>1, <2>2 DEF ListAfter
  <2> QED
    BY <1>4, <1>k, <1>l, <1>m, <1>p, <1>c, <1>t, <2>3
<1>5. CASE c.kind \in {"RENAME", "ARCHIVE"}
  <2>1. ChangesList(c)
    BY <1>5 DEF ChangesList
  <2>2. c.kind = "RENAME" => s = new
    BY <1>n, <2>1 DEF Written
  <2>3. c.kind = "ARCHIVE" => s = new
    BY <1>d DEF Written, Archived, ListAfter
  <2> QED
    BY <1>5, <1>k, <1>l, <1>m, <1>p, <1>c, <1>t, <2>2, <2>3
<1>6. CASE c.kind \in {"ADD", "NEED", "REMOVE", "PURCHASE", "CORRECT"}
  <2>1. Renamed(d, c, v) = new
    BY <1>6, <1>n DEF ChangesList
  <2>2. c.kind = "ADD" => s = made(named, wanted, purchases, corrections, tasks)
    BY <2>1 DEF Written, Added
  <2>3. c.kind = "NEED" => s = made(named, wanted, purchases, corrections, tasks)
    <3> SUFFICES ASSUME c.kind = "NEED"
                 PROVE  s = made(named, wanted, purchases, corrections, tasks)
      OBVIOUS
    <3>1. item.status = "ACTIVE"
      BY <1>f DEF Ready, OnItem
    <3>2. [item EXCEPT !.desired = c.quantity] = [status |-> "ACTIVE", desired |-> c.quantity]
      BY <1>i, <3>1
    <3>3. s = [new EXCEPT !.items = [items EXCEPT ![c.item] =
                                         [item EXCEPT !.desired = c.quantity]]]
      BY <2>1 DEF Written, NeedChanged
    <3> QED
      BY <3>2, <3>3
  <2>4. c.kind = "REMOVE" => s = made(named, gone, purchases, corrections, tasks)
    <3> SUFFICES ASSUME c.kind = "REMOVE"
                 PROVE  s = made(named, gone, purchases, corrections, tasks)
      OBVIOUS
    <3>1. seen.desired = item.desired
      BY <1>f DEF Ready, OnItem
    <3> QED
      BY <2>1, <3>1 DEF Written, Removed
  <2>5. c.kind = "PURCHASE" => s = made(named, items, bought, corrections, tasks)
    BY <2>1 DEF Written, Purchased
  <2>6. c.kind = "CORRECT" =>
            s = made(named, items, purchases, corrections \cup {Correction(c, v)}, tasks)
    <3> SUFFICES ASSUME c.kind = "CORRECT"
                 PROVE  s = made(named, items, purchases,
                                 corrections \cup {Correction(c, v)}, tasks)
      OBVIOUS
    <3>1. s = [new EXCEPT !.corrections = @ \cup {Correction(c, v)}]
      BY <2>1 DEF Written, Corrected, Correction
    <3> QED
      BY <3>1
  <2> QED
    BY <1>6, <1>k, <1>l, <1>m, <1>p, <1>c, <1>t, <2>2, <2>3, <2>4, <2>5, <2>6
<1>7. CASE c.kind \in {"CREATE_TASK", "LINK", "UNLINK"}
  <2>1. s = made(lists, items, purchases, corrections, linked)
    BY <1>7, <1>d DEF Written, Linked
  <2> QED
    BY <1>7, <1>k, <1>l, <1>m, <1>p, <1>c, <1>t, <2>1
<1> QED
  BY <1>3, <1>4, <1>5, <1>6, <1>7 DEF Kinds

\* With its event and its receipt.
RowsLeft(d, c, x, seen) ==
    RowsAfter(d, c, x + 1,
              IF TouchesList(c) THEN d.history \cup {Event(c, x + 1)} ELSE d.history,
              [d.receipts EXCEPT ![c.key] = Receipt(c, x + 1, x, seen)])

Committed(d, c, x, seen) ==
    [Written(d, c, x + 1, seen) EXCEPT
        !.history = IF OnTask(c) \/ c.kind = "CREATE_TASK" THEN @
                    ELSE @ \cup {Event(c, x + 1)},
        !.receipts[c.key] = Receipt(c, x + 1, x, seen)]

LEMMA CommitRows ==
    ASSUME NEW d, NEW c, NEW x, NEW seen, Ready(d, c, x, seen)
    PROVE  Committed(d, c, x, seen) = RowsLeft(d, c, x, seen)
<1> DEFINE v        == x + 1
           s        == Written(d, c, v, seen)
           e        == Committed(d, c, x, seen)
           history  == IF TouchesList(c) THEN d.history \cup {Event(c, v)} ELSE d.history
           receipts == [d.receipts EXCEPT ![c.key] = Receipt(c, v, x, seen)]
<1>1. d \in Tables /\ c \in Commands
  BY DEF Ready, RowsOK
<1>2. s = RowsAfter(d, c, v, d.history, d.receipts)
  BY WrittenRows
<1>3. s.history = d.history /\ s.receipts = d.receipts
  BY <1>2 DEF RowsAfter
<1>e. e = [s EXCEPT !.history = IF OnTask(c) \/ c.kind = "CREATE_TASK" THEN @
                               ELSE @ \cup {Event(c, x + 1)},
                   !.receipts[c.key] = Receipt(c, x + 1, x, seen)]
  BY DEF Committed
<1> HIDE DEF s, e
<1>4. TouchesList(c) <=> ~ (OnTask(c) \/ c.kind = "CREATE_TASK")
  BY <1>1, CommandTypes DEF TouchesTask
<1>5. e = RowsAfter(d, c, v, history, receipts)
  <2> DEFINE h == IF OnTask(c) \/ c.kind = "CREATE_TASK" THEN d.history
                  ELSE d.history \cup {Event(c, v)}
             one == RowsAfter(d, c, v, h, d.receipts)
  <2>1. [s EXCEPT !.history = h] = one
    BY <1>2 DEF RowsAfter
  <2>2. h = history
    BY <1>4
  <2>3. e = [one EXCEPT !.receipts[c.key] = Receipt(c, v, x, seen)]
    BY <1>3, <1>e, <2>1
  <2>4. one.receipts = d.receipts
    BY DEF RowsAfter
  <2>5. e = [one EXCEPT !.receipts = receipts]
    BY <2>3, <2>4
  <2> HIDE DEF h, receipts
  <2> QED
    BY <2>2, <2>5 DEF RowsAfter
<1> QED
  BY <1>5 DEF e, RowsLeft

LEMMA CommitLeaves ==
    ASSUME NEW d, NEW c, NEW x, NEW seen, Ready(d, c, x, seen), NEW e,
           e = RowsLeft(d, c, x, seen)
    PROVE  Leaves(d, e, c, x, seen)
<1> DEFINE v        == x + 1
           history  == IF TouchesList(c) THEN d.history \cup {Event(c, v)} ELSE d.history
           receipts == [d.receipts EXCEPT ![c.key] = Receipt(c, v, x, seen)]
<1>1. d \in Tables /\ c \in Commands
  BY DEF Ready, RowsOK
<1>6. e = RowsAfter(d, c, v, history, receipts)
  BY DEF RowsLeft
<1> HIDE DEF history, receipts
<1>7. /\ e.space = d.space /\ e.lists = ListsAfter(d, c, v) /\ e.items = ItemsAfter(d, c)
      /\ e.purchases = PurchasesAfter(d, c) /\ e.tasks = TasksAfter(d, c, v)
      /\ e.corrections = CorrectionsAfter(d, c, v)
      /\ e.history = history /\ e.receipts = receipts
  BY <1>6, FieldsAfter
<1>8. /\ d.lists \in [Lists -> ListRows] /\ d.items \in [Items -> ItemRows]
      /\ d.purchases \in [Purchases -> Bought] /\ d.tasks \in [Tasks -> TaskRows]
      /\ d.receipts \in [Keys -> Receipts]
  BY <1>1 DEF Tables
<1>9. \A l \in Lists : e.lists[l] = IF TouchesList(c) /\ l = c.list THEN ListAfter(c, v)
                                    ELSE d.lists[l]
  BY <1>7, <1>8 DEF ListsAfter
<1>10. \A t \in Tasks : e.tasks[t] = IF TouchesTask(c) /\ t = c.task
                                     THEN [list |-> c.list, version |-> v] ELSE d.tasks[t]
  BY <1>7, <1>8 DEF TasksAfter
<1>11. \A i \in Items :
           e.items[i] =
               IF i # c.item THEN d.items[i]
               ELSE IF c.kind \in {"ADD", "NEED"}
               THEN [status |-> "ACTIVE", desired |-> c.quantity]
               ELSE IF c.kind = "REMOVE"
               THEN [status |-> "REMOVED", desired |-> d.items[i].desired]
               ELSE d.items[i]
  BY <1>7, <1>8 DEF ItemsAfter
<1>12. \A p \in Purchases :
           e.purchases[p] = IF c.kind = "PURCHASE" /\ p = c.purchase
                            THEN [item |-> c.item, quantity |-> c.quantity]
                            ELSE d.purchases[p]
  BY <1>7, <1>8 DEF PurchasesAfter
<1>13. \A k \in Keys :
           e.receipts[k] = IF k = c.key THEN Receipt(c, v, x, seen) ELSE d.receipts[k]
  BY <1>7, <1>8 DEF receipts
<1> QED
  BY <1>7, <1>9, <1>10, <1>11, <1>12, <1>13 DEF Leaves, CorrectionsAfter, history

\* What a command purchases in all is a number.
LEMMA ResultType ==
    ASSUME NEW c \in Commands, NEW v \in Nat, NEW seen \in Seen
    PROVE  Result(c, v, seen) \in Results /\ Result(c, v, seen).version = v
<1>1. c.quantity \in Nat /\ seen.desired \in Nat /\ seen.total \in Nat
      /\ seen.effective \in Nat
  BY CommandTypes DEF Seen
<1>2. PurchasedBy(c, seen) \in Nat
  BY <1>1 DEF PurchasedBy
<1>3. \A status \in {"ACTIVE", "REMOVED"}, m, n \in Nat :
          Progress(status, m, n) \in
              [desired : Nat, purchased : Nat,
               status : {"REMOVED", "PENDING", "PARTIALLY_PURCHASED", "PURCHASED"}]
  BY DEF Progress
<1>4. Result(c, v, seen).item \in
          [desired : Nat, purchased : Nat,
           status : {"REMOVED", "PENDING", "PARTIALLY_PURCHASED", "PURCHASED"}]
  BY <1>1, <1>2, <1>3 DEF Result
<1>5. Result(c, v, seen) = [version |-> v, item |-> Result(c, v, seen).item]
  BY DEF Result
<1> QED
  BY <1>4, <1>5 DEF Results

LEMMA CommitTables ==
    ASSUME NEW d, NEW c, NEW x, NEW seen, Ready(d, c, x, seen), NEW e,
           e = RowsLeft(d, c, x, seen)
    PROVE  e \in Tables
<1> DEFINE v        == x + 1
           history  == IF TouchesList(c) THEN d.history \cup {Event(c, v)} ELSE d.history
           receipts == [d.receipts EXCEPT ![c.key] = Receipt(c, v, x, seen)]
<1>1. /\ d \in Tables /\ c \in Commands /\ x \in Nat /\ v \in Nat /\ seen \in Seen
  BY DEF Ready, RowsOK
<1>2. /\ c.key \in Keys /\ c.item \in Items /\ c.purchase \in Purchases
      /\ c.task \in Tasks /\ c.quantity \in Nat /\ c.list \in Lists \cup {NoList}
  BY <1>1, CommandTypes
<1>3. /\ d.space \in {"ACTIVE", "CLOSED"}
      /\ d.lists \in [Lists -> ListRows] /\ d.items \in [Items -> ItemRows]
      /\ d.purchases \in [Purchases -> Bought] /\ d.tasks \in [Tasks -> TaskRows]
      /\ d.corrections \in SUBSET Corrections
      /\ d.history \in SUBSET Events /\ d.receipts \in [Keys -> Receipts]
  BY <1>1 DEF Tables
<1>4. ListsAfter(d, c, v) \in [Lists -> ListRows]
  BY <1>1, <1>3 DEF ListsAfter, ListAfter, ListRows
<1>5. ItemsAfter(d, c) \in [Items -> ItemRows]
  <2>1. d.items[c.item].desired \in Nat
    BY <1>2, <1>3 DEF ItemRows
  <2> QED
    BY <1>2, <1>3, <2>1 DEF ItemsAfter, ItemRows
<1>6. PurchasesAfter(d, c) \in [Purchases -> Bought]
  BY <1>2, <1>3 DEF PurchasesAfter, Bought
<1>7. CorrectionsAfter(d, c, v) \in SUBSET Corrections
  <2>1. Correction(c, v) \in Corrections
    BY <1>1, <1>2 DEF Correction, Corrections
  <2> QED
    BY <1>3, <2>1 DEF CorrectionsAfter
<1>8. TasksAfter(d, c, v) \in [Tasks -> TaskRows]
  BY <1>1, <1>2, <1>3 DEF TasksAfter, TaskRows
<1>9. history \in SUBSET Events
  <2>1. Event(c, v) \in Events
    BY <1>1 DEF Event, Events
  <2> QED
    BY <1>3, <2>1
<1>10. receipts \in [Keys -> Receipts]
  <2>1. Result(c, v, seen) \in Results
    BY <1>1, ResultType
  <2>2. Receipt(c, v, x, seen) \in Receipts
    BY <1>1, <2>1 DEF Receipt, Receipts
  <2> QED
    BY <1>3, <2>2
<1> HIDE DEF history, receipts
<1>11. \A h \in SUBSET Events, r \in [Keys -> Receipts] : RowsAfter(d, c, v, h, r) \in Tables
  BY <1>3, <1>4, <1>5, <1>6, <1>7, <1>8 DEF RowsAfter, Tables
<1> QED
  BY <1>9, <1>10, <1>11 DEF RowsLeft, history, receipts

-----------------------------------------------------------------------------
(***************************************************************************)
(* What a commit changes of an item and of its purchases.                  *)
(***************************************************************************)
\* The last of what is numbered is the one with the greatest number.
LEMMA LastIsNew ==
    ASSUME NEW E, NEW ev, ev.sequence \in Nat,
           \A f \in E : f.sequence \in Nat /\ f.sequence < ev.sequence
    PROVE  LastOf(E \cup {ev}) = ev
<1>1. \A f \in E \cup {ev} : f.sequence <= ev.sequence
  OBVIOUS
<1>2. \A e \in E \cup {ev} :
          (\A f \in E \cup {ev} : f.sequence <= e.sequence) => e = ev
  OBVIOUS
<1> QED
  BY <1>1, <1>2 DEF LastOf

OwnCorrections(d, p) == {x \in d.corrections : x.purchase = p}

LEMMA EffectiveOf ==
    ASSUME NEW d, NEW p
    PROVE  Effective(d, p) = IF OwnCorrections(d, p) = {} THEN d.purchases[p].quantity
                             ELSE LastOf(OwnCorrections(d, p)).quantity
BY DEF Effective, LastOf, OwnCorrections

\* The corrections of a purchase were numbered before the present version of its list.
LEMMA CorrectionsBefore ==
    ASSUME NEW d, RowsOK(d), NEW c \in Commands, OnItem(c),
           NEW p \in Purchases, d.purchases[p].item = c.item, NEW x \in OwnCorrections(d, p)
    PROVE  x.sequence \in Nat /\ x.sequence <= d.lists[c.list].version
<1>1. x \in d.corrections /\ x.purchase = p /\ d \in Tables
  BY DEF OwnCorrections, RowsOK
<1>2. PICK ev \in d.history :
          /\ ev.command.kind = "CORRECT" /\ ev.sequence = x.sequence
          /\ d.purchases[p].item = ev.command.item
  BY <1>1 DEF RowsOK, Placed
<1>3. ev \in Events
  BY <1>1, <1>2, RowTypes
<1>4. ev.command \in Commands /\ About(ev.command) /\ About(c) /\ ev.sequence \in Nat
  BY <1>2, <1>3, CommandTypes DEF Events, About, OnItem
<1>5. ev.command.list = c.list
  BY <1>2, <1>4, IdsAssumption
<1> QED
  BY <1>2, <1>4, <1>5 DEF RowsOK, Numbered

LEMMA EffectiveAfter ==
    ASSUME NEW d, NEW e, NEW c, NEW x, NEW seen, Ready(d, c, x, seen),
           Leaves(d, e, c, x, seen), NEW p \in Purchases
    PROVE  Effective(e, p) = IF c.kind \in {"PURCHASE", "CORRECT"} /\ p = c.purchase
                             THEN c.quantity ELSE Effective(d, p)
<1> DEFINE v == x + 1
           new == Correction(c, v)
<1>1. /\ RowsOK(d) /\ c \in Commands /\ x \in Nat /\ d \in Tables
      /\ c.item \in Items /\ c.item # NoItem
  BY CommandTypes, CommandsAssumption DEF Ready, RowsOK
<1>2. CASE c.kind = "PURCHASE" /\ p = c.purchase
  <2>1. OwnCorrections(d, p) = {}
    <3> SUFFICES ASSUME NEW y \in OwnCorrections(d, p)
                 PROVE  FALSE
      OBVIOUS
    <3>1. PICK ev \in d.history : /\ ev.command.kind = "CORRECT"
                                  /\ d.purchases[p].item = ev.command.item
      BY <1>1 DEF OwnCorrections, RowsOK, Placed
    <3>2. ev.command \in Commands
      BY <1>1, <3>1, RowTypes DEF Events
    <3>3. ev.command.item # NoItem
      BY <3>2, CommandTypes, CommandsAssumption
    <3> QED
      BY <1>2, <3>1, <3>3 DEF Ready
  <2>2. OwnCorrections(e, p) = {}
    BY <1>2, <2>1 DEF Leaves, OwnCorrections
  <2>3. e.purchases[p].quantity = c.quantity
    BY <1>2 DEF Leaves
  <2> QED
    BY <1>2, <2>2, <2>3, EffectiveOf
<1>3. CASE c.kind = "CORRECT" /\ p = c.purchase
  <2>1. OnItem(c) /\ d.purchases[p].item = c.item
    BY <1>3 DEF Ready, Asked, OnItem
  <2>2. ChangesList(c) /\ d.lists[c.list].version = x
    BY <1>1, <2>1, CommandTypes DEF Ready, TouchesList
  <2>3. OwnCorrections(e, p) = OwnCorrections(d, p) \cup {new}
    BY <1>3 DEF Leaves, OwnCorrections, Correction
  <2>4. \A y \in OwnCorrections(d, p) : y.sequence \in Nat /\ y.sequence < new.sequence
    BY <1>1, <2>1, <2>2, CorrectionsBefore DEF Correction
  <2>5. new.sequence \in Nat /\ new.quantity = c.quantity
    BY <1>1 DEF Correction
  <2> HIDE DEF new
  <2>6. LastOf(OwnCorrections(e, p)) = new
    BY <2>3, <2>4, <2>5, LastIsNew
  <2> QED
    BY <1>3, <2>3, <2>5, <2>6, EffectiveOf
<1>4. CASE ~ (c.kind \in {"PURCHASE", "CORRECT"} /\ p = c.purchase)
  <2>1. OwnCorrections(e, p) = OwnCorrections(d, p)
    BY <1>4 DEF Leaves, OwnCorrections, Correction
  <2>2. e.purchases[p] = d.purchases[p]
    BY <1>4 DEF Leaves
  <2> QED
    BY <1>4, <2>1, <2>2, EffectiveOf
<1> QED
  BY <1>2, <1>3, <1>4

LEMMA PurchasesOfAfter ==
    ASSUME NEW d, NEW e, NEW c, NEW x, NEW seen, Ready(d, c, x, seen),
           Leaves(d, e, c, x, seen), NEW i \in Items
    PROVE  PurchasesOf(e, i) = IF c.kind = "PURCHASE" /\ i = c.item
                               THEN PurchasesOf(d, i) \cup {c.purchase}
                               ELSE PurchasesOf(d, i)
<1>1. c.purchase \in Purchases /\ i # NoItem
  BY CommandTypes, CommandsAssumption DEF Ready
<1>2. c.kind = "PURCHASE" => c.purchase \notin PurchasesOf(d, i)
  BY <1>1 DEF Ready, PurchasesOf
<1>3. \A p \in Purchases :
          e.purchases[p].item = IF c.kind = "PURCHASE" /\ p = c.purchase THEN c.item
                                ELSE d.purchases[p].item
  BY DEF Leaves
<1> QED
  BY <1>1, <1>2, <1>3 DEF PurchasesOf

\* The total of an item after a commit is what the command counted.
LEMMA TotalAfter ==
    ASSUME NEW d, NEW e, NEW c, NEW x, NEW seen, Ready(d, c, x, seen),
           Leaves(d, e, c, x, seen), NEW i \in Items
    PROVE  Total(e, i) = IF About(c) /\ i = c.item THEN PurchasedBy(c, seen)
                         ELSE Total(d, i)
<1> DEFINE S == PurchasesOf(d, i)
           p == c.purchase
           f == [q \in Purchases |-> Effective(d, q)]
           g == [q \in Purchases |-> Effective(e, q)]
<1>1. /\ c \in Commands /\ Placed(d) /\ p \in Purchases /\ c.quantity \in Nat
      /\ S \subseteq Purchases /\ IsFiniteSet(Purchases) /\ IsFiniteSet(S)
      /\ i # NoItem /\ RowsOK(d)
  BY CommandTypes, CommandsAssumption, BoundsAssumption, FS_Subset
  DEF Ready, RowsOK, PurchasesOf
<1>2. \A q \in Purchases : f[q] \in Nat /\ f[q] = Effective(d, q)
  BY <1>1 DEF Placed
<1>3. \A q \in Purchases : g[q] = IF c.kind \in {"PURCHASE", "CORRECT"} /\ q = p
                                  THEN c.quantity ELSE f[q]
  BY EffectiveAfter
<1>4. Total(d, i) = SumFunctionOnSet(f, S)
  BY DEF Total
<1>5. Total(e, i) = SumFunctionOnSet(g, PurchasesOf(e, i))
  BY DEF Total
<1> HIDE DEF f, g
<1>6. CASE c.kind = "PURCHASE" /\ i = c.item
  <2>1. PurchasesOf(e, i) = S \cup {p} /\ p \notin S
    BY <1>1, <1>6, PurchasesOfAfter DEF Ready, PurchasesOf
  <2>2. IsFiniteSet(S \cup {p})
    BY <1>1, FS_AddElement
  <2>3. \A q \in S \cup {p} : g[q] \in Int
    BY <1>1, <1>2, <1>3
  <2>4. SumFunctionOnSet(g, S \cup {p}) = g[p] + SumFunctionOnSet(g, (S \cup {p}) \ {p})
    BY <2>2, <2>3, SumOfOthers
  <2>5. (S \cup {p}) \ {p} = S
    BY <2>1
  <2>6. \A q \in S : g[q] = f[q]
    BY <1>1, <1>3, <2>1
  <2>7. SumFunctionOnSet(g, S) = SumFunctionOnSet(f, S)
    BY <1>1, <2>6, SumOfSame
  <2>8. Total(e, i) = c.quantity + Total(d, i)
    BY <1>1, <1>3, <1>4, <1>5, <1>6, <2>1, <2>4, <2>5, <2>7
  <2>9. seen.total = Total(d, i) /\ About(c)
    BY <1>6 DEF Ready, OnItem, About
  <2> QED
    BY <1>1, <1>6, <2>8, <2>9, TotalIsNat DEF PurchasedBy
<1>7. CASE c.kind = "CORRECT" /\ i = c.item
  <2>1. PurchasesOf(e, i) = S /\ p \in S
    BY <1>1, <1>7, PurchasesOfAfter DEF Ready, Asked, PurchasesOf
  <2>2. SumFunctionOnSet(g, S) = g[p] + SumFunctionOnSet(g, S \ {p})
    <3>1. \A q \in S : g[q] \in Int
      BY <1>1, <1>2, <1>3
    <3> QED
      BY <1>1, <2>1, <3>1, SumOfOthers
  <2>3. SumFunctionOnSet(f, S) = f[p] + SumFunctionOnSet(f, S \ {p})
    <3>1. \A q \in S : f[q] \in Int
      BY <1>1, <1>2
    <3> QED
      BY <1>1, <2>1, <3>1, SumOfOthers
  <2>4. SumFunctionOnSet(g, S \ {p}) = SumFunctionOnSet(f, S \ {p})
    <3>1. \A q \in S \ {p} : g[q] = f[q]
      BY <1>1, <1>3
    <3>2. IsFiniteSet(S \ {p})
      BY <1>1, FS_Subset
    <3> QED
      BY <3>1, <3>2, SumOfSame
  <2>5. SumFunctionOnSet(f, S \ {p}) \in Int
    <3>1. \A q \in S \ {p} : f[q] \in Int
      BY <1>1, <1>2
    <3>2. IsFiniteSet(S \ {p})
      BY <1>1, FS_Subset
    <3> QED
      BY <3>1, <3>2, SumIsInt
  <2>6. /\ seen.total = Total(d, i) /\ seen.effective = Effective(d, p) /\ About(c)
        /\ ~ TooMuch(c, seen)
    BY <1>7 DEF Ready, OnItem, About
  <2>7. seen.effective = f[p] /\ f[p] \in Nat /\ Total(d, i) \in Nat /\ g[p] = c.quantity
    BY <1>1, <1>2, <1>3, <1>7, <2>6, TotalIsNat
  <2>8. PurchasedBy(c, seen) = (IF seen.total > seen.effective
                                THEN seen.total - seen.effective ELSE 0) + c.quantity
    BY <1>7 DEF PurchasedBy
  <2>9. seen.effective <= seen.total
    BY <1>7, <2>6, <2>7 DEF TooMuch
  <2>10. Total(e, i) = c.quantity + SumFunctionOnSet(f, S \ {p})
    BY <1>5, <2>1, <2>2, <2>4, <2>7
  <2> QED
    BY <1>1, <1>4, <1>7, <2>3, <2>5, <2>6, <2>7, <2>8, <2>9, <2>10
<1>8. CASE ~ (c.kind \in {"PURCHASE", "CORRECT"} /\ i = c.item)
  <2>1. PurchasesOf(e, i) = S
    BY <1>8, PurchasesOfAfter
  <2>2. c.kind \in {"PURCHASE", "CORRECT"} => p \notin S
    BY <1>1, <1>8 DEF Ready, Asked, PurchasesOf
  <2>3. \A q \in S : g[q] = f[q]
    BY <1>1, <1>3, <2>2
  <2>4. Total(e, i) = Total(d, i)
    BY <1>1, <1>4, <1>5, <2>1, <2>3, SumOfSame
  <2>5. c.kind \in {"NEED", "REMOVE"} /\ i = c.item => PurchasedBy(c, seen) = Total(d, i)
    BY DEF PurchasedBy, Ready, OnItem
  <2>6. c.kind = "ADD" /\ i = c.item => PurchasedBy(c, seen) = Total(d, i)
    <3> SUFFICES ASSUME c.kind = "ADD", i = c.item
                 PROVE  Total(d, i) = 0 /\ PurchasedBy(c, seen) = 0
      OBVIOUS
    <3>1. S = {}
      BY <1>1 DEF Ready, Placed, PurchasesOf
    <3> QED
      BY <1>4, <3>1, SumOfNone DEF PurchasedBy
  <2>7. About(c) /\ i = c.item => c.kind \in {"ADD", "NEED", "REMOVE"}
    BY <1>8 DEF About, OnItem
  <2> QED
    BY <2>4, <2>5, <2>6, <2>7
<1> QED
  BY <1>6, <1>7, <1>8

-----------------------------------------------------------------------------
(***************************************************************************)
(* What a commit leaves is a state of the rows again, which has grown.     *)
(***************************************************************************)
\* What is used of the two facts in the lemmas below.
LEMMA CommitFacts ==
    ASSUME NEW d, NEW e, NEW c, NEW x, NEW seen, Ready(d, c, x, seen), e \in Tables,
           Leaves(d, e, c, x, seen)
    PROVE  /\ d \in Tables /\ c \in Commands /\ x \in Nat /\ x + 1 \in Nat
           /\ c.kind \in Kinds /\ c.key \in Keys /\ c.item \in Items
           /\ c.purchase \in Purchases /\ c.task \in Tasks /\ c.item # NoItem
           /\ c.quantity \in Nat
           /\ TouchesList(c) => c.list \in Lists /\ d.lists[c.list].version = x
           /\ TouchesTask(c) <=> ~ TouchesList(c)
           /\ About(c) => TouchesList(c) /\ ChangesList(c)
           /\ \A l \in Lists : d.lists[l] \in ListRows /\ e.lists[l] \in ListRows
           /\ \A l \in Lists : d.lists[l].version \in Nat /\ e.lists[l].version \in Nat
           /\ Made(d) /\ Numbered(d) /\ Placed(d) /\ Tells(d)
           /\ \A k \in Keys : ReceiptOK(d, k)
<1>1. d \in Tables /\ c \in Commands /\ x \in Nat
  BY DEF Ready, RowsOK
<1>2. \A l \in Lists : d.lists[l] \in ListRows /\ e.lists[l] \in ListRows
  BY <1>1, RowTypes
<1> QED
  BY <1>1, <1>2, CommandTypes, CommandsAssumption DEF Ready, RowsOK, TouchesList, ListRows

LEMMA CommitGrows ==
    ASSUME NEW d, NEW e, NEW c, NEW x, NEW seen, Ready(d, c, x, seen), e \in Tables,
           Leaves(d, e, c, x, seen)
    PROVE  Grows(d, e)
<1>1. d.space = "CLOSED" => e.space = "CLOSED"
  BY DEF Leaves
<1>2. ASSUME NEW l \in Lists
      PROVE  /\ d.lists[l].version <= e.lists[l].version
             /\ d.lists[l].version = e.lists[l].version => d.lists[l] = e.lists[l]
             /\ d.lists[l].status = "ARCHIVED" => e.lists[l].status = "ARCHIVED"
             /\ TouchesList(c) /\ l = c.list => d.lists[l].version < e.lists[l].version
  <2>1. CASE ~ (TouchesList(c) /\ l = c.list)
    <3>1. e.lists[l] = d.lists[l]
      BY <2>1 DEF Leaves
    <3>2. d.lists[l].version \in Nat
      BY CommitFacts
    <3> QED
      BY <2>1, <3>1, <3>2
  <2>2. CASE TouchesList(c) /\ l = c.list
    <3>1. e.lists[l].version = x + 1 /\ d.lists[l].version = x /\ x \in Nat
      <4>1. e.lists[l] = ListAfter(c, x + 1)
        BY <2>2 DEF Leaves
      <4>2. d.lists[l].version = x /\ x \in Nat
        BY <2>2, CommitFacts
      <4> QED
        BY <4>1, <4>2 DEF ListAfter
    <3>2. d.lists[l].status # "ARCHIVED"
      <4>1. CASE ChangesList(c)
        BY <2>2, <4>1 DEF Ready
      <4>2. CASE c.kind = "CREATE"
        <5>1. x = 0
          BY <4>2 DEF Ready, Asked, IsNew
        <5> QED
          BY <3>1, <5>1, CommitFacts DEF Numbered
      <4> QED
        BY <2>2, <4>1, <4>2 DEF TouchesList
    <3> QED
      BY <3>1, <3>2
  <2> QED
    BY <2>1, <2>2
<1>3. ASSUME NEW t \in Tasks
      PROVE  d.tasks[t].version <= e.tasks[t].version
  <2>1. d.tasks[t].version \in Nat
    BY CommitFacts, RowTypes DEF TaskRows
  <2>2. CASE ~ (TouchesTask(c) /\ t = c.task)
    <3>1. e.tasks[t] = d.tasks[t]
      BY <2>2 DEF Leaves
    <3> QED
      BY <2>1, <3>1
  <2>3. CASE TouchesTask(c) /\ t = c.task
    <3>1. e.tasks[t].version = x + 1 /\ d.tasks[t].version = x /\ x \in Nat
      BY <2>3, CommitFacts DEF Leaves, Ready
    <3> QED
      BY <3>1
  <2> QED
    BY <2>2, <2>3
<1>4. \A k \in Keys : d.receipts[k] # NoReceipt => e.receipts[k] = d.receipts[k]
  BY DEF Leaves, Ready
<1>5. ASSUME NEW i \in Items, d.items[i].status # "NONE"
      PROVE  e.items[i].status # "NONE"
  <2>1. \/ e.items[i] = d.items[i]
        \/ e.items[i] = [status |-> "ACTIVE", desired |-> c.quantity]
        \/ e.items[i] = [status |-> "REMOVED", desired |-> d.items[i].desired]
    BY DEF Leaves
  <2> QED
    BY <1>5, <2>1
<1>6. \A p \in Purchases :
          d.purchases[p].item # NoItem => e.purchases[p].item = d.purchases[p].item
  BY DEF Leaves, Ready
<1>7. ASSUME NEW b \in Commands, OnItem(b), d.lists[b.list].version = e.lists[b.list].version
      PROVE  /\ e.items[b.item] = d.items[b.item]
             /\ Total(e, b.item) = Total(d, b.item)
             /\ d.purchases[b.purchase].item = b.item =>
                    Effective(e, b.purchase) = Effective(d, b.purchase)
  <2>1. b.list \in Lists /\ b.item \in Items /\ b.purchase \in Purchases /\ About(b)
    BY <1>7, CommandTypes DEF TouchesList
  <2>2. ~ (TouchesList(c) /\ b.list = c.list)
    BY <1>2, <1>7, <2>1, CommitFacts
  <2>3. ~ (About(c) /\ b.item = c.item)
    BY <2>1, <2>2, CommitFacts, IdsAssumption
  <2>4. e.items[b.item] = d.items[b.item]
    BY <2>1, <2>3 DEF Leaves, About, OnItem
  <2>5. Total(e, b.item) = Total(d, b.item)
    BY <2>1, <2>3, TotalAfter
  <2>6. ASSUME d.purchases[b.purchase].item = b.item
        PROVE  Effective(e, b.purchase) = Effective(d, b.purchase)
    <3>1. c.kind = "PURCHASE" => b.purchase # c.purchase
      BY <2>1, <2>6, CommandsAssumption DEF Ready
    <3>2. c.kind = "CORRECT" => b.purchase # c.purchase
      BY <2>3, <2>6 DEF Ready, Asked, About, OnItem
    <3> QED
      BY <2>1, <3>1, <3>2, EffectiveAfter
  <2> QED
    BY <2>4, <2>5, <2>6
<1> QED
  BY <1>1, <1>2, <1>3, <1>4, <1>5, <1>6, <1>7 DEF Grows

LEMMA CommitMade ==
    ASSUME NEW d, NEW e, NEW c, NEW x, NEW seen, Ready(d, c, x, seen), e \in Tables,
           Leaves(d, e, c, x, seen)
    PROVE  Made(e)
<1> SUFFICES ASSUME NEW b \in Commands, e.receipts[b.key] = NoReceipt
             PROVE  /\ b.kind = "CREATE" => e.lists[b.list].version = 0
                    /\ b.kind = "CREATE_TASK" => e.tasks[b.task].version = 0
                    /\ b.kind = "ADD" => e.items[b.item].status = "NONE"
                    /\ b.kind = "PURCHASE" => e.purchases[b.purchase].item = NoItem
  BY DEF Made
<1>1. e.receipts[c.key] # NoReceipt
  <2>1. e.receipts[c.key].status = "KEPT"
    BY CommitFacts DEF Leaves, Receipt
  <2> QED
    BY <2>1 DEF NoReceipt
<1>2. b.key # c.key /\ b # c
  BY <1>1
<1>3. /\ b.key \in Keys /\ b.item \in Items /\ b.purchase \in Purchases /\ b.task \in Tasks
      /\ b.kind = "CREATE" => b.list \in Lists
  BY CommandTypes DEF TouchesList
<1>4. d.receipts[b.key] = NoReceipt
  BY <1>2, <1>3 DEF Leaves
<1>5. /\ b.kind = "CREATE" => d.lists[b.list].version = 0
      /\ b.kind = "CREATE_TASK" => d.tasks[b.task].version = 0
      /\ b.kind = "ADD" => d.items[b.item].status = "NONE"
      /\ b.kind = "PURCHASE" => d.purchases[b.purchase].item = NoItem
  BY <1>4, CommitFacts DEF Made
<1>6. ASSUME b.kind = "CREATE"
      PROVE  e.lists[b.list].version = 0
  <2>1. ~ (TouchesList(c) /\ b.list = c.list)
    <3>1. c.kind = "CREATE" => b.list # c.list
      BY <1>2, <1>6, CommitFacts, IdsAssumption
    <3>2. ChangesList(c) => d.lists[c.list].version # 0
      BY CommitFacts DEF Ready, Asked
    <3> QED
      BY <1>5, <1>6, <3>1, <3>2 DEF TouchesList
  <2> QED
    BY <1>3, <1>5, <1>6, <2>1 DEF Leaves
<1>7. ASSUME b.kind = "CREATE_TASK"
      PROVE  e.tasks[b.task].version = 0
  <2>1. ~ (TouchesTask(c) /\ b.task = c.task)
    <3>1. c.kind = "CREATE_TASK" => b.task # c.task
      BY <1>2, <1>7, CommitFacts, IdsAssumption
    <3>2. OnTask(c) => d.tasks[c.task].version # 0
      BY CommitFacts DEF Ready, Asked
    <3> QED
      BY <1>5, <1>7, <3>1, <3>2 DEF TouchesTask
  <2> QED
    BY <1>3, <1>5, <1>7, <2>1 DEF Leaves
<1>8. ASSUME b.kind = "ADD"
      PROVE  e.items[b.item].status = "NONE"
  <2>1. c.kind = "ADD" => b.item # c.item
    BY <1>2, <1>8, CommitFacts, IdsAssumption
  <2>2. OnItem(c) => b.item # c.item
    BY <1>5, <1>8 DEF Ready
  <2> QED
    BY <1>3, <1>5, <1>8, <2>1, <2>2 DEF Leaves, OnItem
<1>9. ASSUME b.kind = "PURCHASE"
      PROVE  e.purchases[b.purchase].item = NoItem
  <2>1. c.kind = "PURCHASE" => b.purchase # c.purchase
    BY <1>2, <1>9, CommitFacts, IdsAssumption
  <2> QED
    BY <1>3, <1>5, <1>9, <2>1 DEF Leaves
<1> QED
  BY <1>6, <1>7, <1>8, <1>9

LEMMA CommitNumbered ==
    ASSUME NEW d, NEW e, NEW c, NEW x, NEW seen, Ready(d, c, x, seen), e \in Tables,
           Leaves(d, e, c, x, seen)
    PROVE  Numbered(e)
<1>1. Grows(d, e)
  BY CommitGrows
<1>2. ASSUME NEW l \in Lists
      PROVE  e.lists[l].version = 0 <=> e.lists[l].status = "NONE"
  <2>1. CASE ~ (TouchesList(c) /\ l = c.list)
    <3>1. e.lists[l] = d.lists[l]
      BY <2>1 DEF Leaves
    <3>2. Numbered(d)
      BY CommitFacts
    <3> QED
      BY <3>1, <3>2 DEF Numbered
  <2>2. CASE TouchesList(c) /\ l = c.list
    <3>1. e.lists[l] = ListAfter(c, x + 1)
      BY <2>2 DEF Leaves
    <3>2. x \in Nat
      BY CommitFacts
    <3> QED
      BY <3>1, <3>2 DEF ListAfter
  <2> QED
    BY <2>1, <2>2
<1>3. ASSUME NEW ev \in d.history
      PROVE  /\ ev.command.list \in Lists
             /\ ev.sequence <= e.lists[ev.command.list].version
             /\ About(ev.command) => e.items[ev.command.item].status # "NONE"
  <2>1. ev.sequence \in Nat /\ ev.command \in Commands
    BY CommitFacts, RowTypes DEF Events
  <2>2. /\ ev.command.list \in Lists
        /\ ev.sequence <= d.lists[ev.command.list].version
        /\ About(ev.command) => d.items[ev.command.item].status # "NONE"
    BY CommitFacts DEF Numbered
  <2>3. d.lists[ev.command.list].version <= e.lists[ev.command.list].version
    BY <1>1, <2>2 DEF Grows
  <2>4. ev.command.item \in Items
    BY <2>1, CommandTypes
  <2> QED
    BY <1>1, <2>1, <2>2, <2>3, <2>4, CommitFacts DEF Grows
<1>4. TouchesList(c) =>
          /\ c.list \in Lists
          /\ x + 1 <= e.lists[c.list].version
          /\ About(c) => e.items[c.item].status # "NONE"
  <2> SUFFICES ASSUME TouchesList(c)
               PROVE  /\ c.list \in Lists /\ x + 1 <= e.lists[c.list].version
                      /\ About(c) => e.items[c.item].status # "NONE"
    OBVIOUS
  <2>1. c.list \in Lists /\ x + 1 \in Nat /\ c.item \in Items
    BY CommitFacts
  <2>2. e.lists[c.list].version = x + 1
    BY <2>1 DEF Leaves, ListAfter
  <2>3. OnItem(c) => e.items[c.item].status # "NONE"
    <3>1. OnItem(c) => d.items[c.item].status = "ACTIVE"
      BY DEF Ready
    <3> QED
      BY <1>1, <2>1, <3>1 DEF Grows
  <2>4. c.kind = "ADD" => e.items[c.item].status # "NONE"
    <3>1. c.kind = "ADD" => e.items[c.item] = [status |-> "ACTIVE", desired |-> c.quantity]
      BY <2>1 DEF Leaves
    <3> QED
      BY <3>1
  <2> QED
    BY <2>1, <2>2, <2>3, <2>4 DEF About
<1>5. ASSUME NEW ev \in e.history
      PROVE  /\ ev.command.list \in Lists
             /\ ev.sequence <= e.lists[ev.command.list].version
             /\ About(ev.command) => e.items[ev.command.item].status # "NONE"
  <2>1. CASE ev \in d.history
    BY <1>3, <2>1
  <2>2. CASE ev \notin d.history
    <3>1. TouchesList(c) /\ ev = Event(c, x + 1)
      BY <1>5, <2>2 DEF Leaves
    <3> QED
      BY <1>4, <3>1 DEF Event
  <2> QED
    BY <2>1, <2>2
<1> QED
  BY <1>2, <1>5 DEF Numbered

LEMMA CommitPlaced ==
    ASSUME NEW d, NEW e, NEW c, NEW x, NEW seen, Ready(d, c, x, seen), e \in Tables,
           Leaves(d, e, c, x, seen)
    PROVE  Placed(e)
<1>1. Grows(d, e)
  BY CommitGrows
<1>2. \A p \in Purchases : Effective(e, p) \in Nat
  BY CommitFacts, EffectiveAfter DEF Placed
<1>3. ASSUME NEW p \in Purchases, e.purchases[p].item # NoItem
      PROVE  e.items[e.purchases[p].item].status # "NONE"
  <2>1. CASE c.kind = "PURCHASE" /\ p = c.purchase
    <3>1. e.purchases[p].item = c.item
      BY <2>1 DEF Leaves
    <3>2. d.items[c.item].status # "NONE"
      BY <2>1 DEF Ready, OnItem
    <3> QED
      BY <1>1, <3>1, <3>2, CommitFacts DEF Grows
  <2>2. CASE ~ (c.kind = "PURCHASE" /\ p = c.purchase)
    <3>1. e.purchases[p] = d.purchases[p]
      BY <2>2 DEF Leaves
    <3>2. d.items[d.purchases[p].item].status # "NONE"
      BY <1>3, <3>1, CommitFacts DEF Placed
    <3>3. d.purchases[p].item \in Items
      BY <1>3, <3>1, CommitFacts, RowTypes DEF Bought
    <3> QED
      BY <1>1, <3>1, <3>2, <3>3 DEF Grows
  <2> QED
    BY <2>1, <2>2
<1>4. ASSUME NEW y \in e.corrections
      PROVE  \E ev \in e.history :
                 /\ ev.command.kind = "CORRECT" /\ ev.command.purchase = y.purchase
                 /\ ev.sequence = y.sequence
                 /\ e.purchases[y.purchase].item = ev.command.item
  <2>1. CASE y \in d.corrections
    <3>1. PICK ev \in d.history :
                 /\ ev.command.kind = "CORRECT" /\ ev.command.purchase = y.purchase
                 /\ ev.sequence = y.sequence
                 /\ d.purchases[y.purchase].item = ev.command.item
      BY <2>1, CommitFacts DEF Placed
    <3>2. ev \in e.history
      BY DEF Leaves
    <3>3. ev.command \in Commands /\ y.purchase \in Purchases
      BY <2>1, CommitFacts, RowTypes DEF Events, Corrections
    <3>4. ev.command.item # NoItem
      BY <3>3, CommandTypes, CommandsAssumption
    <3>5. e.purchases[y.purchase].item = d.purchases[y.purchase].item
      BY <1>1, <3>1, <3>3, <3>4 DEF Grows
    <3> QED
      BY <3>1, <3>2, <3>5
  <2>2. CASE y \notin d.corrections
    <3>1. c.kind = "CORRECT" /\ y = Correction(c, x + 1)
      BY <1>4, <2>2 DEF Leaves
    <3>2. TouchesList(c)
      BY <3>1 DEF TouchesList, ChangesList
    <3>3. Event(c, x + 1) \in e.history
      BY <3>2 DEF Leaves
    <3>4. e.purchases[c.purchase].item = c.item
      <4>1. d.purchases[c.purchase].item = c.item
        BY <3>1 DEF Ready, Asked
      <4>2. c.purchase \in Purchases
        BY CommitFacts
      <4> QED
        BY <3>1, <4>1, <4>2 DEF Leaves
    <3> QED
      BY <3>1, <3>3, <3>4 DEF Event, Correction
  <2> QED
    BY <2>1, <2>2
<1> QED
  BY <1>2, <1>3, <1>4 DEF Placed

-----------------------------------------------------------------------------
(***************************************************************************)
(* The history after a commit tells what the rows hold.                    *)
(***************************************************************************)
AboutKinds == {"ADD", "NEED", "REMOVE", "PURCHASE", "CORRECT"}

\* The command is told of its item.
TellsOf(c, b, kinds) == About(c) /\ c.item = b.item /\ c.kind \in kinds

LEMMA EventsAfter ==
    ASSUME NEW d, NEW e, NEW c, NEW x, NEW seen, Ready(d, c, x, seen), e \in Tables,
           Leaves(d, e, c, x, seen),
           NEW b \in Commands, About(b), NEW kinds \in SUBSET AboutKinds
    PROVE  /\ EventsOf(e, b, kinds) =
                  EventsOf(d, b, kinds) \cup
                  (IF TellsOf(c, b, kinds) THEN {Event(c, x + 1)} ELSE {})
           /\ About(c) /\ c.item = b.item =>
                  \A f \in EventsOf(d, b, kinds) : f.sequence \in Nat /\ f.sequence < x + 1
<1>1. /\ c \in Commands /\ x \in Nat /\ d \in Tables /\ Numbered(d)
      /\ About(c) => TouchesList(c) /\ d.lists[c.list].version = x
  BY CommitFacts
<1>2. About(c) /\ c.item = b.item => c.list = b.list
  BY <1>1, IdsAssumption
<1>3. c.kind \in kinds => About(c)
  BY DEF AboutKinds, About, OnItem
<1>4. e.history = IF TouchesList(c) THEN d.history \cup {Event(c, x + 1)} ELSE d.history
  BY DEF Leaves
<1>5. Event(c, x + 1).command = c
  BY DEF Event
<1>6. EventsOf(e, b, kinds) =
          EventsOf(d, b, kinds) \cup (IF TellsOf(c, b, kinds) THEN {Event(c, x + 1)} ELSE {})
  <2>1. CASE TellsOf(c, b, kinds)
    <3>1. TouchesList(c) /\ c.list = b.list /\ c.item = b.item /\ c.kind \in kinds
      BY <1>1, <1>2, <2>1 DEF TellsOf
    <3> QED
      BY <1>4, <1>5, <2>1, <3>1 DEF EventsOf
  <2>2. CASE ~ TellsOf(c, b, kinds)
    <3>1. ~ (c.list = b.list /\ c.item = b.item /\ c.kind \in kinds)
      BY <1>3, <2>2 DEF TellsOf
    <3> QED
      BY <1>4, <1>5, <2>2, <3>1 DEF EventsOf
  <2> QED
    BY <2>1, <2>2
<1>7. ASSUME About(c), c.item = b.item, NEW f \in EventsOf(d, b, kinds)
      PROVE  f.sequence \in Nat /\ f.sequence < x + 1
  <2>1. f \in d.history /\ f.command.list = c.list
    BY <1>2, <1>7 DEF EventsOf
  <2>2. f.sequence \in Nat
    BY <1>1, <2>1, RowTypes DEF Events
  <2>3. f.sequence <= x
    BY <1>1, <1>7, <2>1 DEF Numbered
  <2> QED
    BY <1>1, <2>2, <2>3
<1> QED
  BY <1>6, <1>7

LEMMA ToldAfter ==
    ASSUME NEW d, NEW e, NEW c, NEW x, NEW seen, Ready(d, c, x, seen), e \in Tables,
           Leaves(d, e, c, x, seen), NEW b \in Commands, About(b), NEW p
    PROVE  ToldOf(e, b, p) = IF TellsOf(c, b, {"PURCHASE", "CORRECT"}) /\ p = c.purchase
                             THEN Event(c, x + 1) ELSE ToldOf(d, b, p)
<1> DEFINE kinds == {"PURCHASE", "CORRECT"}
           ev    == Event(c, x + 1)
           E     == {f \in EventsOf(d, b, kinds) : f.command.purchase = p}
<1>1. kinds \in SUBSET AboutKinds
  BY DEF AboutKinds
<1>2. ev.command = c /\ ev.sequence = x + 1 /\ x + 1 \in Nat
  BY CommitFacts DEF Event
<1> HIDE DEF kinds, ev
<1>3. /\ EventsOf(e, b, kinds) =
             EventsOf(d, b, kinds) \cup (IF TellsOf(c, b, kinds) THEN {ev} ELSE {})
      /\ About(c) /\ c.item = b.item =>
             \A f \in EventsOf(d, b, kinds) : f.sequence \in Nat /\ f.sequence < ev.sequence
  BY <1>1, <1>2, EventsAfter DEF ev
<1>4. ToldOf(e, b, p) = LastOf({f \in EventsOf(e, b, kinds) : f.command.purchase = p})
      /\ ToldOf(d, b, p) = LastOf(E)
  BY DEF ToldOf, kinds
<1>5. CASE TellsOf(c, b, kinds) /\ p = c.purchase
  <2>1. {f \in EventsOf(e, b, kinds) : f.command.purchase = p} = E \cup {ev}
    BY <1>2, <1>3, <1>5
  <2>2. \A f \in E : f.sequence \in Nat /\ f.sequence < ev.sequence
    BY <1>3, <1>5 DEF TellsOf
  <2>3. LastOf(E \cup {ev}) = ev
    BY <1>2, <2>2, LastIsNew
  <2> QED
    BY <1>4, <1>5, <2>1, <2>3 DEF kinds, ev
<1>6. CASE ~ (TellsOf(c, b, kinds) /\ p = c.purchase)
  <2>1. {f \in EventsOf(e, b, kinds) : f.command.purchase = p} = E
    BY <1>2, <1>3, <1>6
  <2> QED
    BY <1>4, <1>6, <2>1 DEF kinds
<1> QED
  BY <1>5, <1>6

\* Nothing is told of an item that is added now.
LEMMA AddedIsNew ==
    ASSUME NEW d, NEW e, NEW c, NEW x, NEW seen, Ready(d, c, x, seen), e \in Tables,
           Leaves(d, e, c, x, seen), c.kind = "ADD",
           NEW b \in Commands, About(b), b.item = c.item
    PROVE  /\ \A kinds \in SUBSET AboutKinds : EventsOf(d, b, kinds) = {}
           /\ PurchasesOf(d, c.item) = {}
<1>1. d.items[c.item].status = "NONE"
  BY DEF Ready
<1>2. Numbered(d) /\ Placed(d) /\ c.item # NoItem
  BY CommitFacts
<1>3. ASSUME NEW kinds \in SUBSET AboutKinds, NEW f \in EventsOf(d, b, kinds)
      PROVE  FALSE
  <2>1. f \in d.history /\ f.command.item = c.item /\ f.command.kind \in AboutKinds
    BY <1>3 DEF EventsOf
  <2>2. About(f.command)
    BY <2>1 DEF About, OnItem, AboutKinds
  <2> QED
    BY <1>1, <1>2, <2>1, <2>2 DEF Numbered
<1>4. PurchasesOf(d, c.item) = {}
  BY <1>1, <1>2 DEF Placed, PurchasesOf
<1> QED
  BY <1>3, <1>4

LEMMA CommitTellsItem ==
    ASSUME NEW d, NEW e, NEW c, NEW x, NEW seen, Ready(d, c, x, seen), e \in Tables,
           Leaves(d, e, c, x, seen),
           NEW b \in Commands, About(b), e.items[b.item].status # "NONE"
    PROVE  TellsItem(e, b)
<1> DEFINE removals(f) == EventsOf(f, b, {"REMOVE"})
           needs(f)    == EventsOf(f, b, {"ADD", "NEED"})
           ev          == Event(c, x + 1)
<1>1. {"REMOVE"} \in SUBSET AboutKinds /\ {"ADD", "NEED"} \in SUBSET AboutKinds
  BY DEF AboutKinds
<1>2. ev.command = c /\ ev.sequence = x + 1 /\ x + 1 \in Nat
  BY CommitFacts DEF Event
<1>3. b.item \in Items /\ c.kind \in Kinds /\ Tells(d)
  BY CommandTypes, CommitFacts
<1> HIDE DEF ev
<1>4. removals(e) = removals(d) \cup (IF TellsOf(c, b, {"REMOVE"}) THEN {ev} ELSE {})
  BY <1>1, EventsAfter DEF ev
<1>5. needs(e) = needs(d) \cup (IF TellsOf(c, b, {"ADD", "NEED"}) THEN {ev} ELSE {})
  BY <1>1, EventsAfter DEF ev
<1>6. About(c) /\ c.item = b.item =>
          \A f \in needs(d) : f.sequence \in Nat /\ f.sequence < ev.sequence
  BY <1>1, <1>2, EventsAfter
<1> HIDE DEF removals, needs
<1>7. d.items[b.item].status # "NONE" =>
          /\ removals(d) = {} <=> d.items[b.item].status = "ACTIVE"
          /\ LastOf(needs(d)).command.quantity = d.items[b.item].desired
  BY <1>3 DEF Tells, TellsItem, removals, needs
<1>8. (/\ removals(e) = {} <=> e.items[b.item].status = "ACTIVE"
       /\ LastOf(needs(e)).command.quantity = e.items[b.item].desired) => TellsItem(e, b)
  BY DEF TellsItem, removals, needs
<1>9. CASE TellsOf(c, b, {"ADD", "NEED"})
  <2>1. c.kind \in {"ADD", "NEED"} /\ b.item = c.item /\ About(c)
    BY <1>9 DEF TellsOf
  <2>2. e.items[b.item] = [status |-> "ACTIVE", desired |-> c.quantity]
    BY <1>3, <2>1 DEF Leaves
  <2>3. LastOf(needs(e)) = ev
    BY <1>2, <1>5, <1>6, <1>9, <2>1, LastIsNew
  <2>4. removals(d) = {}
    <3>1. CASE c.kind = "ADD"
      BY <1>1, <2>1, <3>1, AddedIsNew DEF removals
    <3>2. CASE c.kind = "NEED"
      <4>1. d.items[b.item].status = "ACTIVE"
        BY <2>1, <3>2 DEF Ready, OnItem
      <4> QED
        BY <1>7, <4>1
    <3> QED
      BY <2>1, <3>1, <3>2
  <2>5. ~ TellsOf(c, b, {"REMOVE"})
    BY <2>1 DEF TellsOf
  <2> QED
    BY <1>2, <1>4, <1>8, <2>2, <2>3, <2>4, <2>5
<1>10. CASE TellsOf(c, b, {"REMOVE"})
  <2>1. c.kind = "REMOVE" /\ b.item = c.item
    BY <1>10 DEF TellsOf
  <2>2. d.items[b.item].status = "ACTIVE"
    BY <2>1 DEF Ready, OnItem
  <2>3. e.items[b.item] = [status |-> "REMOVED", desired |-> d.items[b.item].desired]
    BY <1>3, <2>1 DEF Leaves
  <2>4. needs(e) = needs(d)
    BY <1>5, <2>1 DEF TellsOf
  <2> QED
    BY <1>4, <1>7, <1>8, <1>10, <2>2, <2>3, <2>4
<1>11. CASE ~ TellsOf(c, b, {"ADD", "NEED"}) /\ ~ TellsOf(c, b, {"REMOVE"})
  <2>1. ~ (c.kind \in {"ADD", "NEED", "REMOVE"} /\ b.item = c.item)
    BY <1>11 DEF TellsOf, About, OnItem
  <2>2. e.items[b.item] = d.items[b.item]
    BY <1>3, <2>1 DEF Leaves
  <2> QED
    BY <1>4, <1>5, <1>7, <1>8, <1>11, <2>2
<1> QED
  BY <1>9, <1>10, <1>11

LEMMA CommitTellsPurchases ==
    ASSUME NEW d, NEW e, NEW c, NEW x, NEW seen, Ready(d, c, x, seen), e \in Tables,
           Leaves(d, e, c, x, seen),
           NEW b \in Commands, About(b), e.items[b.item].status # "NONE"
    PROVE  TellsPurchases(e, b)
<1> DEFINE bought(f) == {g.command.purchase : g \in EventsOf(f, b, {"PURCHASE"})}
           ev        == Event(c, x + 1)
           S         == PurchasesOf(d, b.item)
<1>1. {"PURCHASE"} \in SUBSET AboutKinds
  BY DEF AboutKinds
<1>2. ev.command = c
  BY DEF Event
<1>3. /\ b.item \in Items /\ Tells(d) /\ c.item \in Items /\ c.purchase \in Purchases
      /\ b.item # NoItem
  BY CommandTypes, CommitFacts, CommandsAssumption
<1> HIDE DEF ev
<1>4. EventsOf(e, b, {"PURCHASE"}) =
          EventsOf(d, b, {"PURCHASE"}) \cup
          (IF TellsOf(c, b, {"PURCHASE"}) THEN {ev} ELSE {})
  BY <1>1, EventsAfter DEF ev
<1>5. bought(e) = bought(d) \cup (IF TellsOf(c, b, {"PURCHASE"}) THEN {c.purchase} ELSE {})
  BY <1>2, <1>4
<1> HIDE DEF bought, S
<1>6. TellsOf(c, b, {"PURCHASE"}) <=> c.kind = "PURCHASE" /\ b.item = c.item
  BY DEF TellsOf, About, OnItem
<1>7. PurchasesOf(e, b.item) = S \cup (IF TellsOf(c, b, {"PURCHASE"}) THEN {c.purchase} ELSE {})
  BY <1>3, <1>6, PurchasesOfAfter DEF S
<1>8. /\ bought(d) = S
      /\ \A p \in S : ToldOf(d, b, p).command.quantity = Effective(d, p)
  <2>1. CASE d.items[b.item].status # "NONE"
    BY <1>3, <2>1 DEF Tells, TellsPurchases, bought, S
  <2>2. CASE d.items[b.item].status = "NONE"
    <3>1. c.kind = "ADD" /\ c.item = b.item
      <4>1. e.items[b.item] # d.items[b.item]
        BY <2>2
      <4>2. b.item = c.item /\ c.kind \in {"ADD", "NEED", "REMOVE"}
        BY <1>3, <4>1 DEF Leaves
      <4>3. ~ OnItem(c)
        BY <2>2, <4>2 DEF Ready
      <4> QED
        BY <4>2, <4>3 DEF OnItem
    <3>2. EventsOf(d, b, {"PURCHASE"}) = {} /\ S = {}
      BY <1>1, <3>1, AddedIsNew DEF S
    <3> QED
      BY <3>2 DEF bought
  <2> QED
    BY <2>1, <2>2
<1>9. bought(e) = PurchasesOf(e, b.item)
  BY <1>5, <1>7, <1>8
<1>10. ASSUME NEW p \in PurchasesOf(e, b.item)
       PROVE  ToldOf(e, b, p).command.quantity = Effective(e, p)
  <2>1. p \in Purchases
    BY DEF PurchasesOf
  <2>2. CASE TellsOf(c, b, {"PURCHASE", "CORRECT"}) /\ p = c.purchase
    <3>1. ToldOf(e, b, p) = ev
      BY <2>2, ToldAfter DEF ev
    <3>2. c.kind \in {"PURCHASE", "CORRECT"}
      BY <2>2 DEF TellsOf
    <3>3. Effective(e, p) = c.quantity
      BY <2>1, <2>2, <3>2, EffectiveAfter
    <3> QED
      BY <1>2, <3>1, <3>3
  <2>3. CASE ~ (TellsOf(c, b, {"PURCHASE", "CORRECT"}) /\ p = c.purchase)
    <3>1. ToldOf(e, b, p) = ToldOf(d, b, p)
      BY <2>3, ToldAfter
    <3>2. p \in S
      BY <1>7, <2>3 DEF TellsOf
    <3>3. ~ (c.kind \in {"PURCHASE", "CORRECT"} /\ p = c.purchase)
      <4>1. d.purchases[p].item = b.item
        BY <3>2 DEF S, PurchasesOf
      <4>2. CASE c.kind = "PURCHASE"
        BY <1>3, <4>1, <4>2 DEF Ready
      <4>3. CASE c.kind = "CORRECT" /\ p = c.purchase
        <5>1. c.item = b.item
          BY <4>1, <4>3 DEF Ready, Asked
        <5> QED
          BY <2>3, <4>3, <5>1 DEF TellsOf, About, OnItem
      <4> QED
        BY <4>2, <4>3
    <3>4. Effective(e, p) = Effective(d, p)
      BY <2>1, <3>3, EffectiveAfter
    <3> QED
      BY <1>8, <3>1, <3>2, <3>4
  <2> QED
    BY <2>2, <2>3
<1> QED
  BY <1>9, <1>10 DEF TellsPurchases, bought

LEMMA CommitTells ==
    ASSUME NEW d, NEW e, NEW c, NEW x, NEW seen, Ready(d, c, x, seen), e \in Tables,
           Leaves(d, e, c, x, seen)
    PROVE  Tells(e)
BY CommitTellsItem, CommitTellsPurchases DEF Tells

-----------------------------------------------------------------------------
(***************************************************************************)
(* The answers that are kept are what the history tells.                   *)
(***************************************************************************)
\* The history as of the present version of a list tells what is there now.
LEMMA RetoldNow ==
    ASSUME NEW d \in Tables, Numbered(d), Placed(d), Tells(d),
           NEW c \in Commands, About(c), d.items[c.item].status # "NONE"
    PROVE  Retold(d.history, c, d.lists[c.list].version) =
               Progress(IF d.items[c.item].status = "ACTIVE" THEN "ACTIVE" ELSE "REMOVED",
                        d.items[c.item].desired, Total(d, c.item))
<1> DEFINE w    == d.lists[c.list].version
           told == [p \in Purchases |-> RetoldOf(d.history, c, w, p)]
           held == [p \in Purchases |-> Effective(d, p)]
           S    == PurchasesOf(d, c.item)
<1>1. ASSUME NEW kinds
      PROVE  Told(d.history, c, w, kinds) = EventsOf(d, c, kinds)
  <2>1. \A f \in d.history : f.command.list = c.list => f.sequence <= w
    BY DEF Numbered
  <2> QED
    BY <2>1 DEF Told, EventsOf
<1>2. TellsItem(d, c) /\ TellsPurchases(d, c)
  BY DEF Tells
<1> HIDE DEF w
<1>3. /\ Told(d.history, c, w, {"REMOVE"}) = {} <=> d.items[c.item].status = "ACTIVE"
      /\ LastOf(Told(d.history, c, w, {"ADD", "NEED"})).command.quantity =
             d.items[c.item].desired
  BY <1>1, <1>2 DEF TellsItem
<1>4. {f.command.purchase : f \in Told(d.history, c, w, {"PURCHASE"})} = S
  BY <1>1, <1>2 DEF TellsPurchases
<1>5. ASSUME NEW p \in S
      PROVE  told[p] = held[p]
  <2>1. p \in Purchases
    BY DEF PurchasesOf
  <2>2. Told(d.history, c, w, {"PURCHASE", "CORRECT"}) =
            EventsOf(d, c, {"PURCHASE", "CORRECT"})
    BY <1>1
  <2>3. RetoldOf(d.history, c, w, p) = ToldOf(d, c, p).command.quantity
    BY <2>2 DEF RetoldOf, ToldOf
  <2>4. ToldOf(d, c, p).command.quantity = Effective(d, p)
    BY <1>2 DEF TellsPurchases
  <2> QED
    BY <2>1, <2>3, <2>4
<1>6. IsFiniteSet(S)
  BY BoundsAssumption, FS_Subset DEF PurchasesOf
<1>7. SumFunctionOnSet(held, S) = Total(d, c.item)
  BY DEF Total
<1>8. Retold(d.history, c, w) =
          Progress(IF Told(d.history, c, w, {"REMOVE"}) = {} THEN "ACTIVE" ELSE "REMOVED",
                   LastOf(Told(d.history, c, w, {"ADD", "NEED"})).command.quantity,
                   SumFunctionOnSet(told,
                       {f.command.purchase : f \in Told(d.history, c, w, {"PURCHASE"})}))
  BY DEF Retold
<1> HIDE DEF told, held, S
<1>9. SumFunctionOnSet(told, S) = SumFunctionOnSet(held, S)
  BY <1>5, <1>6, SumOfSame
<1> QED
  BY <1>3, <1>4, <1>7, <1>8, <1>9 DEF w

\* What is told up to a version stays, whatever is told after it.
LEMMA RetoldStays ==
    ASSUME NEW h, NEW g, NEW c, NEW w,
           \A kinds : Told(g, c, w, kinds) = Told(h, c, w, kinds)
    PROVE  Retold(g, c, w) = Retold(h, c, w)
<1>1. \A p : RetoldOf(g, c, w, p) = RetoldOf(h, c, w, p)
  BY DEF RetoldOf
<1>2. [p \in Purchases |-> RetoldOf(g, c, w, p)] = [p \in Purchases |-> RetoldOf(h, c, w, p)]
  BY <1>1
<1> QED
  BY <1>2 DEF Retold

LEMMA CommitReceipts ==
    ASSUME NEW d, NEW e, NEW c, NEW x, NEW seen, Ready(d, c, x, seen), e \in Tables,
           Leaves(d, e, c, x, seen), NEW k \in Keys
    PROVE  ReceiptOK(e, k)
<1> DEFINE v == x + 1
<1>1. /\ d \in Tables /\ c \in Commands /\ x \in Nat /\ v \in Nat /\ c.item \in Items
      /\ c.kind \in Kinds /\ ReceiptOK(d, k)
  BY CommitFacts
<1>2. Grows(d, e) /\ Numbered(e) /\ Placed(e) /\ Tells(e)
  BY CommitGrows, CommitNumbered, CommitPlaced, CommitTells
<1>3. CASE k # c.key
  <2>1. e.receipts[k] = d.receipts[k]
    BY <1>3 DEF Leaves
  <2> DEFINE receipt == d.receipts[k]
             b       == receipt.command
             w       == receipt.result.version
  <2> SUFFICES ASSUME receipt # NoReceipt, About(b)
               PROVE  /\ w <= e.lists[b.list].version
                      /\ receipt.result.item = Retold(e.history, b, w)
                      /\ receipt.result.item.purchased <= MaxQuantity
    BY <2>1 DEF ReceiptOK
  <2>2. b \in Commands /\ w \in Nat
    <3>1. receipt \in Receipts
      BY <1>1, RowTypes
    <3> QED
      BY <3>1 DEF Receipts, Results
  <2>3. b.list \in Lists
    BY <2>2, CommandTypes DEF TouchesList
  <2>4. /\ w <= d.lists[b.list].version
        /\ receipt.result.item = Retold(d.history, b, w)
        /\ receipt.result.item.purchased <= MaxQuantity
    BY <1>1 DEF ReceiptOK
  <2>5. /\ d.lists[b.list].version <= e.lists[b.list].version
        /\ d.lists[b.list].version \in Nat /\ e.lists[b.list].version \in Nat
    BY <1>1, <1>2, <2>3, RowTypes DEF Grows, ListRows
  <2>6. TouchesList(c) /\ b.list = c.list => ~ (v <= w)
    <3>1. TouchesList(c) => d.lists[c.list].version = x
      BY CommitFacts
    <3> QED
      BY <1>1, <2>2, <2>4, <3>1
  <2> HIDE DEF receipt, w
  <2>7. \A kinds : Told(e.history, b, w, kinds) = Told(d.history, b, w, kinds)
    <3>1. e.history = IF TouchesList(c) THEN d.history \cup {Event(c, v)} ELSE d.history
      BY DEF Leaves
    <3>2. Event(c, v).command = c /\ Event(c, v).sequence = v
      BY DEF Event
    <3> QED
      BY <2>6, <3>1, <3>2 DEF Told
  <2>8. Retold(e.history, b, w) = Retold(d.history, b, w)
    BY <2>7, RetoldStays
  <2> QED
    BY <2>2, <2>4, <2>5, <2>8
<1>4. CASE k = c.key
  <2>1. e.receipts[k] = Receipt(c, v, x, seen)
    BY <1>4 DEF Leaves
  <2>2. /\ e.receipts[k].command = c /\ e.receipts[k].result = Result(c, v, seen)
    BY <2>1 DEF Receipt
  <2>3. Result(c, v, seen).version = v
    BY DEF Result
  <2> SUFFICES ASSUME About(c)
               PROVE  /\ v <= e.lists[c.list].version
                      /\ Result(c, v, seen).item = Retold(e.history, c, v)
                      /\ Result(c, v, seen).item.purchased <= MaxQuantity
    BY <2>2, <2>3 DEF ReceiptOK
  <2>4. TouchesList(c) /\ c.list \in Lists
    BY <1>1, CommandTypes DEF TouchesList
  <2>5. e.lists[c.list].version = v
    BY <2>4 DEF Leaves, ListAfter
  <2>6. /\ e.items[c.item].status = IF c.kind = "REMOVE" THEN "REMOVED" ELSE "ACTIVE"
        /\ e.items[c.item].desired = IF c.kind \in {"ADD", "NEED"} THEN c.quantity
                                     ELSE seen.desired
    <3>1. OnItem(c) => /\ d.items[c.item].status = "ACTIVE"
                       /\ seen.desired = d.items[c.item].desired
      BY DEF Ready
    <3>2. c.kind = "ADD" \/ OnItem(c)
      BY DEF About
    <3>3. e.items[c.item] =
              IF c.kind \in {"ADD", "NEED"}
              THEN [status |-> "ACTIVE", desired |-> c.quantity]
              ELSE IF c.kind = "REMOVE"
              THEN [status |-> "REMOVED", desired |-> d.items[c.item].desired]
              ELSE d.items[c.item]
      BY <1>1 DEF Leaves
    <3> QED
      BY <3>1, <3>2, <3>3 DEF OnItem
  <2>7. Total(e, c.item) = PurchasedBy(c, seen)
    BY <1>1, TotalAfter
  <2>8. Retold(e.history, c, v) =
            Progress(IF c.kind = "REMOVE" THEN "REMOVED" ELSE "ACTIVE",
                     IF c.kind \in {"ADD", "NEED"} THEN c.quantity ELSE seen.desired,
                     PurchasedBy(c, seen))
    BY <1>1, <1>2, <2>5, <2>6, <2>7, RetoldNow
  <2>9. Result(c, v, seen).item =
            Progress(IF c.kind = "REMOVE" THEN "REMOVED" ELSE "ACTIVE",
                     IF c.kind \in {"ADD", "NEED"} THEN c.quantity ELSE seen.desired,
                     PurchasedBy(c, seen))
    BY DEF Result
  <2>10. Result(c, v, seen).item.purchased = PurchasedBy(c, seen)
    BY <2>9 DEF Progress
  <2>11. PurchasedBy(c, seen) <= MaxQuantity
    <3>1. CASE OnItem(c)
      <4>1. ~ (PurchasedBy(c, seen) > MaxQuantity)
        BY <3>1 DEF Ready, TooMuch
      <4>2. PurchasedBy(c, seen) \in Nat
        BY <1>1, <1>2, <2>7, TotalIsNat
      <4> QED
        BY <4>1, <4>2, BoundsAssumption
    <3>2. CASE c.kind = "ADD"
      BY <3>2, BoundsAssumption DEF PurchasedBy
    <3> QED
      BY <3>1, <3>2 DEF About
  <2> QED
    BY <1>1, <2>5, <2>8, <2>9, <2>10, <2>11
<1> QED
  BY <1>3, <1>4

\* The rows are in order again after a commit.
LEMMA CommitRowsOK ==
    ASSUME NEW d, NEW e, NEW c, NEW x, NEW seen, Ready(d, c, x, seen), e \in Tables,
           Leaves(d, e, c, x, seen)
    PROVE  RowsOK(e)
BY CommitMade, CommitNumbered, CommitPlaced, CommitTells, CommitReceipts DEF RowsOK

-----------------------------------------------------------------------------
(***************************************************************************)
(* The step of a commit, and the closure.                                  *)
(***************************************************************************)
\* A command that can be carried out is not one that never can.
LEMMA NotOutdated ==
    ASSUME NEW d, NEW c, NEW x, NEW seen, Ready(d, c, x, seen)
    PROVE  ~ Outdated(d, c, x)
<1>1. d \in Tables /\ c \in Commands /\ x \in Nat /\ d.space = "ACTIVE"
  BY DEF Ready, RowsOK
<1>2. ~ (LinksTo(c) /\ d.lists[c.list].status = "ARCHIVED")
  BY DEF Ready
<1>3. ~ (OnTask(c) /\ d.tasks[c.task].version > x)
  BY <1>1 DEF Ready, TouchesTask
<1>4. ChangesList(c) => ~ (d.lists[c.list].version > x) /\ d.lists[c.list].status = "ACTIVE"
  BY <1>1 DEF Ready, TouchesList
<1>5. OnItem(c) => d.items[c.item].status = "ACTIVE"
  BY DEF Ready
<1>6. OnItem(c) => ~ TooMuch(c, Now(d, c))
  <2> SUFFICES ASSUME OnItem(c)
               PROVE  ~ TooMuch(c, Now(d, c))
    OBVIOUS
  <2>1. /\ seen.desired = Now(d, c).desired /\ seen.total = Now(d, c).total
        /\ c.kind = "CORRECT" => seen.effective = Now(d, c).effective
        /\ ~ TooMuch(c, seen)
    BY DEF Ready, Now
  <2>2. PurchasedBy(c, seen) = PurchasedBy(c, Now(d, c))
    BY <2>1 DEF PurchasedBy
  <2> QED
    BY <2>1, <2>2 DEF TooMuch
<1> QED
  BY <1>1, <1>2, <1>3, <1>4, <1>5, <1>6 DEF Outdated

\* Another request knows after a commit what it knew before it.
LEMMA CommitOthers ==
    ASSUME Inv, NEW r \in Requests, request[r].stage = "COMMIT",
           NEW e \in Tables,
           Leaves(db, e, Command(r), request[r].expects, request[r].seen),
           NEW q \in Requests, q # r
    PROVE  RequestOK(e, locks, q, request[q])
<1> DEFINE c   == Command(r)
           x   == request[r].expects
           row == request[q]
           b   == row.command
           y   == row.expects
<1>1. Ready(db, c, x, request[r].seen)
  BY CommitReady
<1>2. /\ Kept(db, locks, r, "COMMIT", c, x) /\ "COMMIT" \in InKey /\ "COMMIT" \in InSpace
      /\ {"UPDATE", "COMMIT"} \subseteq InKey
  BY Held DEF InKey, InSpace, InList, InItem
<1>3. RequestOK(db, locks, q, row) /\ LocksOK(locks) /\ db \in Tables /\ Made(db)
  BY DEF Inv, RowsOK
<1>4. Grows(db, e)
  BY <1>1, CommitGrows
<1>5. /\ c \in Commands /\ x \in Nat /\ c.key \in Keys
      /\ db.receipts[c.key] = NoReceipt
  BY <1>1, CommandTypes DEF Ready
<1>6. CASE row = Nobody
  BY <1>6 DEF RequestOK
<1>7. CASE row # Nobody /\ row \in Running
  <2>1. /\ OnItsWay(row.stage, b) /\ Asked(db, b, y) /\ Kept(db, locks, q, row.stage, b, y)
        /\ SeenAs(db, row.stage, b, y, row.seen) /\ b \in Commands /\ y \in Nat
    <3>1. row \notin Answered
      BY <1>7 DEF Running, Answered, InKey, InSpace, InList, InItem
    <3> QED
      BY <1>3, <1>7, <3>1 DEF RequestOK, Running
  <2>2. /\ b.key \in Keys /\ b.task \in Tasks
        /\ ChangesList(b) \/ LinksTo(b) => b.list \in Lists
    BY <2>1, CommandTypes DEF TouchesList
  <2>3. Asked(e, b, y) /\ SeenAs(e, row.stage, b, y, row.seen)
    BY <1>3, <1>4, <2>1, AskedGrows, SeenGrows
  <2> HIDE DEF c, x, row, b, y
  <2>4. ASSUME NEW on, NEW mode, Holds(locks, q, on, mode), Holds(locks, r, on, "UPDATE")
        PROVE  FALSE
    BY <1>3, <2>4 DEF LocksOK, Holds
  <2>5. ASSUME row.stage \in InKey
        PROVE  e.receipts[b.key] = NoReceipt
    <3>1. /\ Holds(locks, q, <<"KEY", b.key>>, "UPDATE") /\ db.receipts[b.key] = NoReceipt
          /\ Holds(locks, r, <<"KEY", c.key>>, "UPDATE")
      BY <1>2, <2>1, <2>5 DEF Kept
    <3>2. b.key # c.key
      BY <2>4, <3>1
    <3> QED
      BY <2>2, <3>1, <3>2 DEF Leaves, c
  <2>6. e.space = db.space
    BY DEF Leaves
  <2>7. ASSUME NEW mode, Holds(locks, q, <<"LIST", b.list>>, mode),
               b.list \in Lists, db.lists[b.list].version # 0
        PROVE  e.lists[b.list] = db.lists[b.list]
    <3>1. ~ (ChangesList(c) /\ c.list = b.list)
      <4>1. ChangesList(c) => Holds(locks, r, <<"LIST", c.list>>, "UPDATE")
        BY <1>2 DEF Kept
      <4> QED
        BY <2>4, <2>7, <4>1
    <3>2. ~ (c.kind = "CREATE" /\ c.list = b.list)
      BY <1>3, <1>5, <2>7 DEF Made
    <3> QED
      BY <2>7, <3>1, <3>2 DEF Leaves, TouchesList, c
  <2>8. ASSUME row.stage = "COMMIT", OnTask(b)
        PROVE  e.tasks[b.task] = db.tasks[b.task]
    <3>1. Holds(locks, q, <<"TASK", b.task>>, "UPDATE")
      BY <2>1, <2>8 DEF Kept
    <3>2. OnTask(c) => Holds(locks, r, <<"TASK", c.task>>, "UPDATE")
      BY <1>2 DEF Kept
    <3>3. ~ (OnTask(c) /\ c.task = b.task)
      BY <2>4, <3>1, <3>2
    <3>4. c.kind = "CREATE_TASK" => db.tasks[c.task].version = 0
      BY <1>3, <1>5 DEF Made
    <3>5. db.tasks[b.task].version # 0
      BY <2>1, <2>8 DEF Asked
    <3> QED
      BY <2>2, <3>3, <3>4, <3>5 DEF Leaves, TouchesTask, c
  <2>9. ASSUME row.stage \in {"UPDATE", "COMMIT"}, LinksTo(b)
        PROVE  e.lists[b.list] = db.lists[b.list]
    <3>1. Holds(locks, q, <<"LIST", b.list>>, "SHARE") /\ db.lists[b.list].version > 0
      BY <2>1, <2>9 DEF Kept, Asked
    <3>2. db.lists[b.list].version \in Nat
      BY <1>3, <2>2, <2>9, RowTypes DEF ListRows
    <3> QED
      BY <2>2, <2>7, <2>9, <3>1, <3>2
  <2>10. ASSUME row.stage = "COMMIT", ChangesList(b)
         PROVE  e.lists[b.list] = db.lists[b.list]
    <3>1. Holds(locks, q, <<"LIST", b.list>>, "UPDATE") /\ db.lists[b.list].version # 0
      BY <2>1, <2>10 DEF Kept, Asked
    <3> QED
      BY <2>2, <2>7, <2>10, <3>1
  <2>11. Kept(e, locks, q, row.stage, b, y)
    BY <2>1, <2>5, <2>6, <2>8, <2>9, <2>10 DEF Kept
  <2> QED
    BY <1>7, <2>1, <2>3, <2>11 DEF RequestOK, row, b, y
<1>8. CASE row # Nobody /\ row \in Answered
  <2>1. /\ b \in Commands /\ y \in Nat /\ Asked(db, b, y)
        /\ row.answer = "REFUSED" => Outdated(db, b, y) /\ ~ Carried(db, b, y)
    <3>1. row \notin Running
      BY <1>8 DEF Running, Answered, InKey, InSpace, InList, InItem
    <3> QED
      BY <1>3, <1>8, <3>1 DEF RequestOK, Answered
  <2>2. Asked(e, b, y)
    BY <1>3, <1>4, <2>1, AskedGrows
  <2>3. ASSUME row.answer = "REFUSED"
        PROVE  Outdated(e, b, y) /\ ~ Carried(e, b, y)
    <3>1. Outdated(e, b, y)
      BY <1>3, <1>4, <2>1, <2>3, OutdatedGrows
    <3>2. ~ Carried(e, b, y)
      <4>1. CASE b.key # c.key
        <5>1. b.key \in Keys
          BY <2>1, CommandTypes
        <5>2. e.receipts[b.key] = db.receipts[b.key]
          BY <4>1, <5>1 DEF Leaves
        <5> QED
          BY <2>1, <2>3, <5>2 DEF Carried
      <4>2. CASE b.key = c.key
        <5>1. e.receipts[c.key] = Receipt(c, x + 1, x, request[r].seen)
          BY <1>5 DEF Leaves
        <5>2. e.receipts[c.key].command = c /\ e.receipts[c.key].expects = x
          BY <5>1 DEF Receipt
        <5>3. ~ Outdated(db, c, x)
          BY <1>1, NotOutdated
        <5> HIDE DEF c, x, row
        <5> QED
          BY <2>1, <2>3, <4>2, <5>2, <5>3 DEF Carried
      <4> QED
        BY <4>1, <4>2
    <3> QED
      BY <3>1, <3>2
  <2> HIDE DEF row, b, y
  <2>4. RequestOK(e, locks, q, row)
    BY <1>8, <2>2, <2>3 DEF RequestOK, b, y
  <2> QED
    BY <2>4 DEF row
<1> QED
  BY <1>3, <1>6, <1>7, <1>8 DEF RequestOK

\* What a commit leaves.
LEMMA CommitMeans ==
    ASSUME Inv, NEW r \in Requests, Commit(r)
    PROVE  /\ Ready(db, Command(r), request[r].expects, request[r].seen)
           /\ db' \in Tables
           /\ Leaves(db, db', Command(r), request[r].expects, request[r].seen)
           /\ request' = [request EXCEPT ![r] =
                  [stage |-> "ANSWERED", command |-> Command(r),
                   expects |-> request[r].expects, answer |-> "APPLIED"]]
           /\ locks' = {l \in locks : l.by # r}
<1> DEFINE c    == Command(r)
           x    == request[r].expects
           seen == request[r].seen
           row  == [stage |-> "ANSWERED", command |-> c, expects |-> x,
                    answer |-> "APPLIED"]
<1>1. request[r].stage = "COMMIT"
  BY DEF Commit
<1>2. Ready(db, c, x, seen)
  BY <1>1, CommitReady
<1>3. db.receipts[c.key] = NoReceipt
  BY <1>2 DEF Ready
<1>4. /\ request' = [request EXCEPT ![r] = row]
      /\ locks' = {l \in locks : l.by # r}
  <2>1. /\ request' = [request EXCEPT ![r] = [stage |-> "ANSWERED", command |-> c,
                                             expects |-> @.expects, answer |-> "APPLIED"]]
        /\ locks' = {l \in locks : l.by # r}
    BY <1>3 DEF Commit
  <2> QED
    BY <2>1
<1>5. db' = RowsLeft(db, c, x, seen)
  <2>1. db' = Committed(db, c, x, seen)
    BY <1>3, Zenon DEF Commit, Committed, Event, Receipt
  <2> HIDE DEF c, x, seen
  <2> QED
    BY <1>2, <2>1, CommitRows
<1>6. db' \in Tables /\ Leaves(db, db', c, x, seen)
  <2> HIDE DEF c, x, seen
  <2> QED
    BY <1>2, <1>5, CommitTables, CommitLeaves
<1> QED
  BY <1>2, <1>4, <1>6

LEMMA InvCommit ==
    ASSUME Inv, NEW r \in Requests, Commit(r)
    PROVE  Inv'
<1> DEFINE c    == Command(r)
           x    == request[r].expects
           seen == request[r].seen
           row  == [stage |-> "ANSWERED", command |-> c, expects |-> x,
                    answer |-> "APPLIED"]
<1>1. request[r].stage = "COMMIT" /\ "COMMIT" \in InKey
  BY DEF Commit, InKey, InSpace, InList, InItem
<1>2. Ready(db, c, x, seen)
  BY CommitMeans
<1>3. request' = [request EXCEPT ![r] = row] /\ locks' = {l \in locks : l.by # r}
  BY CommitMeans
<1>4. PICK e : e = db'
  OBVIOUS
<1>5. e \in Tables /\ Leaves(db, e, c, x, seen)
  BY <1>4, CommitMeans
<1>6. RowsOK(db')
  <2> HIDE DEF c, x, seen
  <2> QED
    BY <1>2, <1>4, <1>5, CommitRowsOK
<1>7. /\ DOMAIN request' = Requests /\ request'[r] = row
      /\ \A q \in Requests \ {r} : request'[q] = request[q]
  BY <1>3 DEF Inv
<1>8. RequestOK(e, locks', r, row)
  <2>1. c \in Commands /\ x \in Nat /\ Asked(db, c, x) /\ db \in Tables
    BY <1>1, Held
  <2>2. Asked(e, c, x)
    <3>1. Grows(db, e)
      BY <1>2, <1>5, CommitGrows
    <3> QED
      BY <1>5, <2>1, <3>1, AskedGrows
  <2>3. row \in Answered /\ row.command = c /\ row.expects = x /\ row.answer # "REFUSED"
    BY <2>1 DEF Answered
  <2> HIDE DEF row
  <2> QED
    BY <2>2, <2>3 DEF RequestOK
<1>9. ASSUME NEW q \in Requests
       PROVE  RequestOK(db', locks', q, request'[q])
  <2>1. CASE q = r
    BY <1>4, <1>7, <1>8, <2>1
  <2>2. CASE q # r
    <3>1. RequestOK(e, locks, q, request[q])
      BY <1>1, <1>5, <2>2, CommitOthers
    <3>2. \A l \in locks : l.by # r => l \in locks'
      BY <1>3
    <3>3. RequestOK(e, locks', q, request[q])
      BY <2>2, <3>1, <3>2, OthersKeep
    <3> QED
      BY <1>4, <1>7, <2>2, <3>3
  <2> QED
    BY <2>1, <2>2
<1>10. LocksOK(locks')
  BY <1>3, LocksFreed DEF Inv
<1> QED
  BY <1>6, <1>7, <1>9, <1>10 DEF Inv

\* The closure changes the lists, and nothing else that counts.
LEMMA CloseRows ==
    ASSUME NEW d, RowsOK(d), NEW e,
           e = [d EXCEPT !.space = "CLOSED",
                         !.lists = [l \in Lists |->
                             IF d.lists[l].status = "ACTIVE"
                             THEN [status |-> "ARCHIVED", version |-> d.lists[l].version + 1]
                             ELSE d.lists[l]]]
    PROVE  RowsOK(e) /\ Grows(d, e) /\ e.receipts = d.receipts /\ e.tasks = d.tasks
<1> DEFINE lists == [l \in Lists |->
                        IF d.lists[l].status = "ACTIVE"
                        THEN [status |-> "ARCHIVED", version |-> d.lists[l].version + 1]
                        ELSE d.lists[l]]
<1>1. /\ d \in Tables /\ Made(d) /\ Numbered(d) /\ Placed(d) /\ Tells(d)
      /\ \A k \in Keys : ReceiptOK(d, k)
  BY DEF RowsOK
<1>2. /\ e.space = "CLOSED" /\ e.lists = lists /\ e.items = d.items
      /\ e.purchases = d.purchases /\ e.corrections = d.corrections
      /\ e.tasks = d.tasks /\ e.history = d.history /\ e.receipts = d.receipts
  BY <1>1 DEF Tables
<1>3. ASSUME NEW l \in Lists
      PROVE  /\ e.lists[l] = lists[l] /\ lists[l] \in ListRows
             /\ d.lists[l].version <= e.lists[l].version
             /\ d.lists[l].version = e.lists[l].version => d.lists[l] = e.lists[l]
             /\ d.lists[l].status = "ARCHIVED" => e.lists[l].status = "ARCHIVED"
             /\ d.lists[l].status = "NONE" <=> e.lists[l].status = "NONE"
             /\ e.lists[l].version = 0 <=> d.lists[l].version = 0
  <2>1. d.lists[l] \in ListRows
    BY <1>1, RowTypes
  <2>2. d.lists[l].version = 0 <=> d.lists[l].status = "NONE"
    BY <1>1 DEF Numbered
  <2>3. CASE d.lists[l].status = "ACTIVE"
    <3>1. e.lists[l] = [status |-> "ARCHIVED", version |-> d.lists[l].version + 1]
      BY <1>2, <2>3
    <3> QED
      BY <1>2, <2>1, <2>2, <2>3, <3>1 DEF ListRows
  <2>4. CASE d.lists[l].status # "ACTIVE"
    <3>1. e.lists[l] = d.lists[l]
      BY <1>2, <2>4
    <3> QED
      BY <1>2, <2>1, <3>1 DEF ListRows
  <2> QED
    BY <2>3, <2>4
<1> HIDE DEF lists
<1>4. e \in Tables
  <2>1. lists \in [Lists -> ListRows]
    BY <1>3 DEF lists
  <2>2. e = [d EXCEPT !.space = "CLOSED", !.lists = lists]
    BY DEF lists
  <2> QED
    BY <1>1, <2>1, <2>2 DEF Tables
<1>5. \A p : Effective(e, p) = Effective(d, p)
  BY <1>2 DEF Effective
<1>6. \A i : PurchasesOf(e, i) = PurchasesOf(d, i)
  BY <1>2 DEF PurchasesOf
<1>7. \A i : Total(e, i) = Total(d, i)
  <2>1. [p \in Purchases |-> Effective(e, p)] = [p \in Purchases |-> Effective(d, p)]
    BY <1>5
  <2> QED
    BY <1>6, <2>1 DEF Total
<1>8. Grows(d, e)
  <2>1. \A l \in Lists :
            /\ d.lists[l].version <= e.lists[l].version
            /\ d.lists[l].version = e.lists[l].version => d.lists[l] = e.lists[l]
            /\ d.lists[l].status = "ARCHIVED" => e.lists[l].status = "ARCHIVED"
    BY <1>3
  <2>2. \A t \in Tasks : d.tasks[t].version <= e.tasks[t].version
    BY <1>1, <1>2, RowTypes DEF TaskRows
  <2> QED
    BY <1>2, <1>5, <1>7, <2>1, <2>2 DEF Grows
<1>9. Made(e)
  <2>1. \A c \in Commands : c.kind = "CREATE" => c.list \in Lists
    BY CommandTypes DEF TouchesList
  <2> QED
    BY <1>1, <1>2, <1>3, <2>1 DEF Made
<1>10. Numbered(e)
  <2>1. \A l \in Lists : e.lists[l].version = 0 <=> e.lists[l].status = "NONE"
    BY <1>1, <1>3 DEF Numbered
  <2>2. ASSUME NEW f \in d.history
        PROVE  f.command.list \in Lists /\ f.sequence <= e.lists[f.command.list].version
    <3>1. f.sequence \in Nat
      BY <1>1, RowTypes DEF Events
    <3>2. f.command.list \in Lists /\ f.sequence <= d.lists[f.command.list].version
      BY <1>1 DEF Numbered
    <3>3. /\ d.lists[f.command.list].version \in Nat
          /\ e.lists[f.command.list].version \in Nat
      BY <1>1, <1>4, <3>2, RowTypes DEF ListRows
    <3>4. d.lists[f.command.list].version <= e.lists[f.command.list].version
      BY <1>3, <3>2
    <3> QED
      BY <3>1, <3>2, <3>3, <3>4
  <2> QED
    BY <1>1, <1>2, <2>1, <2>2 DEF Numbered
<1>11. Placed(e)
  <2>1. \A p \in Purchases : Effective(e, p) \in Nat
    BY <1>1, <1>5 DEF Placed
  <2>2. \A p \in Purchases :
            e.purchases[p].item # NoItem => e.items[e.purchases[p].item].status # "NONE"
    BY <1>1, <1>2 DEF Placed
  <2>3. ASSUME NEW y \in e.corrections
        PROVE  \E f \in e.history :
                   /\ f.command.kind = "CORRECT" /\ f.command.purchase = y.purchase
                   /\ f.sequence = y.sequence
                   /\ e.purchases[y.purchase].item = f.command.item
    BY <1>1, <1>2 DEF Placed
  <2> QED
    BY <2>1, <2>2, <2>3 DEF Placed
<1>12. Tells(e)
  <2>1. \A c, kinds : EventsOf(e, c, kinds) = EventsOf(d, c, kinds)
    BY <1>2 DEF EventsOf
  <2>2. \A c, p : ToldOf(e, c, p) = ToldOf(d, c, p)
    BY <2>1 DEF ToldOf
  <2>3. ASSUME NEW c \in Commands, About(c), d.items[c.item].status # "NONE"
        PROVE  TellsItem(e, c) /\ TellsPurchases(e, c)
    <3>1. TellsItem(d, c) /\ TellsPurchases(d, c)
      BY <1>1, <2>3 DEF Tells
    <3>2. TellsItem(e, c)
      BY <1>2, <2>1, <3>1 DEF TellsItem
    <3>3. TellsPurchases(e, c)
      BY <1>5, <1>6, <2>1, <2>2, <3>1 DEF TellsPurchases
    <3> QED
      BY <3>2, <3>3
  <2> QED
    BY <1>2, <2>3 DEF Tells
<1>13. ASSUME NEW k \in Keys
       PROVE  ReceiptOK(e, k)
  <2> DEFINE receipt == d.receipts[k]
             b       == receipt.command
             w       == receipt.result.version
  <2> SUFFICES ASSUME receipt # NoReceipt, About(b)
               PROVE  /\ w <= e.lists[b.list].version
                      /\ receipt.result.item = Retold(d.history, b, w)
                      /\ receipt.result.item.purchased <= MaxQuantity
    BY <1>2 DEF ReceiptOK
  <2>1. b \in Commands /\ w \in Nat
    <3>1. receipt \in Receipts
      BY <1>1, RowTypes
    <3> QED
      BY <3>1 DEF Receipts, Results
  <2>2. b.list \in Lists
    BY <2>1, CommandTypes DEF TouchesList
  <2>3. /\ w <= d.lists[b.list].version
        /\ receipt.result.item = Retold(d.history, b, w)
        /\ receipt.result.item.purchased <= MaxQuantity
    BY <1>1 DEF ReceiptOK
  <2>4. /\ d.lists[b.list].version <= e.lists[b.list].version
        /\ d.lists[b.list].version \in Nat /\ e.lists[b.list].version \in Nat
    BY <1>1, <1>3, <1>4, <2>2, RowTypes DEF ListRows
  <2> HIDE DEF receipt, b, w
  <2>5. PICK v \in Nat, u \in Nat : v = d.lists[b.list].version /\ u = e.lists[b.list].version
    BY <2>4
  <2>6. w <= v /\ v <= u
    BY <2>3, <2>4, <2>5
  <2>7. w <= u
    BY <2>1, <2>6
  <2> QED
    BY <2>3, <2>5, <2>7
<1> QED
  BY <1>2, <1>4, <1>8, <1>9, <1>10, <1>11, <1>12, <1>13 DEF RowsOK

LEMMA InvClose ==
    ASSUME Inv, Close
    PROVE  Inv'
<1>1. PICK e : e = db'
  OBVIOUS
<1>2. /\ request' = request /\ locks' = locks
      /\ \A l \in locks : l.on # <<"SPACE">>
      /\ e = [db EXCEPT !.space = "CLOSED",
                        !.lists = [l \in Lists |->
                            IF db.lists[l].status = "ACTIVE"
                            THEN [status |-> "ARCHIVED", version |-> db.lists[l].version + 1]
                            ELSE db.lists[l]]]
  BY <1>1 DEF Close
<1>3. RowsOK(e) /\ Grows(db, e) /\ e.receipts = db.receipts
  BY <1>2, CloseRows DEF Inv
<1>4. db \in Tables /\ e \in Tables
  BY <1>3 DEF Inv, RowsOK
<1>5. ASSUME NEW q \in Requests
      PROVE  RequestOK(e, locks, q, request[q])
  <2> DEFINE row == request[q]
             b   == row.command
             y   == row.expects
  <2>1. RequestOK(db, locks, q, row)
    BY DEF Inv
  <2> HIDE DEF row
  <2>2. CASE row = Nobody
    BY <2>2 DEF RequestOK, row
  <2>3. CASE row # Nobody /\ row \in Running
    <3>1. row \notin Answered
      BY <2>3 DEF Running, Answered, InKey, InSpace, InList, InItem
    <3>2. /\ OnItsWay(row.stage, b) /\ Asked(db, b, y) /\ Kept(db, locks, q, row.stage, b, y)
          /\ SeenAs(db, row.stage, b, y, row.seen) /\ b \in Commands /\ y \in Nat
      BY <2>1, <2>3, <3>1 DEF RequestOK, Running
    <3>3. Asked(e, b, y) /\ SeenAs(e, row.stage, b, y, row.seen)
      BY <1>3, <1>4, <3>2, AskedGrows, SeenGrows
    <3>4. row.stage \notin InSpace
      BY <1>2, <3>2 DEF Kept, Holds
    <3>5. row.stage \notin {"UPDATE", "COMMIT"}
      BY <3>4 DEF InSpace, InList, InItem
    <3>6. Kept(e, locks, q, row.stage, b, y)
      BY <1>3, <3>2, <3>4, <3>5 DEF Kept
    <3>7. RequestOK(e, locks, q, row)
      BY <2>3, <3>2, <3>3, <3>6 DEF RequestOK
    <3> QED
      BY <3>7 DEF row
  <2>4. CASE row # Nobody /\ row \in Answered
    <3>1. row \notin Running
      BY <2>4 DEF Running, Answered, InKey, InSpace, InList, InItem
    <3>2. /\ b \in Commands /\ y \in Nat /\ Asked(db, b, y)
          /\ row.answer = "REFUSED" => Outdated(db, b, y) /\ ~ Carried(db, b, y)
      BY <2>1, <2>4, <3>1 DEF RequestOK, Answered
    <3>3. Asked(e, b, y)
      BY <1>3, <1>4, <3>2, AskedGrows
    <3>4. row.answer = "REFUSED" => Outdated(e, b, y) /\ ~ Carried(e, b, y)
      BY <1>3, <1>4, <3>2, OutdatedGrows DEF Carried
    <3>5. RequestOK(e, locks, q, row)
      BY <2>4, <3>3, <3>4 DEF RequestOK
    <3> QED
      BY <3>5 DEF row
  <2> QED
    BY <2>1, <2>2, <2>3, <2>4 DEF RequestOK
<1>6. RowsOK(db') /\ \A q \in Requests : RequestOK(db', locks', q, request'[q])
  BY <1>1, <1>2, <1>3, <1>5
<1>7. DOMAIN request' = Requests /\ LocksOK(locks')
  BY <1>2 DEF Inv
<1> QED
  BY <1>6, <1>7 DEF Inv

-----------------------------------------------------------------------------
(***************************************************************************)
(* The invariant holds in every state.                                     *)
(***************************************************************************)
LEMMA InvInit ==
    ASSUME Init
    PROVE  Inv
<1>1. /\ db.space = "ACTIVE" /\ db.corrections = {} /\ db.history = {}
      /\ db.lists = [l \in Lists |-> [status |-> "NONE", version |-> 0]]
      /\ db.items = [i \in Items |-> [status |-> "NONE", desired |-> 0]]
      /\ db.purchases = [p \in Purchases |-> [item |-> NoItem, quantity |-> 0]]
      /\ db.tasks = [t \in Tasks |-> [list |-> NoList, version |-> 0]]
      /\ db.receipts = [k \in Keys |-> NoReceipt]
  BY DEF Init
<1>2. db \in Tables
  <2>1. /\ db.lists \in [Lists -> ListRows] /\ db.items \in [Items -> ItemRows]
        /\ db.purchases \in [Purchases -> Bought] /\ db.tasks \in [Tasks -> TaskRows]
        /\ db.receipts \in [Keys -> Receipts]
    BY <1>1 DEF ListRows, ItemRows, Bought, TaskRows, Receipts
  <2>2. db = [space |-> db.space, lists |-> db.lists, items |-> db.items,
              purchases |-> db.purchases, corrections |-> db.corrections,
              tasks |-> db.tasks, history |-> db.history, receipts |-> db.receipts]
    BY DEF Init
  <2> QED
    BY <1>1, <2>1, <2>2 DEF Tables
<1>3. /\ \A l \in Lists : db.lists[l].version = 0 /\ db.lists[l].status = "NONE"
      /\ \A i \in Items : db.items[i].status = "NONE"
      /\ \A p \in Purchases : db.purchases[p].item = NoItem /\ db.purchases[p].quantity = 0
      /\ \A t \in Tasks : db.tasks[t].version = 0
      /\ \A k \in Keys : db.receipts[k] = NoReceipt
  BY <1>1
<1>4. Made(db)
  <2>1. \A c \in Commands : /\ c.item \in Items /\ c.purchase \in Purchases /\ c.task \in Tasks
                            /\ c.kind = "CREATE" => c.list \in Lists
    BY CommandTypes DEF TouchesList
  <2> QED
    BY <1>3, <2>1 DEF Made
<1>5. Numbered(db)
  BY <1>1, <1>3 DEF Numbered
<1>6. Placed(db)
  <2>1. \A p \in Purchases : Effective(db, p) = 0
    BY <1>1, <1>3 DEF Effective
  <2> QED
    BY <1>1, <1>3, <2>1 DEF Placed
<1>7. Tells(db)
  BY <1>3, CommandTypes DEF Tells
<1>8. \A k \in Keys : ReceiptOK(db, k)
  BY <1>3 DEF ReceiptOK
<1>9. /\ DOMAIN request = Requests /\ LocksOK(locks)
      /\ \A r \in Requests : RequestOK(db, locks, r, request[r])
  BY DEF Init, LocksOK, RequestOK
<1> QED
  BY <1>2, <1>4, <1>5, <1>6, <1>7, <1>8, <1>9 DEF Inv, RowsOK

\* Only a commit and the closure change the rows.
LEMMA Steps ==
    ASSUME Inv, Next
    PROVE  \/ \E r \in Requests : Moves(r)
           \/ \E r \in Requests : Commit(r)
           \/ Close
<1>1. ASSUME NEW r \in Requests, NEW c \in Commands, Ask(r, c)
      PROVE  Moves(r)
  BY <1>1, AskMoves
<1>2. ASSUME NEW r \in Requests, NEW twin \in Requests, AskAgain(r, twin)
      PROVE  Moves(r)
  BY <1>2, AskAgainMoves
<1>3. ASSUME NEW r \in Requests,
             \/ Lose(r) \/ Look(r) \/ ShareSpace(r) \/ Find(r) \/ FindItem(r)
             \/ SumPurchases(r) \/ FindPurchase(r) \/ Check(r) \/ FindList(r)
             \/ Update(r)
      PROVE  Moves(r)
  BY <1>3, LoseMoves, LookMoves, ShareSpaceMoves, FindMoves, FindItemMoves,
     SumPurchasesMoves, FindPurchaseMoves, CheckMoves, FindListMoves, UpdateMoves
<1> QED
  BY <1>1, <1>2, <1>3 DEF Next

LEMMA InvNext ==
    ASSUME Inv, [Next]_vars
    PROVE  Inv'
<1>1. CASE Next
  BY <1>1, Steps, InvMoves, InvCommit, InvClose
<1>2. CASE UNCHANGED vars
  <2>1. db' = db /\ request' = request /\ locks' = locks
    BY <1>2 DEF vars
  <2> QED
    BY <2>1 DEF Inv
<1> QED
  BY <1>1, <1>2

LEMMA Invariant == Spec => []Inv
<1>1. Init => Inv
  BY InvInit
<1>2. Inv /\ [Next]_vars => Inv'
  BY InvNext
<1> QED
  BY <1>1, <1>2, PTL DEF Spec

-----------------------------------------------------------------------------
(***************************************************************************)
(* What follows of it.                                                     *)
(***************************************************************************)
\* Whatever runs at the same time, the answer kept for a command on an item is what
\* the history of its list tells as of the version of the answer, though what it was
\* computed from was read without a lock: the version of the list, which every change
\* of its items raises, is compared under the lock of the row (update).
THEOREM AnswersRetold == Spec => []AnswersAreRetold
<1>1. Inv => AnswersAreRetold
  BY DEF Inv, RowsOK, ReceiptOK, AnswersAreRetold
<1> QED
  BY <1>1, Invariant, PTL

\* A command whose request was refused has had no effect, and a twin of the request
\* that is still on its way cannot give it one: what it was refused for stays so.
THEOREM RefusalsTrue == Spec => []RefusedHadNoEffect
<1>1. ASSUME Inv
      PROVE  RefusedHadNoEffect
  <2> SUFFICES ASSUME NEW r \in Requests, request[r].stage = "ANSWERED",
                      request[r].answer = "REFUSED"
               PROVE  ~ Carried(db, Command(r), request[r].expects)
    BY DEF RefusedHadNoEffect, Carried
  <2>1. RequestOK(db, locks, r, request[r])
    BY <1>1 DEF Inv
  <2>2. request[r] # Nobody /\ request[r] \notin Running
    BY DEF Nobody, Running, InKey, InSpace, InList, InItem
  <2> QED
    BY <2>1, <2>2 DEF RequestOK, Command
<1> QED
  BY <1>1, Invariant, PTL

\* A task is linked to a list only while the list is not archived: the request that
\* links shares the row of the list from when it reads it (lockActive) to its commit.
THEOREM LinkedActive == Spec => LinkedWhileActive
<1> DEFINE linked == \A t \in Tasks :
               db.tasks[t].list # db'.tasks[t].list /\ db'.tasks[t].list # NoList =>
                   db'.lists[db'.tasks[t].list].status = "ACTIVE"
<1>1. ASSUME Inv, [Next]_vars
      PROVE  [linked]_vars
  <2>1. ASSUME NEW r \in Requests, Commit(r)
        PROVE  linked
    <3> DEFINE c    == Command(r)
               x    == request[r].expects
               seen == request[r].seen
    <3>1. Ready(db, c, x, seen)
      BY <1>1, <2>1, CommitMeans
    <3>2. Leaves(db, db', c, x, seen)
      BY <1>1, <2>1, CommitMeans
    <3>3. ASSUME NEW t \in Tasks, db.tasks[t].list # db'.tasks[t].list,
                 db'.tasks[t].list # NoList
          PROVE  db'.lists[db'.tasks[t].list].status = "ACTIVE"
      <4>1. TouchesTask(c) /\ db'.tasks[t].list = c.list
        BY <3>2, <3>3 DEF Leaves
      <4>2. c \in Commands
        BY <3>1 DEF Ready
      <4>3. LinksTo(c) /\ ~ TouchesList(c) /\ c.list \in Lists
        BY <3>3, <4>1, <4>2, CommandTypes, CommandsAssumption
        DEF TouchesTask, OnTask, LinksTo
      <4>4. db'.lists[c.list] = db.lists[c.list]
        BY <3>2, <4>3 DEF Leaves
      <4> QED
        BY <3>1, <4>1, <4>3, <4>4 DEF Ready
    <3> QED
      BY <3>3
  <2>2. CASE db' = db
    BY <2>2
  <2>3. CASE Close
    <3>1. db'.tasks = db.tasks
      BY <1>1, <2>3 DEF Close, Inv, RowsOK, Tables
    <3> QED
      BY <3>1
  <2>4. UNCHANGED vars => db' = db
    BY DEF vars
  <2> QED
    BY <1>1, <2>1, <2>2, <2>3, <2>4, Steps DEF Moves
<1>2. Spec => [][linked]_vars
  BY <1>1, Invariant, PTL DEF Spec
<1> QED
  BY <1>2 DEF LinkedWhileActive
=============================================================================
