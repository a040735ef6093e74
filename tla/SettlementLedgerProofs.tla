----------------------- MODULE SettlementLedgerProofs ----------------------
(***************************************************************************)
(* What is proved of SettlementLedger, for any expenses, agreements,       *)
(* cycles, shares and bounds: first of the obligations and cycles, then of *)
(* the balances, where what is open and what has been resolved of a source *)
(* add up to what its facts, or its agreement, say; and of the screens     *)
(* that show it, for any dates and any size of a page.                     *)
(***************************************************************************)
EXTENDS SettlementViews, SumTheorems, SequenceTheorems

(***************************************************************************)
(* The operations of an obligation.                                        *)
(***************************************************************************)
Bounded(o) == o.remaining <= o.recognized

\* A status is one of the five.
LEMMA StatusType ==
    ASSUME NEW o \in ObligationType, NEW remaining, NEW recognized
    PROVE  /\ Status(remaining, recognized, "SETTLED") \in Statuses
           /\ Status(remaining, recognized, "WAIVED") \in Statuses
           /\ Status(remaining, recognized, Written(o)) \in Statuses
BY DEF Status, Written, Statuses

\* A new obligation is as large as the difference it takes up.
LEMMA NewObligationType ==
    ASSUME NEW source \in Origins \cup Agreements, NEW fact \in Nat,
           NEW difference, IsMoney(Abs(difference)), NEW cycle \in Selections
    PROVE  LET o == NewObligation(source, fact, difference, cycle)
           IN  /\ o \in ObligationType
               /\ Bounded(o)
               /\ o.source = source
               /\ o.debtor = Debtor(difference)
               /\ o.remaining = Abs(difference)
               /\ o.cycle = cycle
<1>1. Debtor(difference) \in Parties
  BY DEF Debtor, Parties
<1> QED
  BY <1>1, MoneyAssumption
     DEF NewObligation, ObligationType, Bounded, IsMoney, Statuses

\* Reconciling an obligation writes what remains and nothing of its origin.
LEMMA ReconciledType ==
    ASSUME NEW o \in ObligationType, Bounded(o), NEW r \in 0 .. MaxMoney,
           IsMoney(Reconciled(o, r).recognized)
    PROVE  /\ Reconciled(o, r) \in ObligationType
           /\ Bounded(Reconciled(o, r))
           /\ Reconciled(o, r).remaining = r
           /\ Reconciled(o, r).source = o.source
           /\ Reconciled(o, r).debtor = o.debtor
           /\ Reconciled(o, r).cycle = o.cycle
<1> DEFINE recognized == (o.recognized - o.remaining) + r
           status     == Status(r, recognized, Written(o))
<1>1. /\ o.recognized \in 0 .. MaxMoney
      /\ o.remaining \in 0 .. MaxMoney
      /\ o.remaining <= o.recognized
  BY DEF ObligationType, Bounded
<1>2. status \in Statuses
  BY StatusType
<1>3. Reconciled(o, r) = [o EXCEPT !.recognized = recognized,
                                   !.remaining  = r,
                                   !.status     = status]
  BY DEF Reconciled
<1> HIDE DEF status
<1>4. /\ Reconciled(o, r).recognized = recognized
      /\ Reconciled(o, r).remaining = r
      /\ Reconciled(o, r).source = o.source
      /\ Reconciled(o, r).debtor = o.debtor
      /\ Reconciled(o, r).cycle = o.cycle
  BY <1>3 DEF ObligationType
<1>5. recognized \in 0 .. MaxMoney
  BY <1>4 DEF IsMoney
<1>6. r <= recognized
  BY <1>1, MoneyAssumption
<1>7. Reconciled(o, r) \in ObligationType
  BY <1>2, <1>3, <1>5 DEF ObligationType
<1> QED
  BY <1>4, <1>6, <1>7 DEF Bounded

\* So does reversing what has been resolved of it.
LEMMA ResolutionReversedType ==
    ASSUME NEW o \in ObligationType, Bounded(o), NEW r \in 0 .. MaxMoney,
           NEW n \in Nat, n <= o.recognized - o.remaining,
           IsMoney(ResolutionReversed(o, r, n).recognized)
    PROVE  /\ ResolutionReversed(o, r, n) \in ObligationType
           /\ Bounded(ResolutionReversed(o, r, n))
           /\ ResolutionReversed(o, r, n).remaining = r
           /\ ResolutionReversed(o, r, n).source = o.source
           /\ ResolutionReversed(o, r, n).debtor = o.debtor
           /\ ResolutionReversed(o, r, n).cycle = o.cycle
<1> DEFINE recognized == ((o.recognized - o.remaining) - n) + r
           status     == Status(r, recognized, Written(o))
<1>1. /\ o.recognized \in 0 .. MaxMoney
      /\ o.remaining \in 0 .. MaxMoney
      /\ o.remaining <= o.recognized
  BY DEF ObligationType, Bounded
<1>2. status \in Statuses
  BY StatusType
<1>3. ResolutionReversed(o, r, n) = [o EXCEPT !.recognized = recognized,
                                              !.remaining  = r,
                                              !.status     = status]
  BY DEF ResolutionReversed
<1> HIDE DEF status
<1>4. /\ ResolutionReversed(o, r, n).recognized = recognized
      /\ ResolutionReversed(o, r, n).remaining = r
      /\ ResolutionReversed(o, r, n).source = o.source
      /\ ResolutionReversed(o, r, n).debtor = o.debtor
      /\ ResolutionReversed(o, r, n).cycle = o.cycle
  BY <1>3 DEF ObligationType
<1>5. recognized \in 0 .. MaxMoney
  BY <1>4 DEF IsMoney
<1>6. r <= recognized
  BY <1>1, MoneyAssumption
<1>7. ResolutionReversed(o, r, n) \in ObligationType
  BY <1>2, <1>3, <1>5 DEF ObligationType
<1> QED
  BY <1>4, <1>6, <1>7 DEF Bounded

\* What is settled or waived of an obligation is taken from what remains of it.
Reduced(o, p) ==
    /\ p \in ObligationType
    /\ Bounded(p)
    /\ p.remaining <= o.remaining
    /\ p.source = o.source
    /\ p.debtor = o.debtor
    /\ p.cycle = o.cycle

\* Settling reduces an obligation.
LEMMA SettleReduces ==
    ASSUME NEW o \in ObligationType, Bounded(o),
           NEW n \in Amounts, n <= o.remaining
    PROVE  Reduced(o, Settle(o, n)) /\ Settle(o, n).remaining = o.remaining - n
<1> DEFINE status == Status(o.remaining - n, o.recognized, "SETTLED")
<1>1. /\ o.recognized \in 0 .. MaxMoney
      /\ o.remaining \in 0 .. MaxMoney
      /\ o.remaining <= o.recognized
  BY DEF ObligationType, Bounded
<1>2. status \in Statuses
  BY StatusType
<1>3. Settle(o, n) = [o EXCEPT !.remaining = o.remaining - n,
                               !.status    = status]
  BY DEF Settle, ObligationType
<1> HIDE DEF status
<1>4. o.remaining - n \in 0 .. MaxMoney /\ o.remaining - n <= o.remaining
  BY <1>1, MoneyAssumption DEF Amounts
<1>5. Settle(o, n) \in ObligationType
  BY <1>2, <1>3, <1>4 DEF ObligationType
<1>6. /\ Settle(o, n).recognized = o.recognized
      /\ Settle(o, n).remaining = o.remaining - n
      /\ Settle(o, n).source = o.source
      /\ Settle(o, n).debtor = o.debtor
      /\ Settle(o, n).cycle = o.cycle
  BY <1>3 DEF ObligationType
<1> QED
  BY <1>1, <1>4, <1>5, <1>6 DEF Reduced, Bounded

\* Waiving reduces an obligation.
LEMMA WaiveReduces ==
    ASSUME NEW o \in ObligationType, Bounded(o),
           NEW n \in Amounts, n <= o.remaining
    PROVE  Reduced(o, Waive(o, n)) /\ Waive(o, n).remaining = o.remaining - n
<1> DEFINE status == Status(o.remaining - n, o.recognized, "WAIVED")
<1>1. /\ o.recognized \in 0 .. MaxMoney
      /\ o.remaining \in 0 .. MaxMoney
      /\ o.remaining <= o.recognized
  BY DEF ObligationType, Bounded
<1>2. status \in Statuses
  BY StatusType
<1>3. Waive(o, n) = [o EXCEPT !.remaining = o.remaining - n,
                              !.status    = status]
  BY DEF Waive, ObligationType
<1> HIDE DEF status
<1>4. o.remaining - n \in 0 .. MaxMoney /\ o.remaining - n <= o.remaining
  BY <1>1, MoneyAssumption DEF Amounts
<1>5. Waive(o, n) \in ObligationType
  BY <1>2, <1>3, <1>4 DEF ObligationType
<1>6. /\ Waive(o, n).recognized = o.recognized
      /\ Waive(o, n).remaining = o.remaining - n
      /\ Waive(o, n).source = o.source
      /\ Waive(o, n).debtor = o.debtor
      /\ Waive(o, n).cycle = o.cycle
  BY <1>3 DEF ObligationType
<1> QED
  BY <1>1, <1>4, <1>5, <1>6 DEF Reduced, Bounded

-----------------------------------------------------------------------------
(***************************************************************************)
(* The inductive invariant.  An obligation is in a cycle there is, and one *)
(* of an agreement arises with it: these two are what the properties need  *)
(* beyond the types and each other.                                        *)
(***************************************************************************)
CyclesExist ==
    \A i \in Ids : obligations[i].cycle # NoCycle
                       => cycles[obligations[i].cycle] # "ABSENT"

AgreedBefore ==
    \A i \in Ids : obligations[i].source \in Agreements
                       => agreed[obligations[i].source] # 0

Inv ==
    /\ TypeOK
    /\ CyclesExist
    /\ NothingOpenInFinalized
    /\ OneOpenObligation
    /\ AgreedBefore

(***************************************************************************)
(* What every command but a finalization does to the ledger: whatever it   *)
(* writes or registers is in an open cycle, or in none, before and after,  *)
(* and it leaves one obligation of a source open.                          *)
(***************************************************************************)
InOpenCycle(o, cs) == o.cycle # NoCycle => cs[o.cycle] = "OPEN"

Writes ==
    /\ obligations' \in Seq(ObligationType)
    /\ Ids \subseteq DOMAIN obligations'
    /\ \A i \in DOMAIN obligations' : Bounded(obligations'[i])
    /\ \A i \in Ids : obligations'[i].source = obligations[i].source
    /\ \A i \in DOMAIN obligations' :
           \/ i \in Ids /\ obligations'[i] = obligations[i]
           \/ /\ i \in Ids => obligations[i].cycle \notin Finalized
              /\ obligations'[i].cycle \notin Finalized
              /\ InOpenCycle(obligations'[i], cycles')
    /\ \A i, j \in DOMAIN obligations' :
           /\ IsOpen(obligations'[i])
           /\ IsOpen(obligations'[j])
           /\ obligations'[i].source = obligations'[j].source
           => i = j
    /\ cycles' \in [Cycles -> {"ABSENT", "OPEN", "FINALIZED"}]
    /\ \A c \in Cycles : \/ cycles'[c] = cycles[c]
                         \/ cycles[c] = "ABSENT" /\ cycles'[c] = "OPEN"

(***************************************************************************)
(* What a command that makes the obligations of some sources say what is   *)
(* due for each does to the ledger: the rest is as it was.                 *)
(***************************************************************************)
TakesUp(s, due) ==
    \/ /\ due = 0
       /\ \A i \in DOMAIN obligations' :
              obligations'[i].source = s => ~ IsOpen(obligations'[i])
    \/ /\ due # 0
       /\ \E i \in DOMAIN obligations' :
              /\ obligations'[i].source = s
              /\ obligations'[i].remaining = Abs(due)
              /\ obligations'[i].debtor = Debtor(due)

MadeToSay(sources, due) ==
    /\ \A i \in Ids : obligations'[i].debtor = obligations[i].debtor
    /\ \A i \in Ids : obligations[i].source \notin sources
                          => obligations'[i] = obligations[i]
    /\ \A i \in DOMAIN obligations' \ Ids :
           LET s == obligations'[i].source
           IN  /\ s \in sources
               /\ due[s] # 0
               /\ obligations'[i].debtor = Debtor(due[s])
    /\ \A s \in sources : TakesUp(s, due[s])

\* The obligations are those of a sequence of them.
LEMMA ObligationsType ==
    ASSUME TypeOK
    PROVE  /\ Len(obligations) \in Nat
           /\ Ids = 1 .. Len(obligations)
           /\ Ids \subseteq Nat
           /\ \A i \in Ids : /\ obligations[i] \in ObligationType
                             /\ Bounded(obligations[i])
BY DEF TypeOK, Ids, Bounded

\* An obligation whose cycle is not finalized is in an open one, or in none.
LEMMA NotFinalizedIsOpen ==
    ASSUME Inv, NEW i \in Ids, obligations[i].cycle \notin Finalized
    PROVE  InOpenCycle(obligations[i], cycles)
<1>1. obligations[i].cycle \in Selections
  BY ObligationsType DEF Inv, ObligationType
<1> QED
  BY <1>1 DEF Inv, TypeOK, CyclesExist, Finalized, InOpenCycle, Selections

\* A reconciliation writes the obligations of its expense.
LEMMA ReconcileWrites ==
    ASSUME Inv, NEW s \in Origins, NEW due, NEW fact \in Nat,
           NEW selection \in Selections,
           Reconcile(s, due, fact, selection)
    PROVE  /\ Writes
           /\ \A i \in DOMAIN obligations' \ Ids : obligations'[i].source = s
           /\ MadeToSay({s}, [t \in {s} |-> due])
<1> DEFINE ids     == IdsOf(s)
           reused  == Found(Reused(obligations, ids, due, Finalized))
           changed == ChangedIds(obligations, ids, reused, due)
           kept    == [i \in Ids |->
                          IF i \in changed
                          THEN Reconciled(obligations[i],
                                          Remainder(i, reused, due))
                          ELSE obligations[i]]
           isNew   == due # 0 /\ reused = {}
           new     == NewObligation(s, fact, due, selection)
<1>1. /\ IsMoney(Abs(due))
      /\ \A i \in changed \cup reused : obligations[i].cycle \notin Finalized
      /\ isNew => selection \notin Finalized
      /\ \A i \in changed : IsMoney(kept[i].recognized)
      /\ obligations' = IF isNew THEN Append(kept, new) ELSE kept
      /\ cycles' = IF isNew /\ selection # NoCycle
                   THEN [cycles EXCEPT ![selection] = "OPEN"] ELSE cycles
  BY DEF Reconcile, AssertCyclesOpen
<1>2. changed \subseteq ids /\ ids \subseteq Ids
  BY DEF ChangedIds, IdsOf
<1>3. \A i \in ids : obligations[i].source = s
  BY DEF IdsOf
<1>4. /\ \A i, j \in reused : i = j
      /\ \A i \in reused : /\ i \in ids
                           /\ due # 0
                           /\ obligations[i].debtor = Debtor(due)
  <2> DEFINE candidates == Reused(obligations, ids, due, Finalized)
  <2>1. \A i \in candidates : i \in Matching(obligations, ids, due)
    BY DEF Reused, OpenIds
  <2>2. reused \subseteq candidates /\ \A i, j \in reused : i = j
    BY DEF Found
  <2>3. \A i \in Matching(obligations, ids, due) :
            i \in ids /\ due # 0 /\ obligations[i].debtor = Debtor(due)
    BY DEF Matching
  <2> HIDE DEF candidates, reused, ids
  <2> QED
    BY <2>1, <2>2, <2>3
<1>5. \A i : Remainder(i, reused, due) \in 0 .. MaxMoney
  BY <1>1, MoneyAssumption DEF Remainder, IsMoney
<1>6. \A i \in ids : i \notin reused => Remainder(i, reused, due) = 0
  BY DEF Remainder
<1>7. \A i \in ids \ changed :
          obligations[i].remaining = Remainder(i, reused, due)
  BY DEF ChangedIds
<1>8. \A i \in changed :
          /\ kept[i] \in ObligationType
          /\ Bounded(kept[i])
          /\ kept[i].remaining = Remainder(i, reused, due)
          /\ kept[i].source = obligations[i].source
          /\ kept[i].debtor = obligations[i].debtor
          /\ kept[i].cycle = obligations[i].cycle
  <2> SUFFICES ASSUME NEW i \in changed
               PROVE  /\ kept[i] \in ObligationType
                      /\ Bounded(kept[i])
                      /\ kept[i].remaining = Remainder(i, reused, due)
                      /\ kept[i].source = obligations[i].source
                      /\ kept[i].debtor = obligations[i].debtor
                      /\ kept[i].cycle = obligations[i].cycle
    OBVIOUS
  <2>1. kept[i] = Reconciled(obligations[i], Remainder(i, reused, due))
    BY <1>2
  <2>2. IsMoney(Reconciled(obligations[i],
                           Remainder(i, reused, due)).recognized)
    BY <1>1, <2>1
  <2>3. obligations[i] \in ObligationType /\ Bounded(obligations[i])
    BY <1>2, ObligationsType DEF Inv
  <2> HIDE DEF kept, changed, reused, ids
  <2> QED
    BY <1>5, <2>1, <2>2, <2>3, ReconciledType
<1>9. \A i \in Ids \ changed : kept[i] = obligations[i]
  OBVIOUS
<1>10. /\ new \in ObligationType /\ Bounded(new)
       /\ new.source = s /\ new.cycle = selection
       /\ new.debtor = Debtor(due) /\ new.remaining = Abs(due)
  BY <1>1, NewObligationType
<1>11. DOMAIN kept = Ids
  OBVIOUS
<1> HIDE DEF kept, changed, reused, ids, new
<1>12. \A i \in Ids : kept[i] \in ObligationType /\ Bounded(kept[i])
                         /\ kept[i].source = obligations[i].source
                         /\ kept[i].debtor = obligations[i].debtor
                         /\ kept[i].cycle = obligations[i].cycle
  BY <1>8, <1>9, ObligationsType DEF Inv
<1>13. /\ kept \in Seq(ObligationType)
       /\ Len(kept) = Len(obligations)
  <2>1. kept = [i \in 1 .. Len(obligations) |-> kept[i]]
    BY <1>11, ObligationsType DEF Inv, kept
  <2> QED
    BY <1>11, <1>12, <2>1, ObligationsType DEF Inv
<1>14. \A i \in Ids : obligations[i].source = s /\ i \notin reused
                          => ~ IsOpen(kept[i])
  <2> SUFFICES ASSUME NEW i \in Ids, obligations[i].source = s,
                      i \notin reused
               PROVE  kept[i].remaining = 0
    BY DEF IsOpen
  <2>1. i \in ids
    BY DEF ids, IdsOf
  <2> QED
    BY <1>6, <1>7, <1>8, <1>9, <2>1
<1>15. \A i \in Ids : obligations[i].source # s => kept[i] = obligations[i]
  BY <1>2, <1>3, <1>9
<1>16. \A i, j \in Ids :
           /\ IsOpen(kept[i])
           /\ IsOpen(kept[j])
           /\ kept[i].source = kept[j].source
           => i = j
  <2> SUFFICES ASSUME NEW i \in Ids, NEW j \in Ids,
                      IsOpen(kept[i]), IsOpen(kept[j]),
                      kept[i].source = kept[j].source
               PROVE  i = j
    OBVIOUS
  <2>1. CASE obligations[i].source = s
    BY <1>4, <1>12, <1>14, <2>1
  <2>2. CASE obligations[i].source # s
    <3>1. kept[i] = obligations[i] /\ kept[j] = obligations[j]
      BY <1>12, <1>15, <2>2
    <3> QED
      BY <3>1 DEF Inv, OneOpenObligation, OpenIds
  <2> QED
    BY <2>1, <2>2
<1>17. /\ cycles' \in [Cycles -> {"ABSENT", "OPEN", "FINALIZED"}]
       /\ \A c \in Cycles : \/ cycles'[c] = cycles[c]
                            \/ cycles[c] = "ABSENT" /\ cycles'[c] = "OPEN"
       /\ isNew /\ selection # NoCycle => cycles'[selection] = "OPEN"
  BY <1>1 DEF Inv, TypeOK, Finalized, Selections
<1>18. \A i \in Ids : \/ kept[i] = obligations[i]
                      \/ /\ obligations[i].cycle \notin Finalized
                         /\ kept[i].cycle \notin Finalized
                         /\ InOpenCycle(kept[i], cycles')
  <2> SUFFICES ASSUME NEW i \in changed, i \in Ids
               PROVE  /\ obligations[i].cycle \notin Finalized
                      /\ kept[i].cycle \notin Finalized
                      /\ InOpenCycle(kept[i], cycles')
    BY <1>9
  <2>1. obligations[i].cycle \notin Finalized
    BY <1>1
  <2>2. kept[i].cycle = obligations[i].cycle
    BY <1>12
  <2>3. obligations[i].cycle \in Selections
    BY ObligationsType DEF Inv, ObligationType
  <2> QED
    BY <1>17, <2>1, <2>2, <2>3, NotFinalizedIsOpen
       DEF InOpenCycle, Selections
\* The reused obligation takes up the difference.
<1>19. \A i \in reused : kept[i].remaining = Abs(due)
  <2> SUFFICES ASSUME NEW i \in reused
               PROVE  kept[i].remaining = Abs(due)
    OBVIOUS
  <2>1. i \in ids /\ i \in Ids /\ Remainder(i, reused, due) = Abs(due)
    BY <1>2, <1>4 DEF Remainder
  <2> QED
    BY <1>7, <1>8, <1>9, <2>1
<1>20. due = 0 => reused = {}
  BY <1>4
<1>21. CASE ~ isNew
  <2>1. obligations' = kept
    BY <1>1, <1>21
  <2>2. Writes
    BY <1>11, <1>12, <1>13, <1>16, <1>17, <1>18, <2>1 DEF Writes
  <2>3. TakesUp(s, due)
    <3>1. CASE due = 0
      BY <1>11, <1>12, <1>14, <1>20, <2>1, <3>1 DEF TakesUp
    <3>2. CASE due # 0
      <4>1. PICK i \in reused : TRUE
        BY <1>21, <3>2
      <4>2. i \in Ids /\ obligations[i].source = s /\ obligations[i].debtor = Debtor(due)
        BY <1>2, <1>3, <1>4, <4>1
      <4> QED
        BY <1>11, <1>12, <1>19, <2>1, <3>2, <4>1, <4>2 DEF TakesUp
    <3> QED
      BY <3>1, <3>2
  <2>4. MadeToSay({s}, [t \in {s} |-> due])
    BY <1>11, <1>12, <1>15, <2>1, <2>3 DEF MadeToSay
  <2> QED
    BY <1>11, <2>1, <2>2, <2>4
<1>22. CASE isNew
  <2> DEFINE n == Len(obligations) + 1
  <2>1. obligations' = Append(kept, new)
    BY <1>1, <1>22
  <2>2. /\ obligations' \in Seq(ObligationType)
        /\ DOMAIN obligations' = Ids \cup {n}
        /\ n \notin Ids
        /\ \A i \in Ids : obligations'[i] = kept[i]
        /\ obligations'[n] = new
    BY <1>10, <1>13, <2>1, ObligationsType DEF Inv
  <2>3. \A i \in Ids : obligations[i].source = s => ~ IsOpen(kept[i])
    BY <1>14, <1>22
  <2>4. \A i, j \in DOMAIN obligations' :
            /\ IsOpen(obligations'[i])
            /\ IsOpen(obligations'[j])
            /\ obligations'[i].source = obligations'[j].source
            => i = j
    BY <1>10, <1>12, <1>16, <2>2, <2>3
  <2>5. new.cycle \notin Finalized /\ InOpenCycle(new, cycles')
    BY <1>1, <1>10, <1>17, <1>22 DEF InOpenCycle
  <2>6. Writes
    BY <1>10, <1>12, <1>17, <1>18, <2>2, <2>4, <2>5 DEF Writes
  <2>7. TakesUp(s, due)
    BY <1>10, <1>22, <2>2 DEF TakesUp
  <2>8. MadeToSay({s}, [t \in {s} |-> due])
    BY <1>10, <1>12, <1>15, <1>22, <2>2, <2>7 DEF MadeToSay
  <2> QED
    BY <1>10, <2>2, <2>6, <2>8
<1> QED
  BY <1>21, <1>22

\* What only reduces obligations in cycles that are not finalized may do so.
LEMMA ReductionWrites ==
    ASSUME Inv, cycles' = cycles,
           obligations' = [i \in Ids |-> obligations'[i]],
           \A i \in Ids :
               \/ obligations'[i] = obligations[i]
               \/ /\ Reduced(obligations[i], obligations'[i])
                  /\ obligations[i].cycle \notin Finalized
    PROVE  Writes
<1>1. DOMAIN obligations' = Ids
  OBVIOUS
<1>2. \A i \in Ids : Reduced(obligations[i], obligations'[i])
  BY ObligationsType DEF Inv, Reduced, ObligationType
<1>3. obligations' \in Seq(ObligationType)
  <2>1. Ids = 1 .. Len(obligations) /\ Len(obligations) \in Nat
    BY ObligationsType DEF Inv
  <2> QED
    BY <1>1, <1>2, <2>1 DEF Reduced
<1>4. \A i \in Ids : IsOpen(obligations'[i]) => IsOpen(obligations[i])
  BY <1>2, ObligationsType, MoneyAssumption
     DEF Inv, Reduced, IsOpen, ObligationType
<1>5. \A i, j \in Ids :
          /\ IsOpen(obligations'[i])
          /\ IsOpen(obligations'[j])
          /\ obligations'[i].source = obligations'[j].source
          => i = j
  BY <1>2, <1>4 DEF Inv, OneOpenObligation, OpenIds, Reduced
<1>6. \A i \in Ids : obligations[i].cycle \notin Finalized
                         => InOpenCycle(obligations'[i], cycles')
  BY <1>2, NotFinalizedIsOpen DEF Reduced, InOpenCycle
<1>7. cycles \in [Cycles -> {"ABSENT", "OPEN", "FINALIZED"}]
  BY DEF Inv, TypeOK
<1> QED
  BY <1>1, <1>2, <1>3, <1>5, <1>6, <1>7 DEF Writes, Reduced

\* The resolution that is recorded is one of obligations there are.
LEMMA ResolutionRecorded ==
    ASSUME Inv, NEW S \in SUBSET Ids, NEW amounts \in [S -> Amounts],
           NEW kind \in {"TRANSFER", "OFFSET", "WAIVER"},
           DOMAIN obligations' = Ids,
           resolutions' = Append(resolutions,
               [kind     |-> kind,
                parts    |-> [i \in DOMAIN amounts |->
                                 [amount |-> amounts[i],
                                  cycle  |-> obligations[i].cycle]],
                reversed |-> FALSE])
    PROVE  resolutions' \in Seq(ResolutionType(DOMAIN obligations'))
<1> DEFINE parts == [i \in DOMAIN amounts |->
                        [amount |-> amounts[i],
                         cycle  |-> obligations[i].cycle]]
<1>1. \A i \in S : obligations[i].cycle \in Selections
  BY ObligationsType DEF Inv, ObligationType
<1>2. parts \in [S -> PartType]
  BY <1>1 DEF PartType
<1> HIDE DEF parts
<1>3. parts \in UNION {[T -> PartType] : T \in SUBSET Ids}
  BY <1>2
<1>4. [kind |-> kind, parts |-> parts, reversed |-> FALSE]
          \in ResolutionType(Ids)
  BY <1>3 DEF ResolutionType
<1>5. resolutions' = Append(resolutions,
                            [kind |-> kind, parts |-> parts,
                             reversed |-> FALSE])
  BY DEF parts
<1>6. resolutions \in Seq(ResolutionType(Ids))
  BY DEF Inv, TypeOK
<1> QED
  BY <1>4, <1>5, <1>6

\* A transfer or an offset settles its obligations in part or in full.
LEMMA SettlementWrites ==
    ASSUME Inv, NEW S \in SUBSET Ids, NEW amounts \in [S -> Amounts],
           NEW kind \in {"TRANSFER", "OFFSET"},
           CanResolve(amounts), obligations' = Settled(amounts),
           Resolve(kind, amounts)
    PROVE  /\ Writes
           /\ DOMAIN obligations' = Ids
           /\ resolutions' \in Seq(ResolutionType(DOMAIN obligations'))
<1>1. /\ obligations' = [i \in Ids |-> IF i \in S
                                       THEN Settle(obligations[i], amounts[i])
                                       ELSE obligations[i]]
      /\ cycles' = cycles
  BY DEF Resolve, Settled
<1>2. \A i \in S : /\ Reduced(obligations[i], obligations'[i])
                   /\ obligations[i].cycle \notin Finalized
  BY <1>1, SettleReduces, ObligationsType DEF CanResolve, Inv
<1>3. Writes /\ DOMAIN obligations' = Ids
  BY <1>1, <1>2, ReductionWrites
<1> QED
  BY <1>3, ResolutionRecorded DEF Resolve

\* A waiver gives up an obligation in part or in full.
LEMMA WaiverWrites ==
    ASSUME Inv, NEW creditor, NEW i \in Ids, NEW amount \in Amounts,
           WaiveObligation(creditor, i, amount)
    PROVE  /\ Writes
           /\ DOMAIN obligations' = Ids
           /\ resolutions' \in Seq(ResolutionType(DOMAIN obligations'))
<1> DEFINE amounts == [j \in {i} |-> amount]
<1>1. amounts \in [{i} -> Amounts] /\ amounts[i] = amount
  OBVIOUS
<1>2. /\ CanResolve(amounts)
      /\ obligations' = [obligations EXCEPT ![i] = Waive(@, amount)]
      /\ Resolve("WAIVER", amounts)
  BY DEF WaiveObligation
<1> HIDE DEF amounts
<1>3. /\ obligations' = [j \in Ids |-> IF j \in {i}
                                       THEN Waive(obligations[j], amounts[j])
                                       ELSE obligations[j]]
      /\ cycles' = cycles
  <2>1. cycles' = cycles
    BY <1>2 DEF Resolve
  <2>2. obligations' = [j \in Ids |-> IF j = i THEN Waive(obligations[i], amount)
                                             ELSE obligations[j]]
    BY <1>2 DEF Ids
  <2> QED
    BY <1>1, <2>1, <2>2
<1>4. /\ Reduced(obligations[i], obligations'[i])
      /\ obligations[i].cycle \notin Finalized
  BY <1>1, <1>2, <1>3, WaiveReduces, ObligationsType DEF CanResolve, Inv
<1>5. Writes /\ DOMAIN obligations' = Ids
  BY <1>3, <1>4, ReductionWrites
<1>6. resolutions' = Append(resolutions,
          [kind     |-> "WAIVER",
           parts    |-> [j \in DOMAIN amounts |->
                            [amount |-> amounts[j],
                             cycle  |-> obligations[j].cycle]],
           reversed |-> FALSE])
  BY <1>2 DEF Resolve
<1>7. {i} \in SUBSET Ids
  OBVIOUS
<1> QED
  BY <1>1, <1>5, <1>6, <1>7, ResolutionRecorded

\* An agreement adds the only obligation of its source.
LEMMA AgreeWrites ==
    ASSUME Inv, NEW s \in Agreements, NEW difference, Agree(s, difference),
           IsMoney(Abs(difference))
    PROVE  /\ Writes
           /\ \A i \in DOMAIN obligations' \ Ids : obligations'[i].source = s
           /\ difference # 0 => MadeToSay({s}, [t \in {s} |-> difference])
<1> DEFINE new == NewObligation(s, 0, difference, NoCycle)
           n   == Len(obligations) + 1
<1>1. /\ agreed[s] = 0
      /\ obligations' = Append(obligations, new)
      /\ cycles' = cycles
  BY DEF Agree
<1>2. new \in ObligationType /\ Bounded(new) /\ new.source = s
         /\ new.cycle = NoCycle
         /\ new.debtor = Debtor(difference) /\ new.remaining = Abs(difference)
  BY NewObligationType DEF Selections
<1> HIDE DEF new
<1>3. /\ obligations' \in Seq(ObligationType)
      /\ DOMAIN obligations' = Ids \cup {n}
      /\ n \notin Ids
      /\ \A i \in Ids : obligations'[i] = obligations[i]
      /\ obligations'[n] = new
  BY <1>1, <1>2, ObligationsType DEF Inv, TypeOK
<1>4. \A i \in Ids : obligations[i].source # s
  BY <1>1 DEF Inv, AgreedBefore
<1>5. \A i, j \in DOMAIN obligations' :
          /\ IsOpen(obligations'[i])
          /\ IsOpen(obligations'[j])
          /\ obligations'[i].source = obligations'[j].source
          => i = j
  BY <1>2, <1>3, <1>4 DEF Inv, OneOpenObligation, OpenIds
<1>6. new.cycle \notin Finalized /\ InOpenCycle(new, cycles')
  BY <1>2, CyclesAssumption DEF Finalized, InOpenCycle
<1>7. cycles' \in [Cycles -> {"ABSENT", "OPEN", "FINALIZED"}]
  BY <1>1 DEF Inv, TypeOK
<1>8. \A i \in Ids : Bounded(obligations[i])
  BY ObligationsType DEF Inv
<1>9. Writes
  BY <1>1, <1>2, <1>3, <1>5, <1>6, <1>7, <1>8 DEF Writes
<1>10. ASSUME difference # 0
       PROVE  MadeToSay({s}, [t \in {s} |-> difference])
  BY <1>2, <1>3, <1>10 DEF MadeToSay, TakesUp
<1> QED
  BY <1>2, <1>3, <1>9, <1>10

\* An obligation is moved from one open cycle to another.
LEMMA MoveWrites ==
    ASSUME Inv, NEW i \in Ids, NEW c \in Selections, MoveObligation(i, c)
    PROVE  Writes /\ DOMAIN obligations' = Ids
<1>1. /\ obligations[i].cycle \notin Finalized
      /\ c \notin Finalized
      /\ obligations' = [obligations EXCEPT ![i].cycle = c]
      /\ cycles' = IF c = NoCycle THEN cycles
                   ELSE [cycles EXCEPT ![c] = "OPEN"]
  BY DEF MoveObligation
<1>2. /\ obligations[i] \in ObligationType
      /\ Bounded(obligations[i])
  BY ObligationsType DEF Inv
<1> DEFINE p == [obligations[i] EXCEPT !.cycle = c]
<1>3. /\ p \in ObligationType
      /\ Bounded(p)
      /\ p.source = obligations[i].source
      /\ p.cycle = c
      /\ p.remaining = obligations[i].remaining
  BY <1>2 DEF ObligationType, Bounded
<1> HIDE DEF p
<1>4. /\ DOMAIN obligations' = Ids
      /\ obligations'[i] = p
      /\ \A j \in Ids \ {i} : obligations'[j] = obligations[j]
      /\ obligations' \in Seq(ObligationType)
  <2>1. obligations' = [obligations EXCEPT ![i] = p]
    BY <1>1 DEF p
  <2> QED
    BY <1>3, <2>1, ObligationsType DEF Inv, TypeOK
<1>5. /\ cycles' \in [Cycles -> {"ABSENT", "OPEN", "FINALIZED"}]
      /\ \A d \in Cycles : \/ cycles'[d] = cycles[d]
                           \/ cycles[d] = "ABSENT" /\ cycles'[d] = "OPEN"
      /\ InOpenCycle(p, cycles')
  BY <1>1, <1>3 DEF Inv, TypeOK, Finalized, Selections, InOpenCycle
<1>6. \A j, k \in Ids :
          /\ IsOpen(obligations'[j])
          /\ IsOpen(obligations'[k])
          /\ obligations'[j].source = obligations'[k].source
          => j = k
  BY <1>3, <1>4 DEF Inv, OneOpenObligation, OpenIds, IsOpen
<1>7. \A j \in Ids : Bounded(obligations'[j])
  BY <1>3, <1>4, ObligationsType DEF Inv
<1> QED
  BY <1>1, <1>3, <1>4, <1>5, <1>6, <1>7 DEF Writes

-----------------------------------------------------------------------------
(***************************************************************************)
(* The reversal of a settlement.                                           *)
(***************************************************************************)
SourcesOf(k) == {obligations[i].source : i \in DOMAIN resolutions[k].parts}

Net(k, s) == NetAfterReversal(obligations, IdsOf(s), ReversedAmounts(k))

\* What a resolution resolved are obligations there are.
LEMMA ResolutionParts ==
    ASSUME Inv, NEW k \in DOMAIN resolutions
    PROVE  /\ DOMAIN resolutions[k].parts \subseteq Ids
           /\ \A i \in DOMAIN resolutions[k].parts :
                  resolutions[k].parts[i].amount \in Amounts
           /\ \A i \in Ids : ReversedAmounts(k)[i] \in Nat
           /\ \A i \in Ids : i \notin DOMAIN resolutions[k].parts
                                 => ReversedAmounts(k)[i] = 0
<1>1. resolutions[k] \in ResolutionType(Ids)
  BY DEF Inv, TypeOK
<1>2. PICK S \in SUBSET Ids : resolutions[k].parts \in [S -> PartType]
  BY <1>1 DEF ResolutionType
<1>3. \A i \in S : resolutions[k].parts[i].amount \in Amounts
  BY <1>2 DEF PartType
<1>4. Amounts \subseteq Nat
  BY DEF Amounts
<1> QED
  BY <1>2, <1>3, <1>4 DEF ReversedAmounts

\* The plan of a source changes writable obligations of that source, and what it
\* leaves as it is has the remainder the plan gives it.
LEMMA ReversalPlanned ==
    ASSUME Inv, NEW k \in DOMAIN resolutions, NEW s \in SourcesOf(k),
           NEW correction \in Selections
    PROVE  LET p == ReversalPlan(k, s, correction)
           IN  /\ \A i \in p.changed : /\ i \in Ids
                                       /\ obligations[i].source = s
                                       /\ obligations[i].cycle \notin Finalized
               /\ \A i \in Ids :
                      \/ obligations[i].source # s
                      \/ obligations[i].cycle \in Finalized
                      \/ i \in p.changed
                      \/ obligations[i].remaining = Remainder(i, p.reused, p.net)
               /\ \A i, j \in p.reused : i = j
               /\ \A i \in p.reused : /\ i \in Ids
                                      /\ obligations[i].source = s
                                      /\ obligations[i].cycle \notin Finalized
                                      /\ obligations[i].debtor = Debtor(p.net)
                                      /\ p.net # 0
               /\ p.net = Net(k, s)
               /\ p.isNew <=> p.net # 0 /\ p.reused = {}
               /\ p.fact \in Nat
               /\ \/ p.cycle = correction
                  \/ \E i \in Ids : p.cycle = obligations[i].cycle
<1> DEFINE p        == ReversalPlan(k, s, correction)
           parts    == DOMAIN resolutions[k].parts \cap IdsOf(s)
           reversed == ReversedAmounts(k)
           net      == NetAfterReversal(obligations, IdsOf(s), reversed)
           writable == WritableIds(obligations, IdsOf(s), Finalized)
           reused   == Found(ReusedInReversal(obligations, writable,
                                              reversed, net))
           source   == CHOOSE i \in parts : TRUE
           changed  == {i \in writable :
                           \/ reversed[i] > 0
                           \/ obligations[i].remaining
                                  # Remainder(i, reused, net)}
           isNew    == net # 0 /\ reused = {}
           cycle    == IF CorrectedParts(k) \cap parts # {}
                       THEN correction ELSE obligations[source].cycle
<1>1. p = [net     |-> net,
           reused  |-> reused,
           changed |-> changed,
           isNew   |-> isNew,
           fact    |-> obligations[source].fact,
           cycle   |-> cycle]
  BY DEF ReversalPlan
<1>2. writable = {i \in Ids : /\ obligations[i].source = s
                              /\ obligations[i].cycle \notin Finalized}
  BY DEF WritableIds, IdsOf
<1>3. /\ \A i, j \in reused : i = j
      /\ \A i \in reused : /\ i \in writable
                           /\ net # 0
                           /\ obligations[i].debtor = Debtor(net)
  <2> DEFINE candidates == ReusedInReversal(obligations, writable, reversed, net)
             matching   == Matching(obligations, writable, net)
  <2>1. \A i \in candidates : i \in matching
    BY DEF ReusedInReversal, OpenIds
  <2>2. reused \subseteq candidates /\ \A i, j \in reused : i = j
    BY DEF Found
  <2>3. \A i \in matching :
            i \in writable /\ net # 0 /\ obligations[i].debtor = Debtor(net)
    BY DEF Matching
  <2> HIDE DEF candidates, matching, reused, writable, net
  <2> QED
    BY <2>1, <2>2, <2>3
<1>4. source \in Ids
  <2>1. PICK i \in DOMAIN resolutions[k].parts : obligations[i].source = s
    BY DEF SourcesOf
  <2>2. i \in parts
    BY <2>1, ResolutionParts DEF IdsOf
  <2>3. source \in parts
    BY <2>2
  <2> QED
    BY <2>3 DEF IdsOf
<1>5. obligations[source].fact \in Nat
  BY <1>4, ObligationsType DEF Inv, ObligationType
<1>6. cycle = correction \/ \E i \in Ids : cycle = obligations[i].cycle
  BY <1>4
<1>7. \A i \in changed : i \in writable
  OBVIOUS
<1>8. \A i \in writable \ changed :
          obligations[i].remaining = Remainder(i, reused, net)
  OBVIOUS
<1> HIDE DEF p, net, writable, reused, source, changed, cycle
<1>9. /\ p.net = net /\ p.reused = reused /\ p.changed = changed
      /\ p.isNew = isNew /\ p.fact = obligations[source].fact
      /\ p.cycle = cycle
  BY <1>1
<1>10. \A i \in Ids : \/ obligations[i].source # s
                      \/ obligations[i].cycle \in Finalized
                      \/ i \in changed
                      \/ obligations[i].remaining = Remainder(i, reused, net)
  BY <1>2, <1>8
<1>11. net = Net(k, s)
  BY DEF net, Net
<1> QED
  BY <1>2, <1>3, <1>5, <1>6, <1>7, <1>9, <1>10, <1>11 DEF p

\* The sources of a resolution are finitely many.
LEMMA SourcesFinite ==
    ASSUME Inv, NEW k \in DOMAIN resolutions
    PROVE  IsFiniteSet(SourcesOf(k))
<1> DEFINE parts == DOMAIN resolutions[k].parts
           f     == [i \in parts |-> obligations[i].source]
<1>1. parts \subseteq 1 .. Len(obligations) /\ Len(obligations) \in Nat
  BY ResolutionParts, ObligationsType DEF Inv
<1>2. IsFiniteSet(parts)
  <2>1. IsFiniteSet(1 .. Len(obligations))
    BY <1>1, FS_Interval
  <2> HIDE DEF parts
  <2> QED
    BY <1>1, <2>1, FS_Subset
<1>3. f \in Surjection(parts, SourcesOf(k))
  BY DEF SourcesOf, Surjection
<1> HIDE DEF parts, f
<1> QED
  BY <1>2, <1>3, FS_Surjection

\* A reversal reopens one obligation of every source, or registers one.
LEMMA ReversalWrites ==
    ASSUME Inv, NEW k \in DOMAIN resolutions, NEW correction \in Selections,
           ReverseSettlement(k, correction)
    PROVE  /\ Writes
           /\ \A i \in DOMAIN obligations' \ Ids :
                  \E j \in Ids : obligations'[i].source = obligations[j].source
           /\ MadeToSay(SourcesOf(k), [s \in SourcesOf(k) |-> Net(k, s)])
<1> DEFINE parts    == DOMAIN resolutions[k].parts
           sources  == SourcesOf(k)
           plan(s)  == ReversalPlan(k, s, correction)
           plans    == [s \in sources |-> ReversalPlan(k, s, correction)]
           reversed == ReversedAmounts(k)
           created  == {s \in sources : plans[s].isNew}
           kept     == [i \in Ids |->
               LET s == obligations[i].source
               IN  IF s \in sources /\ i \in plans[s].changed
                   THEN ResolutionReversed(obligations[i],
                            Remainder(i, plans[s].reused, plans[s].net),
                            reversed[i])
                   ELSE obligations[i]]
<1>1. /\ correction # NoCycle => cycles[correction] = "OPEN"
      /\ \A s \in sources : IsMoney(Abs(plans[s].net))
      /\ \A s \in created : plans[s].cycle \notin Finalized
      /\ \A i \in parts :
             i \in plans[obligations[i].source].changed =>
                 reversed[i] <= obligations[i].recognized
                                    - obligations[i].remaining
      /\ \A i \in Ids : IsMoney(kept[i].recognized)
      /\ \E q \in Bijection(1 .. Cardinality(created), created) :
             obligations' = kept \o
                 [n \in DOMAIN q |->
                     NewObligation(q[n], plans[q[n]].fact, plans[q[n]].net,
                                   plans[q[n]].cycle)]
      /\ cycles' = cycles
  BY DEF ReverseSettlement, SourcesOf
<1>2. \A s \in sources :
          /\ \A i \in plans[s].changed :
                 /\ i \in Ids
                 /\ obligations[i].source = s
                 /\ obligations[i].cycle \notin Finalized
          /\ \A i \in Ids :
                 \/ obligations[i].source # s
                 \/ obligations[i].cycle \in Finalized
                 \/ i \in plans[s].changed
                 \/ obligations[i].remaining
                        = Remainder(i, plans[s].reused, plans[s].net)
          /\ \A i, j \in plans[s].reused : i = j
          /\ \A i \in plans[s].reused : /\ i \in Ids
                                        /\ obligations[i].source = s
                                        /\ obligations[i].cycle \notin Finalized
                                        /\ obligations[i].debtor = Debtor(plans[s].net)
                                        /\ plans[s].net # 0
          /\ plans[s].net = Net(k, s)
          /\ plans[s].isNew <=> plans[s].net # 0 /\ plans[s].reused = {}
          /\ plans[s].fact \in Nat
          /\ \/ plans[s].cycle = correction
             \/ \E i \in Ids : plans[s].cycle = obligations[i].cycle
  BY ReversalPlanned
<1>3. \A s \in sources : \A i :
          Remainder(i, plans[s].reused, plans[s].net) \in 0 .. MaxMoney
  <2>1. \A s \in sources : IsMoney(Abs(plans[s].net))
    BY <1>1
  <2> HIDE DEF plans, sources
  <2> QED
    BY <2>1, MoneyAssumption DEF Remainder, IsMoney
<1>4. \A s \in sources : \A i :
          i \notin plans[s].reused
              => Remainder(i, plans[s].reused, plans[s].net) = 0
  BY DEF Remainder
<1>5. \A i \in Ids :
          i \in plans[obligations[i].source].changed
              => /\ reversed[i] \in Nat
                 /\ reversed[i] <= obligations[i].recognized
                                       - obligations[i].remaining
  <2> SUFFICES ASSUME NEW i \in Ids,
                      i \in plans[obligations[i].source].changed
               PROVE  /\ reversed[i] \in Nat
                      /\ reversed[i] <= obligations[i].recognized
                                            - obligations[i].remaining
    OBVIOUS
  <2>1. /\ obligations[i].recognized \in Nat
        /\ obligations[i].remaining \in Nat
        /\ obligations[i].remaining <= obligations[i].recognized
    BY ObligationsType, MoneyAssumption DEF Inv, Bounded, ObligationType
  <2>2. reversed[i] \in Nat /\ (i \notin parts => reversed[i] = 0)
    BY ResolutionParts
  <2>3. i \in parts => reversed[i] <= obligations[i].recognized
                                           - obligations[i].remaining
    BY <1>1
  <2> HIDE DEF reversed, parts, plans
  <2> QED
    BY <2>1, <2>2, <2>3
<1>6. \A i \in Ids :
          LET s == obligations[i].source
          IN  \/ kept[i] = obligations[i] /\ ~ (s \in sources /\ i \in plans[s].changed)
              \/ /\ s \in sources /\ i \in plans[s].changed
                 /\ kept[i] = ResolutionReversed(obligations[i],
                            Remainder(i, plans[s].reused, plans[s].net),
                            reversed[i])
  OBVIOUS
<1>7. \A i \in Ids :
          LET s == obligations[i].source
          IN  s \in sources /\ i \in plans[s].changed
                  => /\ kept[i] \in ObligationType
                     /\ Bounded(kept[i])
                     /\ kept[i].remaining
                            = Remainder(i, plans[s].reused, plans[s].net)
                     /\ kept[i].source = s
                     /\ kept[i].debtor = obligations[i].debtor
                     /\ kept[i].cycle = obligations[i].cycle
  <2> SUFFICES ASSUME NEW i \in Ids, NEW s, s = obligations[i].source,
                      s \in sources, i \in plans[s].changed
               PROVE  /\ kept[i] \in ObligationType
                      /\ Bounded(kept[i])
                      /\ kept[i].remaining
                             = Remainder(i, plans[s].reused, plans[s].net)
                      /\ kept[i].source = s
                      /\ kept[i].debtor = obligations[i].debtor
                      /\ kept[i].cycle = obligations[i].cycle
    OBVIOUS
  <2> DEFINE r == Remainder(i, plans[s].reused, plans[s].net)
  <2>1. kept[i] = ResolutionReversed(obligations[i], r, reversed[i])
    BY <1>6
  <2>2. r \in 0 .. MaxMoney
    BY <1>3
  <2>3. IsMoney(kept[i].recognized)
    BY <1>1
  <2>4. obligations[i] \in ObligationType /\ Bounded(obligations[i])
    BY ObligationsType DEF Inv
  <2>5. /\ reversed[i] \in Nat
        /\ reversed[i] <= obligations[i].recognized - obligations[i].remaining
    BY <1>5
  <2> HIDE DEF kept, plans, sources, reversed, r
  <2> QED
    BY <2>1, <2>2, <2>3, <2>4, <2>5, ResolutionReversedType DEF r
<1>8. DOMAIN kept = Ids
  OBVIOUS
<1>9. sources \subseteq {obligations[i].source : i \in Ids}
  BY ResolutionParts DEF SourcesOf
<1>10. IsFiniteSet(created)
  <2>1. created \in SUBSET sources
    OBVIOUS
  <2> HIDE DEF created
  <2> QED
    BY <2>1, SourcesFinite, FS_Subset
<1> HIDE DEF kept, plans, plan, sources, reversed, parts
<1>11. \A i \in Ids : /\ kept[i] \in ObligationType
                      /\ Bounded(kept[i])
                      /\ kept[i].source = obligations[i].source
                      /\ kept[i].debtor = obligations[i].debtor
                      /\ kept[i].cycle = obligations[i].cycle
  BY <1>6, <1>7, ObligationsType DEF Inv
<1>12. kept \in Seq(ObligationType) /\ Len(kept) = Len(obligations)
  <2>1. kept = [i \in 1 .. Len(obligations) |-> kept[i]]
    BY <1>8, ObligationsType DEF Inv, kept
  <2> QED
    BY <1>8, <1>11, <2>1, ObligationsType DEF Inv
<1>13. \A i \in Ids : \/ kept[i] = obligations[i]
                      \/ /\ obligations[i].cycle \notin Finalized
                         /\ kept[i].cycle \notin Finalized
                         /\ InOpenCycle(kept[i], cycles')
  BY <1>1, <1>2, <1>6, <1>11, NotFinalizedIsOpen DEF InOpenCycle
\* A frozen obligation is not open, and any other of a source has its remainder.
<1>14. \A i \in Ids :
           LET s == obligations[i].source
           IN  s \in sources /\ i \notin plans[s].reused => ~ IsOpen(kept[i])
  <2> SUFFICES ASSUME NEW i \in Ids, NEW s, s = obligations[i].source,
                      s \in sources, i \notin plans[s].reused
               PROVE  ~ IsOpen(kept[i])
    OBVIOUS
  <2>1. Remainder(i, plans[s].reused, plans[s].net) = 0
    BY <1>4
  <2>2. CASE i \in plans[s].changed
    <3>1. kept[i].remaining = 0
      BY <1>7, <2>1, <2>2
    <3> QED
      BY <3>1 DEF IsOpen
  <2>3. CASE i \notin plans[s].changed
    <3>1. kept[i] = obligations[i]
      BY <1>6, <2>3
    <3>2. CASE obligations[i].cycle \in Finalized
      BY <3>1, <3>2, CyclesAssumption
         DEF Inv, NothingOpenInFinalized, Finalized
    <3>3. CASE obligations[i].cycle \notin Finalized
      <4>1. obligations[i].remaining = 0
        BY <1>2, <2>1, <2>3, <3>3
      <4> QED
        BY <3>1, <4>1 DEF IsOpen
    <3> QED
      BY <3>2, <3>3
  <2> QED
    BY <2>2, <2>3
<1>15. \A i, j \in Ids :
           /\ IsOpen(kept[i])
           /\ IsOpen(kept[j])
           /\ kept[i].source = kept[j].source
           => i = j
  <2> SUFFICES ASSUME NEW i \in Ids, NEW j \in Ids, NEW s,
                      IsOpen(kept[i]), IsOpen(kept[j]),
                      s = obligations[i].source, s = obligations[j].source
               PROVE  i = j
    BY <1>11
  <2>1. CASE s \in sources
    <3>1. i \in plans[s].reused /\ j \in plans[s].reused
      BY <1>14, <2>1
    <3> QED
      BY <1>2, <2>1, <3>1
  <2>2. CASE s \notin sources
    <3>1. kept[i] = obligations[i] /\ kept[j] = obligations[j]
      BY <1>6, <2>2
    <3> QED
      BY <3>1 DEF Inv, OneOpenObligation, OpenIds
  <2> QED
    BY <2>1, <2>2
<1>16. created \subseteq sources
           /\ \A s \in created : plans[s].net # 0 /\ plans[s].reused = {}
                                    /\ plans[s].cycle \notin Finalized
  BY <1>1, <1>2
<1>17. PICK q \in Bijection(1 .. Cardinality(created), created) :
           obligations' = kept \o
               [n \in DOMAIN q |->
                   NewObligation(q[n], plans[q[n]].fact, plans[q[n]].net,
                                 plans[q[n]].cycle)]
  BY <1>1
<1> DEFINE m     == Cardinality(created)
           l     == Len(obligations)
           new   == [n \in DOMAIN q |->
                        NewObligation(q[n], plans[q[n]].fact, plans[q[n]].net,
                                      plans[q[n]].cycle)]
<1>18. m \in Nat /\ l \in Nat /\ Ids = 1 .. l
  BY <1>10, FS_CardinalityType, ObligationsType DEF Inv
<1> HIDE DEF created
<1>19. /\ q \in [1 .. m -> created]
       /\ \A x, y \in 1 .. m : q[x] = q[y] => x = y
  BY DEF Bijection, Injection, IsInjective
<1>20. \A x \in 1 .. m :
           /\ new[x] \in ObligationType
           /\ Bounded(new[x])
           /\ new[x].source = q[x]
           /\ new[x].debtor = Debtor(plans[q[x]].net)
           /\ new[x].remaining = Abs(plans[q[x]].net)
           /\ new[x].cycle \notin Finalized
           /\ InOpenCycle(new[x], cycles')
  <2> SUFFICES ASSUME NEW x \in 1 .. m
               PROVE  /\ new[x] \in ObligationType
                      /\ Bounded(new[x])
                      /\ new[x].source = q[x]
                      /\ new[x].debtor = Debtor(plans[q[x]].net)
                      /\ new[x].remaining = Abs(plans[q[x]].net)
                      /\ new[x].cycle \notin Finalized
                      /\ InOpenCycle(new[x], cycles')
    OBVIOUS
  <2> DEFINE s == q[x]
             p == plans[s]
  <2>1. s \in created /\ s \in sources
    BY <1>16, <1>19
  <2>2. s \in Origins \cup Agreements
    BY <1>9, <2>1, ObligationsType DEF Inv, ObligationType
  <2>3. p.fact \in Nat /\ IsMoney(Abs(p.net)) /\ p.cycle \notin Finalized
    BY <1>1, <1>2, <1>16, <2>1
  <2>4. p.cycle \in Selections /\ (p.cycle # NoCycle => cycles[p.cycle] = "OPEN")
    <3>1. CASE p.cycle = correction
      BY <1>1, <3>1
    <3>2. CASE \E i \in Ids : p.cycle = obligations[i].cycle
      BY <2>3, <3>2, NotFinalizedIsOpen, ObligationsType
         DEF Inv, ObligationType, InOpenCycle
    <3> QED
      BY <1>2, <2>1, <3>1, <3>2
  <2>5. new[x] = NewObligation(s, p.fact, p.net, p.cycle)
    BY <1>19
  <2> HIDE DEF s, p, new
  <2>6. /\ new[x] \in ObligationType
        /\ Bounded(new[x])
        /\ new[x].source = s
        /\ new[x].debtor = Debtor(p.net)
        /\ new[x].remaining = Abs(p.net)
        /\ new[x].cycle = p.cycle
    BY <2>2, <2>3, <2>4, <2>5, NewObligationType
  <2> QED
    BY <1>1, <2>3, <2>4, <2>6 DEF InOpenCycle, s, p
<1>21. new \in Seq(ObligationType) /\ Len(new) = m
  <2>1. new = [x \in 1 .. m |-> new[x]]
    BY <1>19
  <2> HIDE DEF new
  <2> QED
    BY <1>18, <1>20, <2>1
<1>22. obligations' = kept \o new
  BY <1>17
<1> HIDE DEF new, m, l
<1>23. /\ obligations' \in Seq(ObligationType)
       /\ DOMAIN obligations' = 1 .. (l + m)
       /\ \A i \in 1 .. l : obligations'[i] = kept[i]
       /\ \A i \in (l + 1) .. (l + m) :
              i - l \in 1 .. m /\ obligations'[i] = new[i - l]
  <2>1. Len(kept) = l /\ l \in Nat /\ m \in Nat
    BY <1>12, <1>18 DEF l
  <2>2. /\ obligations' \in Seq(ObligationType)
        /\ Len(obligations') = l + m
    BY <1>12, <1>21, <1>22, <2>1, ConcatProperties
  <2>3. \A i \in 1 .. (l + m) :
            obligations'[i] = IF i <= l THEN kept[i] ELSE new[i - l]
    <3>1. \A i \in 1 .. Len(kept) + Len(new) : (kept \o new)[i] =
              IF i <= Len(kept) THEN kept[i] ELSE new[i - Len(kept)]
      BY <1>12, <1>21, ConcatProperties
    <3> QED
      BY <1>21, <1>22, <2>1, <3>1
  <2> QED
    BY <2>1, <2>2, <2>3
<1>24. \A i \in DOMAIN obligations' :
           \/ i \in Ids
           \/ i \in (l + 1) .. (l + m)
  BY <1>18, <1>23
<1>25. \A i, j \in DOMAIN obligations' :
           /\ IsOpen(obligations'[i])
           /\ IsOpen(obligations'[j])
           /\ obligations'[i].source = obligations'[j].source
           => i = j
  <2> SUFFICES ASSUME NEW i \in DOMAIN obligations',
                      NEW j \in DOMAIN obligations',
                      IsOpen(obligations'[i]), IsOpen(obligations'[j]),
                      obligations'[i].source = obligations'[j].source
               PROVE  i = j
    OBVIOUS
  <2>1. \A x \in Ids, y \in (l + 1) .. (l + m) :
            obligations'[x].source = obligations'[y].source
                => ~ IsOpen(obligations'[x])
    <3> SUFFICES ASSUME NEW x \in Ids, NEW y \in (l + 1) .. (l + m),
                        obligations'[x].source = obligations'[y].source
                 PROVE  ~ IsOpen(kept[x])
      BY <1>18, <1>23
    <3>1. obligations[x].source \in created
      <4>1. y - l \in 1 .. m /\ obligations'[y] = new[y - l]
        BY <1>23
      <4>2. obligations'[y].source \in created
        BY <1>19, <1>20, <4>1
      <4>3. obligations'[x].source = obligations[x].source
        BY <1>11, <1>18, <1>23
      <4> QED
        BY <4>2, <4>3
    <3> QED
      BY <1>14, <1>16, <3>1
  <2>2. CASE i \in Ids /\ j \in Ids
    BY <1>15, <1>18, <1>23, <2>2
  <2>3. CASE i \in (l + 1) .. (l + m) /\ j \in (l + 1) .. (l + m)
    <3>1. q[i - l] = q[j - l] /\ i - l \in 1 .. m /\ j - l \in 1 .. m
      BY <1>20, <1>23, <2>3
    <3> QED
      BY <1>18, <1>19, <2>3, <3>1
  <2> QED
    BY <1>24, <2>1, <2>2, <2>3
<1>26. \A i \in DOMAIN obligations' \ Ids :
           /\ obligations'[i] \in ObligationType
           /\ Bounded(obligations'[i])
           /\ obligations'[i].cycle \notin Finalized
           /\ InOpenCycle(obligations'[i], cycles')
           /\ \E j \in Ids : obligations'[i].source = obligations[j].source
  <2> SUFFICES ASSUME NEW i \in (l + 1) .. (l + m)
               PROVE  /\ obligations'[i] \in ObligationType
                      /\ Bounded(obligations'[i])
                      /\ obligations'[i].cycle \notin Finalized
                      /\ InOpenCycle(obligations'[i], cycles')
                      /\ \E j \in Ids :
                             obligations'[i].source = obligations[j].source
    BY <1>24
  <2>1. i - l \in 1 .. m /\ obligations'[i] = new[i - l]
    BY <1>23
  <2>2. q[i - l] \in sources
    BY <1>16, <1>19, <2>1
  <2> QED
    BY <1>9, <1>20, <2>1, <2>2
<1>27. cycles' \in [Cycles -> {"ABSENT", "OPEN", "FINALIZED"}]
  BY <1>1 DEF Inv, TypeOK
<1>28. \A i \in Ids : i \in DOMAIN obligations' /\ obligations'[i] = kept[i]
  BY <1>18, <1>23
<1>29. \A i \in DOMAIN obligations' : Bounded(obligations'[i])
  BY <1>11, <1>26, <1>28
<1>30. \A i \in DOMAIN obligations' :
           \/ i \in Ids /\ obligations'[i] = obligations[i]
           \/ /\ i \in Ids => obligations[i].cycle \notin Finalized
              /\ obligations'[i].cycle \notin Finalized
              /\ InOpenCycle(obligations'[i], cycles')
  BY <1>13, <1>26, <1>28
<1>31. Writes
  BY <1>1, <1>11, <1>23, <1>25, <1>26, <1>27, <1>28, <1>29, <1>30 DEF Writes
\* A source is owed its net by what is reused, or by what is registered.
<1>32. \A i \in DOMAIN obligations' \ Ids :
           LET s == obligations'[i].source
           IN  /\ s \in created
               /\ obligations'[i].debtor = Debtor(plans[s].net)
  <2> SUFFICES ASSUME NEW i \in (l + 1) .. (l + m)
               PROVE  LET s == obligations'[i].source
                      IN  /\ s \in created
                          /\ obligations'[i].debtor = Debtor(plans[s].net)
    BY <1>24
  <2>1. i - l \in 1 .. m /\ obligations'[i] = new[i - l]
    BY <1>23
  <2>2. q[i - l] \in created
    BY <1>19, <2>1
  <2> QED
    BY <1>20, <2>1, <2>2
<1>33. ASSUME NEW s \in sources
       PROVE  TakesUp(s, plans[s].net)
  <2>1. CASE plans[s].reused # {}
    <3>1. PICK i \in plans[s].reused : TRUE
      BY <2>1
    <3>2. /\ i \in Ids /\ obligations[i].source = s
          /\ obligations[i].cycle \notin Finalized
          /\ obligations[i].debtor = Debtor(plans[s].net)
          /\ plans[s].net # 0
      BY <1>2, <1>33, <3>1
    <3>3. Remainder(i, plans[s].reused, plans[s].net) = Abs(plans[s].net)
      BY <3>1 DEF Remainder
    <3>4. kept[i].remaining = Abs(plans[s].net)
      BY <1>2, <1>6, <1>7, <1>33, <3>2, <3>3
    <3> QED
      BY <1>11, <1>28, <3>2, <3>4 DEF TakesUp
  <2>2. CASE plans[s].reused = {} /\ plans[s].net # 0
    <3>1. s \in created
      BY <1>2, <1>33, <2>2 DEF created
    <3>2. PICK x \in 1 .. m : q[x] = s
      BY <3>1 DEF Bijection, Surjection, m
    <3>3. /\ x + l \in DOMAIN obligations'
          /\ obligations'[x + l] = new[x]
      BY <1>18, <1>23
    <3> QED
      BY <1>20, <2>2, <3>2, <3>3 DEF TakesUp
  <2>3. CASE plans[s].reused = {} /\ plans[s].net = 0
    <3>1. \A i \in Ids : obligations[i].source = s => ~ IsOpen(obligations'[i])
      BY <1>14, <1>28, <1>33, <2>3
    <3>2. \A i \in DOMAIN obligations' \ Ids : obligations'[i].source # s
      BY <1>16, <1>32, <2>3
    <3>3. \A i \in DOMAIN obligations' : obligations'[i].source = s => ~ IsOpen(obligations'[i])
      BY <1>11, <1>28, <3>1, <3>2
    <3> QED
      BY <2>3, <3>3 DEF TakesUp
  <2> QED
    BY <2>1, <2>2, <2>3
<1> DEFINE due == [s \in sources |-> Net(k, s)]
<1>34. \A s \in sources : due[s] = plans[s].net
  BY <1>2
<1> HIDE DEF due
<1>35. /\ \A i \in Ids : obligations'[i].debtor = obligations[i].debtor
       /\ \A i \in Ids : obligations[i].source \notin sources
                             => obligations'[i] = obligations[i]
  BY <1>6, <1>11, <1>28
<1>36. \A i \in DOMAIN obligations' \ Ids :
           LET s == obligations'[i].source
           IN  /\ s \in sources
               /\ due[s] # 0
               /\ obligations'[i].debtor = Debtor(due[s])
  BY <1>16, <1>32, <1>34
<1>37. \A s \in sources : TakesUp(s, due[s])
  BY <1>33, <1>34
<1>38. MadeToSay(sources, due)
  BY <1>35, <1>36, <1>37 DEF MadeToSay
<1>39. MadeToSay(SourcesOf(k), [s \in SourcesOf(k) |-> Net(k, s)])
  BY <1>38 DEF sources, due
<1> QED
  BY <1>26, <1>31, <1>39

-----------------------------------------------------------------------------
(***************************************************************************)
(* The invariant is inductive.                                             *)
(***************************************************************************)
\* The columns that are not those of the obligations and their cycles.
RestType ==
    /\ shares \in [Origins -> [Parties -> Nat]]
    /\ facts \in [Origins -> Seq(FactType)]
    /\ \A s \in Origins : \A f \in DOMAIN facts[s] : Valid(facts[s][f]) >= 0
    /\ agreed \in [Agreements -> -MaxMoney .. MaxMoney]

\* What writes the ledger in open cycles keeps the invariant.
LEMMA WritesKeepInv ==
    ASSUME Inv, Writes, RestType',
           resolutions' \in Seq(ResolutionType(DOMAIN obligations')),
           \A a \in Agreements : agreed[a] # 0 => agreed'[a] # 0,
           \A i \in DOMAIN obligations' \ Ids :
               obligations'[i].source \in Agreements
                   => agreed'[obligations'[i].source] # 0
    PROVE  Inv'
<1>1. TypeOK'
  BY DEF Writes, RestType, TypeOK, Ids, Bounded
<1>2. \A i \in Ids : obligations[i].cycle \in Selections
  BY ObligationsType DEF Inv, ObligationType
<1>3. \A i \in DOMAIN obligations' :
          \/ i \in Ids /\ obligations'[i] = obligations[i]
          \/ InOpenCycle(obligations'[i], cycles')
  BY DEF Writes
<1>4. \A c \in Cycles : \/ cycles'[c] = cycles[c]
                        \/ cycles[c] = "ABSENT" /\ cycles'[c] = "OPEN"
  BY DEF Writes
<1>5. CyclesExist'
  <2> SUFFICES ASSUME NEW i \in DOMAIN obligations',
                      obligations'[i].cycle # NoCycle
               PROVE  cycles'[obligations'[i].cycle] # "ABSENT"
    BY DEF CyclesExist, Ids
  <2>1. CASE i \in Ids /\ obligations'[i] = obligations[i]
    BY <1>2, <1>4, <2>1 DEF Inv, CyclesExist, Selections
  <2>2. CASE InOpenCycle(obligations'[i], cycles')
    BY <2>2 DEF InOpenCycle
  <2> QED
    BY <1>3, <2>1, <2>2
<1>6. NothingOpenInFinalized'
  <2> SUFFICES ASSUME NEW i \in DOMAIN obligations',
                      IsOpen(obligations'[i]),
                      obligations'[i].cycle # NoCycle
               PROVE  cycles'[obligations'[i].cycle] = "OPEN"
    BY DEF NothingOpenInFinalized, Ids, IsOpen
  <2>1. CASE i \in Ids /\ obligations'[i] = obligations[i]
    BY <1>2, <1>4, <2>1 DEF Inv, NothingOpenInFinalized, Selections
  <2>2. CASE InOpenCycle(obligations'[i], cycles')
    BY <2>2 DEF InOpenCycle
  <2> QED
    BY <1>3, <2>1, <2>2
<1>7. OneOpenObligation'
  BY DEF Writes, OneOpenObligation, OpenIds, Ids, IsOpen
<1>8. AgreedBefore'
  <2> SUFFICES ASSUME NEW i \in DOMAIN obligations',
                      obligations'[i].source \in Agreements
               PROVE  agreed'[obligations'[i].source] # 0
    BY DEF AgreedBefore, Ids
  <2>1. CASE i \in Ids
    <3>1. obligations'[i].source = obligations[i].source
      BY <2>1 DEF Writes
    <3> QED
      BY <2>1, <3>1 DEF Inv, AgreedBefore
  <2> QED
    BY <2>1
<1> QED
  BY <1>1, <1>5, <1>6, <1>7, <1>8 DEF Inv

\* More obligations do not make a resolution one of others.
LEMMA ResolutionsKept ==
    ASSUME Inv, Writes, UNCHANGED resolutions
    PROVE  resolutions' \in Seq(ResolutionType(DOMAIN obligations'))
<1>1. ResolutionType(Ids) \subseteq ResolutionType(DOMAIN obligations')
  <2>1. SUBSET Ids \subseteq SUBSET DOMAIN obligations'
    BY DEF Writes
  <2>2. UNION {[S -> PartType] : S \in SUBSET Ids}
            \subseteq UNION {[S -> PartType] : S \in SUBSET DOMAIN obligations'}
    BY <2>1
  <2> QED
    BY <2>2 DEF ResolutionType
<1>2. resolutions \in Seq(ResolutionType(Ids))
  BY DEF Inv, TypeOK
<1> QED
  BY <1>1, <1>2, SeqMonotonic

\* Recording a fact.
LEMMA RecordFactStep ==
    ASSUME Inv, NEW s \in Origins, NEW m \in Parties, NEW n \in Amounts,
           NEW c \in Selections, RecordFact(s, m, n, c)
    PROVE  Inv' /\ Writes
<1> DEFINE new == [payer |-> m, amount |-> n, reversed |-> 0]
           fs  == Append(facts[s], new)
<1>1. /\ facts' = [facts EXCEPT ![s] = fs]
      /\ Reconcile(s, Difference(s, shares[s], fs, HasReversals(fs)),
                   Len(fs), c)
      /\ UNCHANGED <<shares, agreed, resolutions>>
  BY DEF RecordFact
<1>2. new \in FactType /\ Valid(new) >= 0
  BY MoneyAssumption DEF FactType, Amounts, Valid
<1>3. facts[s] \in Seq(FactType)
           /\ \A f \in DOMAIN facts[s] : Valid(facts[s][f]) >= 0
  BY DEF Inv, TypeOK
<1> HIDE DEF new
<1>4. /\ fs \in Seq(FactType)
      /\ Len(fs) \in Nat
      /\ \A f \in DOMAIN fs : Valid(fs[f]) >= 0
  BY <1>2, <1>3
<1> HIDE DEF fs
<1>5. Writes /\ \A i \in DOMAIN obligations' \ Ids : obligations'[i].source = s
  BY <1>1, <1>4, ReconcileWrites
<1>6. RestType'
  BY <1>1, <1>4 DEF Inv, TypeOK, RestType, Valid
<1>7. s \notin Agreements
  BY SourcesAssumption
<1> QED
  BY <1>1, <1>5, <1>6, <1>7, ResolutionsKept, WritesKeepInv

\* Reversing a part of a fact.
LEMMA ReverseFactStep ==
    ASSUME Inv, NEW s \in Origins, NEW f \in DOMAIN facts[s], NEW n \in Amounts,
           NEW c \in Selections, ReverseFact(s, f, n, c)
    PROVE  Inv' /\ Writes
<1> DEFINE old == facts[s][f]
           new == [old EXCEPT !.reversed = @ + n]
           fs  == [facts[s] EXCEPT ![f].reversed = @ + n]
<1>1. /\ n <= Valid(old)
      /\ facts' = [facts EXCEPT ![s] = fs]
      /\ Reconcile(s, Difference(s, shares[s], fs, TRUE), f, c)
      /\ UNCHANGED <<shares, agreed, resolutions>>
  BY DEF ReverseFact
<1>2. /\ facts[s] \in Seq(FactType)
      /\ old \in FactType
      /\ \A g \in DOMAIN facts[s] : Valid(facts[s][g]) >= 0
      /\ f \in Nat
  BY DEF Inv, TypeOK
<1>3. new \in FactType /\ Valid(new) >= 0
  <2>1. /\ old.reversed \in Nat /\ old.amount \in 0 .. MaxMoney
        /\ n \in Nat /\ n <= old.amount - old.reversed
    BY <1>1, <1>2, MoneyAssumption DEF FactType, Amounts, Valid
  <2>2. old.reversed + n \in 0 .. MaxMoney
           /\ old.amount - (old.reversed + n) >= 0
    BY <2>1, MoneyAssumption
  <2>3. new = [old EXCEPT !.reversed = old.reversed + n]
    BY <1>2 DEF FactType
  <2> HIDE DEF new, old
  <2> QED
    BY <1>2, <2>2, <2>3 DEF FactType, Valid
<1>4. fs = [facts[s] EXCEPT ![f] = new]
  BY <1>2
<1> HIDE DEF new, old
<1>5. /\ fs \in Seq(FactType)
      /\ \A g \in DOMAIN fs : Valid(fs[g]) >= 0
  BY <1>2, <1>3, <1>4
<1> HIDE DEF fs
<1>6. Writes /\ \A i \in DOMAIN obligations' \ Ids : obligations'[i].source = s
  BY <1>1, <1>2, ReconcileWrites
<1>7. RestType'
  BY <1>1, <1>5 DEF Inv, TypeOK, RestType, Valid
<1>8. s \notin Agreements
  BY SourcesAssumption
<1> QED
  BY <1>1, <1>6, <1>7, <1>8, ResolutionsKept, WritesKeepInv

\* What leaves the obligations and the cycles alone writes nothing.
LEMMA NothingWritten ==
    ASSUME Inv, UNCHANGED <<obligations, cycles>>
    PROVE  Writes /\ DOMAIN obligations' = Ids
<1>1. obligations' = [i \in Ids |-> obligations'[i]]
  BY ObligationsType DEF Inv, TypeOK, Ids
<1> QED
  BY <1>1, ReductionWrites DEF Ids

\* Adjusting an expense.
LEMMA AdjustStep ==
    ASSUME Inv, NEW s \in Origins, NEW sh \in Adjusted, NEW c \in Selections,
           Adjust(s, sh, c)
    PROVE  Inv' /\ Writes
<1>1. /\ shares' = [shares EXCEPT ![s] = sh]
      /\ UNCHANGED <<facts, agreed, resolutions>>
  BY DEF Adjust
<1>2. RestType'
  BY <1>1, SharesAssumption DEF Inv, TypeOK, RestType, Valid
<1>3. Writes /\ \A i \in DOMAIN obligations' \ Ids : obligations'[i].source = s
  <2>1. CASE UNCHANGED <<obligations, cycles>>
    BY <2>1, NothingWritten
  <2>2. CASE \E f \in LastValid(facts[s]) :
                 Reconcile(s, Difference(s, sh, facts[s],
                                         HasReversals(facts[s])), f, c)
    <3>1. LastValid(facts[s]) \subseteq Nat
      BY DEF Inv, TypeOK, LastValid
    <3> QED
      BY <2>2, <3>1, ReconcileWrites
  <2> QED
    BY <2>1, <2>2 DEF Adjust
<1>4. s \notin Agreements
  BY SourcesAssumption
<1> QED
  BY <1>1, <1>2, <1>3, <1>4, ResolutionsKept, WritesKeepInv

\* Agreeing on what is owed when the space is closed.
LEMMA AgreeStep ==
    ASSUME Inv, NEW s \in Agreements, NEW d \in Int, Agree(s, d),
           Abs(d) \in Amounts
    PROVE  Inv' /\ Writes
<1>1. /\ agreed' = [agreed EXCEPT ![s] = d]
      /\ UNCHANGED <<shares, facts, resolutions>>
  BY DEF Agree
<1>2. d # 0 /\ d \in -MaxMoney .. MaxMoney /\ IsMoney(Abs(d))
  BY MoneyAssumption DEF Amounts, Abs, IsMoney
<1>3. Writes /\ \A i \in DOMAIN obligations' \ Ids : obligations'[i].source = s
  BY <1>2, AgreeWrites
<1>4. RestType'
  BY <1>1, <1>2 DEF Inv, TypeOK, RestType, Valid
<1>5. agreed \in [Agreements -> -MaxMoney .. MaxMoney]
  BY DEF Inv, TypeOK
<1>6. agreed'[s] # 0 /\ \A a \in Agreements \ {s} : agreed'[a] = agreed[a]
  BY <1>1, <1>2, <1>5
<1> QED
  BY <1>1, <1>3, <1>4, <1>6, ResolutionsKept, WritesKeepInv

\* Resolving obligations: a transfer, an offset or a waiver.
LEMMA ResolveStep ==
    ASSUME Inv, Writes, DOMAIN obligations' = Ids,
           resolutions' \in Seq(ResolutionType(DOMAIN obligations')),
           UNCHANGED <<shares, facts, agreed>>
    PROVE  Inv'
<1>1. RestType'
  BY DEF Inv, TypeOK, RestType, Valid
<1> QED
  BY <1>1, WritesKeepInv

\* Finalizing a cycle writes no obligation, and none in the cycle is open.
LEMMA FinalizeStep ==
    ASSUME Inv, NEW c \in Cycles, FinalizeCycle(c)
    PROVE  /\ Inv'
           /\ UNCHANGED obligations
           /\ \A d \in Finalized : cycles'[d] = "FINALIZED"
<1>1. /\ \A i \in Ids : obligations[i].cycle = c => ~ IsOpen(obligations[i])
      /\ cycles' = [cycles EXCEPT ![c] = "FINALIZED"]
      /\ UNCHANGED <<shares, facts, agreed, obligations, resolutions>>
  BY DEF FinalizeCycle
<1>2. cycles \in [Cycles -> {"ABSENT", "OPEN", "FINALIZED"}]
         /\ \A i \in Ids : obligations[i].cycle \in Selections
  BY ObligationsType DEF Inv, TypeOK, ObligationType
<1>3. TypeOK'
  BY <1>1 DEF Inv, TypeOK, Ids, Valid
<1>4. CyclesExist' /\ NothingOpenInFinalized'
  BY <1>1, <1>2
     DEF Inv, CyclesExist, NothingOpenInFinalized, Ids, IsOpen, Selections
<1>5. OneOpenObligation' /\ AgreedBefore'
  BY <1>1
     DEF Inv, OneOpenObligation, OpenIds, IsOpen, AgreedBefore, Ids
<1> QED
  BY <1>1, <1>2, <1>3, <1>4, <1>5 DEF Inv, Finalized

\* Reversing a settlement.
LEMMA ReverseSettlementStep ==
    ASSUME Inv, NEW k \in DOMAIN resolutions, NEW c \in Selections,
           ReverseSettlement(k, c)
    PROVE  Inv' /\ Writes
<1>1. /\ resolutions' = [resolutions EXCEPT ![k].reversed = TRUE]
      /\ UNCHANGED <<shares, facts, agreed, cycles>>
  BY DEF ReverseSettlement
<1>2. /\ Writes
      /\ \A i \in DOMAIN obligations' \ Ids :
             \E j \in Ids : obligations'[i].source = obligations[j].source
  BY ReversalWrites
<1>3. RestType'
  BY <1>1 DEF Inv, TypeOK, RestType, Valid
<1>4. resolutions' \in Seq(ResolutionType(Ids))
  <2>1. resolutions \in Seq(ResolutionType(Ids))
    BY DEF Inv, TypeOK
  <2>2. [resolutions[k] EXCEPT !.reversed = TRUE] \in ResolutionType(Ids)
    <3> DEFINE P == UNION {[S -> PartType] : S \in SUBSET Ids}
    <3>1. ResolutionType(Ids) = [kind     : {"TRANSFER", "OFFSET", "WAIVER"},
                                 parts    : P,
                                 reversed : BOOLEAN]
      BY DEF ResolutionType
    <3>2. resolutions[k] \in ResolutionType(Ids)
      BY <2>1
    <3>3. resolutions[k] \in [kind     : {"TRANSFER", "OFFSET", "WAIVER"},
                              parts    : P,
                              reversed : BOOLEAN]
      BY <3>1, <3>2
    <3> HIDE DEF P
    <3>4. [resolutions[k] EXCEPT !.reversed = TRUE]
              \in [kind     : {"TRANSFER", "OFFSET", "WAIVER"},
                   parts    : P,
                   reversed : BOOLEAN]
      BY <3>3
    <3> QED
      BY <3>1, <3>4
  <2>3. resolutions' = [resolutions EXCEPT ![k] =
                           [resolutions[k] EXCEPT !.reversed = TRUE]]
    BY <1>1, <2>1
  <2> QED
    BY <2>1, <2>2, <2>3
<1>5. resolutions' \in Seq(ResolutionType(DOMAIN obligations'))
  <2>1. SUBSET Ids \subseteq SUBSET DOMAIN obligations'
    BY <1>2 DEF Writes
  <2>2. UNION {[S -> PartType] : S \in SUBSET Ids}
            \subseteq UNION {[S -> PartType] : S \in SUBSET DOMAIN obligations'}
    BY <2>1
  <2>3. ResolutionType(Ids) \subseteq ResolutionType(DOMAIN obligations')
    BY <2>2 DEF ResolutionType
  <2> QED
    BY <1>4, <2>3, SeqMonotonic
<1> QED
  BY <1>1, <1>2, <1>3, <1>5, WritesKeepInv DEF Inv, AgreedBefore

\* A step finalizes a cycle, or writes the ledger in open cycles, or does nothing.
LEMMA InvStep ==
    ASSUME Inv, [Next]_vars
    PROVE  /\ Inv'
           /\ \/ Writes
              \/ /\ UNCHANGED obligations
                 /\ \A c \in Finalized : cycles'[c] = "FINALIZED"
<1>1. CASE UNCHANGED vars
  <2>1. Inv'
    BY <1>1 DEF vars, Inv, TypeOK, CyclesExist, NothingOpenInFinalized,
               OneOpenObligation, OpenIds, IsOpen, AgreedBefore, Ids, Valid
  <2> QED
    BY <1>1, <2>1 DEF vars, Finalized
<1>2. ASSUME NEW s \in Origins, NEW c \in Selections, NEW m \in Parties,
             NEW n \in Amounts, RecordFact(s, m, n, c)
      PROVE  Inv' /\ Writes
  BY <1>2, RecordFactStep
<1>3. ASSUME NEW s \in Origins, NEW c \in Selections,
             NEW f \in DOMAIN facts[s], NEW n \in Amounts,
             ReverseFact(s, f, n, c)
      PROVE  Inv' /\ Writes
  BY <1>3, ReverseFactStep
<1>4. ASSUME NEW s \in Origins, NEW c \in Selections, NEW sh \in Adjusted,
             Adjust(s, sh, c)
      PROVE  Inv' /\ Writes
  BY <1>4, AdjustStep
<1>5. ASSUME NEW s \in Agreements, NEW n \in Amounts,
             Agree(s, n) \/ Agree(s, -n)
      PROVE  Inv' /\ Writes
  <2>1. n \in Int /\ -n \in Int /\ Abs(n) = n /\ Abs(-n) = n
    BY MoneyAssumption DEF Amounts, Abs
  <2>2. CASE Agree(s, n)
    BY <2>1, <2>2, AgreeStep
  <2>3. CASE Agree(s, -n)
    BY <2>1, <2>3, AgreeStep
  <2> QED
    BY <1>5, <2>2, <2>3
<1>6. ASSUME NEW S \in SUBSET Ids, NEW amounts \in [S -> Amounts],
             (\E m \in Parties : Transfer(m, amounts)) \/ Offset(amounts)
      PROVE  Inv' /\ Writes
  <2>1. \E kind \in {"TRANSFER", "OFFSET"} :
            /\ CanResolve(amounts)
            /\ obligations' = Settled(amounts)
            /\ Resolve(kind, amounts)
    BY <1>6 DEF Transfer, Offset
  <2>2. /\ Writes
        /\ DOMAIN obligations' = Ids
        /\ resolutions' \in Seq(ResolutionType(DOMAIN obligations'))
    BY <2>1, SettlementWrites
  <2>3. UNCHANGED <<shares, facts, agreed>>
    BY <2>1 DEF Resolve
  <2> QED
    BY <2>2, <2>3, ResolveStep
<1>7. ASSUME NEW m \in Parties, NEW i \in Ids, NEW n \in Amounts,
             WaiveObligation(m, i, n)
      PROVE  Inv' /\ Writes
  <2>1. UNCHANGED <<shares, facts, agreed>>
    BY <1>7 DEF WaiveObligation, Resolve
  <2> QED
    BY <1>7, <2>1, WaiverWrites, ResolveStep
<1>8. ASSUME NEW i \in Ids, NEW c \in Selections, MoveObligation(i, c)
      PROVE  Inv' /\ Writes
  <2>1. Writes /\ DOMAIN obligations' = Ids
    BY <1>8, MoveWrites
  <2>2. UNCHANGED <<shares, facts, agreed, resolutions>>
    BY <1>8 DEF MoveObligation
  <2> QED
    BY <2>1, <2>2, ResolutionsKept, ResolveStep
<1>9. ASSUME NEW c \in Cycles, FinalizeCycle(c)
      PROVE  /\ Inv'
             /\ UNCHANGED obligations
             /\ \A d \in Finalized : cycles'[d] = "FINALIZED"
  BY <1>9, FinalizeStep
<1>10. ASSUME NEW k \in DOMAIN resolutions, NEW c \in Selections,
              ReverseSettlement(k, c)
       PROVE  Inv' /\ Writes
  BY <1>10, ReverseSettlementStep
<1>11. OpenIds(obligations, Ids) \subseteq Ids
  BY DEF OpenIds
<1> QED
  BY <1>1, <1>2, <1>3, <1>4, <1>5, <1>6, <1>7, <1>8, <1>9, <1>10, <1>11
     DEF Next, ExpenseStep, ResolutionStep

\* Nothing is owed at first.
LEMMA InvInit ==
    ASSUME Init
    PROVE  Inv
<1>1. TypeOK
  BY SharesAssumption, MoneyAssumption DEF Init, TypeOK, Ids
<1> QED
  BY <1>1 DEF Init, Inv, CyclesExist, NothingOpenInFinalized,
              OneOpenObligation, OpenIds, AgreedBefore, Ids

\* The inductive invariant holds.
THEOREM Invariant == Spec => []Inv
<1>1. Inv /\ [Next]_vars => Inv'
  BY InvStep
<1> QED
  BY InvInit, <1>1, PTL DEF Spec

\* No fact is reversed beyond its amount, no more of an obligation remains than was
\* recognized, and every column keeps its type, whatever the commands.
THEOREM TypeCorrect == Spec => []TypeOK
<1>1. Inv => TypeOK
  BY DEF Inv
<1> QED
  BY <1>1, Invariant, PTL

\* Two obligations of one source are never open at once: reconciliations, reversals
\* and agreements leave the members one debt for it.
THEOREM OneOpen == Spec => []OneOpenObligation
<1>1. Inv => OneOpenObligation
  BY DEF Inv
<1> QED
  BY <1>1, Invariant, PTL

\* What is open in a cycle keeps the cycle open.
THEOREM NothingOpen == Spec => []NothingOpenInFinalized
<1>1. Inv => NothingOpenInFinalized
  BY DEF Inv
<1> QED
  BY <1>1, Invariant, PTL

\* No command changes, moves or adds an obligation of a finalized cycle.
THEOREM Frozen == Spec => FinalizedIsFrozen
<1> DEFINE FrozenStep ==
        \A c \in Finalized :
            /\ cycles'[c] = "FINALIZED"
            /\ \A i \in DOMAIN obligations' :
                   obligations'[i].cycle = c =>
                       i \in Ids /\ obligations'[i] = obligations[i]
            /\ \A i \in Ids :
                   obligations[i].cycle = c => obligations'[i] = obligations[i]
<1>1. Inv /\ [Next]_vars => FrozenStep
  <2> SUFFICES ASSUME Inv, [Next]_vars, NEW c \in Finalized
               PROVE  /\ cycles'[c] = "FINALIZED"
                      /\ \A i \in DOMAIN obligations' :
                             obligations'[i].cycle = c =>
                                 i \in Ids /\ obligations'[i] = obligations[i]
                      /\ \A i \in Ids : obligations[i].cycle = c
                             => obligations'[i] = obligations[i]
    OBVIOUS
  <2>1. CASE Writes
    <3>1. c \in Cycles /\ cycles[c] = "FINALIZED"
      BY DEF Finalized
    <3> QED
      BY <2>1, <3>1 DEF Writes
  <2>2. CASE /\ UNCHANGED obligations
             /\ \A d \in Finalized : cycles'[d] = "FINALIZED"
    BY <2>2 DEF Ids
  <2> QED
    BY <2>1, <2>2, InvStep
<1>2. Inv /\ [Next]_vars => [FrozenStep]_vars
  BY <1>1
<1> QED
  BY <1>2, Invariant, PTL DEF Spec, FinalizedIsFrozen

-----------------------------------------------------------------------------
(***************************************************************************)
(* The sums, for any obligations os and any set S of their indices: in the *)
(* present state and in the next one.                                      *)
(***************************************************************************)
PartOf(os, S, parts) ==
    SumFunction([i \in DOMAIN parts \cap S |-> Signed(os[i], parts[i].amount)])

Live(rs) == {k \in DOMAIN rs : ~ rs[k].reversed}

ResolvedOf(os, S, rs) ==
    SumFunction([k \in Live(rs) |-> PartOf(os, S, rs[k].parts)])

\* The amounts are those of obligations there are.
Amounted(parts, S) ==
    \A i \in DOMAIN parts \cap S : parts[i].amount \in Nat

LEMMA SignedIsInt ==
    ASSUME NEW o, NEW n \in Int
    PROVE  /\ Signed(o, n) \in Int
           /\ n = 0 => Signed(o, n) = 0
BY DEF Signed

LEMMA PartIsInt ==
    ASSUME NEW os, NEW S, IsFiniteSet(S), NEW parts, Amounted(parts, S)
    PROVE  PartOf(os, S, parts) \in Int
<1> DEFINE R == DOMAIN parts \cap S
           f == [i \in R |-> Signed(os[i], parts[i].amount)]
<1>1. IsFiniteSet(R)
  BY FS_Subset
<1>2. \A i \in R : f[i] \in Int
  BY SignedIsInt DEF Amounted
<1>3. PartOf(os, S, parts) = SumFunctionOnSet(f, R)
  BY Zenon DEF PartOf, SumFunction
<1> HIDE DEF f, R
<1> QED
  BY <1>1, <1>2, <1>3, SumIsInt

\* An amount of every obligation of a source, of which some are in a resolution.
LEMMA PartAsSum ==
    ASSUME NEW os, NEW T, IsFiniteSet(T), NEW parts, Amounted(parts, T), NEW a,
           \A i \in T : a[i] = IF i \in DOMAIN parts THEN parts[i].amount ELSE 0
    PROVE  /\ SumFunctionOnSet([i \in T |-> Signed(os[i], a[i])], T)
                  = PartOf(os, T, parts)
           /\ \A i \in T : Signed(os[i], a[i]) \in Int
<1> DEFINE R == DOMAIN parts \cap T
           f == [i \in T |-> Signed(os[i], a[i])]
           g == [i \in R |-> Signed(os[i], parts[i].amount)]
<1>1. \A i \in T : a[i] \in Int /\ (i \notin R => a[i] = 0)
  BY DEF Amounted
<1>2. \A i \in T : f[i] \in Int /\ (i \notin R => f[i] = 0)
  BY <1>1, SignedIsInt
<1>3. R \in SUBSET T /\ IsFiniteSet(R)
  BY FS_Subset
<1>4. \A i \in R : f[i] = g[i]
  OBVIOUS
<1>5. PartOf(os, T, parts) = SumFunctionOnSet(g, R)
  BY Zenon DEF PartOf, SumFunction
<1>6. \A i \in T : Signed(os[i], a[i]) \in Int
  BY <1>1, SignedIsInt
<1> HIDE DEF f, g, R
<1>7. SumFunctionOnSet(f, T) = SumFunctionOnSet(f, R)
  BY <1>2, <1>3, SumOverMore
<1>8. SumFunctionOnSet(f, R) = SumFunctionOnSet(g, R)
  BY <1>3, <1>4, SumOfSame
<1> QED
  BY <1>5, <1>6, <1>7, <1>8 DEF f

\* What is open of a source of which at most one obligation is.
LEMMA OutstandingOfOpen ==
    ASSUME NEW os, NEW S, IsFiniteSet(S),
           \A i \in S : os[i].remaining \in Nat,
           \A i, j \in S : IsOpen(os[i]) /\ IsOpen(os[j]) => i = j
    PROVE  /\ Outstanding(os, S) \in Int
           /\ \A i \in S : IsOpen(os[i])
                  => Outstanding(os, S) = Signed(os[i], os[i].remaining)
           /\ (\A i \in S : ~ IsOpen(os[i])) => Outstanding(os, S) = 0
<1> DEFINE f == [i \in S |-> Signed(os[i], os[i].remaining)]
<1>1. Outstanding(os, S) = SumFunctionOnSet(f, S)
  BY Zenon DEF Outstanding, SumFunction
<1>2. \A i \in S : f[i] \in Int /\ (~ IsOpen(os[i]) => f[i] = 0)
  BY SignedIsInt DEF IsOpen
<1>3. \A i \in S : f[i] = Signed(os[i], os[i].remaining)
  OBVIOUS
<1> HIDE DEF f
<1>4. Outstanding(os, S) \in Int
  BY <1>1, <1>2, SumIsInt
<1>5. ASSUME NEW i \in S, IsOpen(os[i])
      PROVE  Outstanding(os, S) = Signed(os[i], os[i].remaining)
  <2>1. \A j \in S \ {i} : f[j] = 0
    BY <1>2, <1>5
  <2>2. SumFunctionOnSet(f, S) = f[i]
    BY <1>2, <2>1, SumOfOne
  <2> QED
    BY <1>1, <1>3, <2>2
<1>6. ASSUME \A i \in S : ~ IsOpen(os[i])
      PROVE  Outstanding(os, S) = 0
  <2>1. \A i \in S : f[i] \in {0}
    BY <1>2, <1>6
  <2>2. {0} \subseteq Int /\ \A a, b \in {0} : a + b \in {0}
    OBVIOUS
  <2>3. SumFunctionOnSet(f, S) \in {0}
    BY <2>1, <2>2, SumIsIn
  <2> QED
    BY <1>1, <2>3
<1> QED
  BY <1>4, <1>5, <1>6

\* The same amounts of obligations with the same directions come to the same.
LEMMA PartSame ==
    ASSUME NEW os, NEW S, NEW qs, NEW T, NEW parts,
           DOMAIN parts \cap S = DOMAIN parts \cap T,
           \A i \in DOMAIN parts : qs[i].debtor = os[i].debtor
    PROVE  PartOf(qs, T, parts) = PartOf(os, S, parts)
<1> DEFINE f == [i \in DOMAIN parts \cap S |-> Signed(os[i], parts[i].amount)]
           g == [i \in DOMAIN parts \cap T |-> Signed(qs[i], parts[i].amount)]
<1>1. f = g
  BY DEF Signed
<1>2. PartOf(qs, T, parts) = SumFunction(g) /\ PartOf(os, S, parts) = SumFunction(f)
  BY Zenon DEF PartOf
<1> QED
  BY <1>1, <1>2

\* So do the resolutions.
LEMMA ResolvedSame ==
    ASSUME NEW os, NEW S, NEW qs, NEW T, NEW rs,
           \A k \in DOMAIN rs : DOMAIN rs[k].parts \cap S = DOMAIN rs[k].parts \cap T,
           \A k \in DOMAIN rs : \A i \in DOMAIN rs[k].parts :
               qs[i].debtor = os[i].debtor
    PROVE  /\ ResolvedOf(qs, T, rs) = ResolvedOf(os, S, rs)
           /\ \A k \in DOMAIN rs :
                  PartOf(qs, T, rs[k].parts) = PartOf(os, S, rs[k].parts)
<1>1. \A k \in DOMAIN rs : PartOf(qs, T, rs[k].parts) = PartOf(os, S, rs[k].parts)
  BY PartSame
<1> DEFINE f == [k \in Live(rs) |-> PartOf(os, S, rs[k].parts)]
           g == [k \in Live(rs) |-> PartOf(qs, T, rs[k].parts)]
<1>2. \A k \in Live(rs) : k \in DOMAIN rs
  BY DEF Live
<1>3. f = g
  BY <1>1, <1>2, Zenon
<1>4. ResolvedOf(os, S, rs) = SumFunction(f) /\ ResolvedOf(qs, T, rs) = SumFunction(g)
  BY Zenon DEF ResolvedOf
<1> QED
  BY <1>1, <1>3, <1>4

\* One resolution that counts, and the others.
LEMMA ResolvedOfOthers ==
    ASSUME NEW os, NEW S, IsFiniteSet(S), NEW rs, NEW ss, NEW k,
           IsFiniteSet(DOMAIN ss), k \in Live(ss), Live(rs) = Live(ss) \ {k},
           \A j \in Live(rs) : ss[j].parts = rs[j].parts,
           \A j \in Live(ss) : Amounted(ss[j].parts, S)
    PROVE  /\ ResolvedOf(os, S, ss) = PartOf(os, S, ss[k].parts) + ResolvedOf(os, S, rs)
           /\ ResolvedOf(os, S, rs) \in Int
<1> DEFINE f == [j \in Live(ss) |-> PartOf(os, S, ss[j].parts)]
           g == [j \in Live(rs) |-> PartOf(os, S, rs[j].parts)]
<1>1. IsFiniteSet(Live(ss)) /\ IsFiniteSet(Live(rs))
  BY FS_Subset DEF Live
<1>2. \A j \in Live(ss) : f[j] \in Int
  BY PartIsInt
<1>3. /\ ResolvedOf(os, S, ss) = SumFunctionOnSet(f, Live(ss))
      /\ ResolvedOf(os, S, rs) = SumFunctionOnSet(g, Live(rs))
  BY Zenon DEF ResolvedOf, SumFunction
<1>4. \A j \in Live(rs) : f[j] = g[j]
  OBVIOUS
<1>5. f[k] = PartOf(os, S, ss[k].parts)
  OBVIOUS
<1> HIDE DEF f, g
<1>6. SumFunctionOnSet(f, Live(ss)) = f[k] + SumFunctionOnSet(f, Live(ss) \ {k})
  BY <1>1, <1>2, SumOfOthers
<1>7. SumFunctionOnSet(f, Live(rs)) = SumFunctionOnSet(g, Live(rs))
  BY <1>1, <1>4, SumOfSame
<1>8. SumFunctionOnSet(f, Live(rs)) \in Int
  BY <1>1, <1>2, SumIsInt
<1> QED
  BY <1>3, <1>5, <1>6, <1>7, <1>8

-----------------------------------------------------------------------------
(***************************************************************************)
(* The balance of a source: what is open of it and what has been resolved. *)
(***************************************************************************)
Owed(s)    == Outstanding(obligations, IdsOf(s))
Balance(s) == Owed(s) + Resolved(s)

SameDebtors == \A i \in Ids : obligations'[i].debtor = obligations[i].debtor

\* The obligations of a source are finitely many, and one of them may be open.
LEMMA SourceType ==
    ASSUME Inv, NEW s
    PROVE  /\ IsFiniteSet(IdsOf(s))
           /\ \A i \in IdsOf(s) : /\ i \in Ids
                                  /\ obligations[i].source = s
                                  /\ obligations[i].remaining \in Nat
                                  /\ obligations[i].debtor \in Parties
           /\ \A i, j \in IdsOf(s) :
                  IsOpen(obligations[i]) /\ IsOpen(obligations[j]) => i = j
           /\ Owed(s) \in Int
<1>1. IsFiniteSet(Ids)
  <2>1. Ids = 1 .. Len(obligations) /\ Len(obligations) \in Nat
    BY ObligationsType DEF Inv
  <2>2. IsFiniteSet(1 .. Len(obligations))
    BY <2>1, FS_Interval
  <2> QED
    BY <2>1, <2>2
<1>2. IdsOf(s) \subseteq Ids
  BY DEF IdsOf
<1>3. IsFiniteSet(IdsOf(s))
  BY <1>1, <1>2, FS_Subset
<1>4. \A i \in Ids : obligations[i].remaining \in Nat /\ obligations[i].debtor \in Parties
  BY ObligationsType, MoneyAssumption DEF Inv, ObligationType
<1>5. \A i, j \in IdsOf(s) :
          IsOpen(obligations[i]) /\ IsOpen(obligations[j]) => i = j
  BY DEF Inv, OneOpenObligation, OpenIds, IdsOf
<1>6. Outstanding(obligations, IdsOf(s)) \in Int
  BY <1>2, <1>3, <1>4, <1>5, OutstandingOfOpen
<1> QED
  BY <1>2, <1>3, <1>4, <1>5, <1>6 DEF IdsOf, Owed

\* So they are once a command has written them.
LEMMA NextSourceType ==
    ASSUME Writes, NEW s
    PROVE  /\ IdsOf(s)' = {i \in DOMAIN obligations' : obligations'[i].source = s}
           /\ IsFiniteSet(IdsOf(s)')
           /\ \A i \in IdsOf(s)' : /\ obligations'[i].remaining \in Nat
                                   /\ obligations'[i].debtor \in Parties
           /\ \A i, j \in IdsOf(s)' :
                  IsOpen(obligations'[i]) /\ IsOpen(obligations'[j]) => i = j
           /\ Owed(s)' = Outstanding(obligations', IdsOf(s)')
           /\ Owed(s)' \in Int
<1> DEFINE S == IdsOf(s)'
<1>1. S = {i \in DOMAIN obligations' : obligations'[i].source = s}
  BY DEF IdsOf, Ids
<1>2. obligations' \in Seq(ObligationType)
  BY DEF Writes
<1>3. IsFiniteSet(DOMAIN obligations')
  BY <1>2, FS_Interval
<1>4. IsFiniteSet(S)
  BY <1>1, <1>3, FS_Subset
<1>5. \A i \in S : /\ obligations'[i].remaining \in Nat
                   /\ obligations'[i].debtor \in Parties
  <2>1. \A i \in DOMAIN obligations' : obligations'[i] \in ObligationType
    BY <1>2
  <2>2. \A o \in ObligationType : o.remaining \in Nat /\ o.debtor \in Parties
    BY MoneyAssumption DEF ObligationType
  <2> QED
    BY <1>1, <2>1, <2>2
<1>6. \A i, j \in S :
          IsOpen(obligations'[i]) /\ IsOpen(obligations'[j]) => i = j
  BY <1>1 DEF Writes
<1>7. Owed(s)' = Outstanding(obligations', S)
  BY DEF Owed
<1> HIDE DEF S
<1>8. Outstanding(obligations', S) \in Int
  BY <1>4, <1>5, <1>6, OutstandingOfOpen
<1> QED
  BY <1>1, <1>4, <1>5, <1>6, <1>7, <1>8 DEF S

\* The resolutions are finitely many, of amounts of obligations there are.
LEMMA ResolvedType ==
    ASSUME Inv, NEW s
    PROVE  /\ IsFiniteSet(DOMAIN resolutions)
           /\ \A k \in DOMAIN resolutions :
                  /\ DOMAIN resolutions[k].parts \subseteq Ids
                  /\ Amounted(resolutions[k].parts, IdsOf(s))
           /\ Resolved(s) = ResolvedOf(obligations, IdsOf(s), resolutions)
           /\ Resolved(s) \in Int
<1>1. IsFiniteSet(DOMAIN resolutions)
  <2>1. resolutions \in Seq(ResolutionType(Ids))
    BY DEF Inv, TypeOK
  <2> QED
    BY <2>1, FS_Interval
<1>2. \A k \in DOMAIN resolutions :
          /\ DOMAIN resolutions[k].parts \subseteq Ids
          /\ Amounted(resolutions[k].parts, IdsOf(s))
  <2>1. Amounts \subseteq Nat
    BY MoneyAssumption DEF Amounts
  <2> QED
    BY <2>1, ResolutionParts DEF Amounted
<1>3. Resolved(s) = ResolvedOf(obligations, IdsOf(s), resolutions)
  BY Zenon DEF Resolved, ResolvedOf, PartOf, Live
<1>4. ResolvedOf(obligations, IdsOf(s), resolutions) \in Int
  <2> DEFINE f == [k \in Live(resolutions) |->
                      PartOf(obligations, IdsOf(s), resolutions[k].parts)]
  <2>1. Live(resolutions) \subseteq DOMAIN resolutions
    BY DEF Live
  <2>2. IsFiniteSet(Live(resolutions))
    BY <1>1, <2>1, FS_Subset
  <2>3. \A k \in Live(resolutions) : f[k] \in Int
    BY <1>2, <2>1, PartIsInt, SourceType
  <2>4. ResolvedOf(obligations, IdsOf(s), resolutions)
            = SumFunctionOnSet(f, Live(resolutions))
    BY Zenon DEF ResolvedOf, SumFunction
  <2> HIDE DEF f
  <2> QED
    BY <2>2, <2>3, <2>4, SumIsInt
<1> QED
  BY <1>1, <1>2, <1>3, <1>4

LEMMA NextResolved ==
    ASSUME NEW s
    PROVE  Resolved(s)' = ResolvedOf(obligations', IdsOf(s)', resolutions')
BY Zenon DEF Resolved, ResolvedOf, PartOf, Live

\* What is written of the obligations changes nothing of what has been resolved.
LEMMA PartsSame ==
    ASSUME Inv, Writes, SameDebtors, NEW s
    PROVE  /\ ResolvedOf(obligations', IdsOf(s)', resolutions) = Resolved(s)
           /\ \A k \in DOMAIN resolutions :
                  PartOf(obligations', IdsOf(s)', resolutions[k].parts)
                      = PartOf(obligations, IdsOf(s), resolutions[k].parts)
<1>1. \A i \in Ids : i \in IdsOf(s)' <=> i \in IdsOf(s)
  BY NextSourceType DEF Writes, IdsOf
<1>2. \A k \in DOMAIN resolutions :
          /\ DOMAIN resolutions[k].parts \cap IdsOf(s)
                 = DOMAIN resolutions[k].parts \cap IdsOf(s)'
          /\ \A i \in DOMAIN resolutions[k].parts :
                 obligations'[i].debtor = obligations[i].debtor
  BY <1>1, ResolvedType DEF SameDebtors
<1>3. Resolved(s) = ResolvedOf(obligations, IdsOf(s), resolutions)
  BY ResolvedType
<1> QED
  BY <1>2, <1>3, ResolvedSame

\* Sources that are made to say what is due owe that; the others, what they did.
LEMMA OwedAsDue ==
    ASSUME Inv, Writes, NEW sources, NEW due, MadeToSay(sources, due),
           \A s \in sources : due[s] \in Int
    PROVE  /\ \A s \in sources : Owed(s)' = due[s]
           /\ \A s : s \notin sources => /\ Owed(s)' = Owed(s)
                                         /\ IdsOf(s)' = IdsOf(s)
           /\ SameDebtors
<1>1. ASSUME NEW s \in sources
      PROVE  Owed(s)' = due[s]
  <2>1. TakesUp(s, due[s]) /\ due[s] \in Int
    BY DEF MadeToSay
  <2>2. CASE due[s] = 0 /\ \A i \in DOMAIN obligations' :
                 obligations'[i].source = s => ~ IsOpen(obligations'[i])
    <3>1. \A i \in IdsOf(s)' : ~ IsOpen(obligations'[i])
      BY <2>2, NextSourceType
    <3>2. Outstanding(obligations', IdsOf(s)') = 0
      BY <3>1, NextSourceType, OutstandingOfOpen
    <3> QED
      BY <2>2, <3>2, NextSourceType
  <2>3. CASE /\ due[s] # 0
             /\ \E i \in DOMAIN obligations' :
                    /\ obligations'[i].source = s
                    /\ obligations'[i].remaining = Abs(due[s])
                    /\ obligations'[i].debtor = Debtor(due[s])
    <3>1. PICK i \in DOMAIN obligations' :
              /\ obligations'[i].source = s
              /\ obligations'[i].remaining = Abs(due[s])
              /\ obligations'[i].debtor = Debtor(due[s])
      BY <2>3
    <3>2. i \in IdsOf(s)' /\ IsOpen(obligations'[i])
      BY <2>1, <2>3, <3>1, NextSourceType DEF IsOpen, Abs
    <3>3. Outstanding(obligations', IdsOf(s)')
              = Signed(obligations'[i], obligations'[i].remaining)
      BY <3>2, NextSourceType, OutstandingOfOpen
    <3>4. Signed(obligations'[i], obligations'[i].remaining) = due[s]
      BY <2>1, <2>3, <3>1, MembersAssumption DEF Signed, Abs, Debtor
    <3> QED
      BY <3>3, <3>4, NextSourceType
  <2> QED
    BY <2>1, <2>2, <2>3 DEF TakesUp
<1>2. ASSUME NEW s, s \notin sources
      PROVE  Owed(s)' = Owed(s) /\ IdsOf(s)' = IdsOf(s)
  <2>1. /\ \A i \in Ids : obligations[i].source = s => obligations'[i] = obligations[i]
        /\ \A i \in DOMAIN obligations' \ Ids : obligations'[i].source # s
    BY <1>2 DEF MadeToSay
  <2>2. /\ Ids \subseteq DOMAIN obligations'
        /\ \A i \in Ids : obligations'[i].source = obligations[i].source
    BY DEF Writes
  <2>3. IdsOf(s)' = IdsOf(s)
    <3>1. {i \in DOMAIN obligations' : obligations'[i].source = s}
              = {i \in Ids : obligations[i].source = s}
      BY <2>1, <2>2
    <3> QED
      BY <3>1, NextSourceType DEF IdsOf
  <2>4. \A i \in IdsOf(s) : obligations'[i] = obligations[i]
    BY <2>1 DEF IdsOf
  <2> DEFINE f == [i \in IdsOf(s) |-> Signed(obligations[i], obligations[i].remaining)]
             g == [i \in IdsOf(s) |-> Signed(obligations'[i], obligations'[i].remaining)]
  <2>5. f = g
    BY <2>4
  <2>6. Owed(s) = SumFunction(f)
    BY Zenon DEF Owed, Outstanding
  <2>7. Outstanding(obligations', IdsOf(s)) = SumFunction(g)
    BY Zenon DEF Outstanding
  <2> QED
    BY <2>3, <2>5, <2>6, <2>7, NextSourceType
<1>3. SameDebtors
  BY DEF MadeToSay, SameDebtors
<1> QED
  BY <1>1, <1>2, <1>3

-----------------------------------------------------------------------------
(***************************************************************************)
(* What is resolved leaves what is open of it, and what is reversed opens  *)
(* again: neither moves a balance.                                         *)
(***************************************************************************)
\* The amounts that are resolved of the obligations.
Taken(S, amounts) == [i \in Ids |-> IF i \in S THEN amounts[i] ELSE 0]

Takes(S, amounts) ==
    /\ DOMAIN obligations' = Ids
    /\ \A i \in Ids :
           /\ obligations'[i].debtor = obligations[i].debtor
           /\ obligations'[i].remaining = obligations[i].remaining - Taken(S, amounts)[i]
    /\ \E r : /\ resolutions' = Append(resolutions, r)
              /\ ~ r.reversed
              /\ DOMAIN r.parts = S
              /\ \A i \in S : r.parts[i].amount = amounts[i]

LEMMA TakingKeepsBalances ==
    ASSUME Inv, Writes, NEW S \in SUBSET Ids, NEW amounts \in [S -> Amounts],
           Takes(S, amounts), NEW s
    PROVE  Balance(s)' = Balance(s) /\ IdsOf(s)' = IdsOf(s) /\ SameDebtors
<1> DEFINE T == IdsOf(s)
           a == Taken(S, amounts)
           f == [i \in T |-> Signed(obligations[i], obligations[i].remaining)]
           g == [i \in T |-> Signed(obligations'[i], obligations'[i].remaining)]
           h == [i \in T |-> Signed(obligations[i], a[i])]
<1>1. IdsOf(s)' = T
  <2>1. {i \in DOMAIN obligations' : obligations'[i].source = s}
            = {i \in Ids : obligations[i].source = s}
    BY DEF Takes, Writes
  <2> QED
    BY <2>1, NextSourceType DEF IdsOf
<1>2. PICK r : /\ resolutions' = Append(resolutions, r)
               /\ ~ r.reversed
               /\ DOMAIN r.parts = S
               /\ \A i \in S : r.parts[i].amount = amounts[i]
  BY DEF Takes
<1>3. Amounts \subseteq Nat
  BY MoneyAssumption DEF Amounts
<1>4. Amounted(r.parts, T)
  BY <1>2, <1>3 DEF Amounted
<1>5. \A i \in T : /\ i \in Ids
                   /\ a[i] = IF i \in DOMAIN r.parts THEN r.parts[i].amount ELSE 0
                   /\ a[i] \in Int
  <2> SUFFICES ASSUME NEW i \in T
               PROVE  /\ i \in Ids
                      /\ a[i] = IF i \in DOMAIN r.parts THEN r.parts[i].amount ELSE 0
                      /\ a[i] \in Int
    OBVIOUS
  <2>1. i \in Ids
    BY SourceType
  <2>2. a[i] = IF i \in S THEN amounts[i] ELSE 0
    BY <2>1 DEF Taken
  <2>3. i \in S => amounts[i] \in Nat
    BY <1>3
  <2> HIDE DEF a
  <2> QED
    BY <1>2, <2>1, <2>2, <2>3
<1>6. IsFiniteSet(T)
  BY SourceType
<1>7. /\ SumFunctionOnSet(h, T) = PartOf(obligations, T, r.parts)
      /\ \A i \in T : h[i] \in Int
  <2> HIDE DEF T, a
  <2> QED
    BY <1>4, <1>5, <1>6, PartAsSum
<1>8. \A i \in T : f[i] \in Int /\ g[i] \in Int /\ f[i] = g[i] + h[i]
  <2> SUFFICES ASSUME NEW i \in T
               PROVE  f[i] \in Int /\ g[i] \in Int /\ f[i] = g[i] + h[i]
    OBVIOUS
  <2>1. /\ f[i] = Signed(obligations[i], obligations[i].remaining)
        /\ g[i] = Signed(obligations'[i], obligations'[i].remaining)
        /\ h[i] = Signed(obligations[i], a[i])
    OBVIOUS
  <2>2. /\ obligations'[i].debtor = obligations[i].debtor
        /\ obligations'[i].remaining = obligations[i].remaining - a[i]
    BY <1>5 DEF Takes
  <2>3. obligations[i].remaining \in Int /\ a[i] \in Int
    BY <1>5, SourceType
  <2> HIDE DEF f, g, h, a, T
  <2> QED
    BY <2>1, <2>2, <2>3 DEF Signed
<1>9. /\ Owed(s) = SumFunctionOnSet(f, T)
      /\ Outstanding(obligations', T) = SumFunctionOnSet(g, T)
  BY Zenon DEF Owed, Outstanding, SumFunction
<1>10. Owed(s)' = Outstanding(obligations', T)
  BY <1>1, NextSourceType
<1> HIDE DEF f, g, h, a
<1>11. SumFunctionOnSet(f, T) = SumFunctionOnSet(g, T) + SumFunctionOnSet(h, T)
  BY <1>6, <1>7, <1>8, SumOfSums
<1>12. SameDebtors
  BY DEF Takes, SameDebtors
<1> DEFINE n == Len(resolutions) + 1
<1>13. /\ DOMAIN resolutions' = DOMAIN resolutions \cup {n}
       /\ n \notin DOMAIN resolutions
       /\ resolutions'[n] = r
       /\ \A k \in DOMAIN resolutions : resolutions'[k] = resolutions[k]
       /\ IsFiniteSet(DOMAIN resolutions')
  <2>1. resolutions \in Seq(ResolutionType(Ids))
    BY DEF Inv, TypeOK
  <2>2. /\ DOMAIN resolutions' = DOMAIN resolutions \cup {n}
        /\ n \notin DOMAIN resolutions
        /\ resolutions'[n] = r
        /\ \A k \in DOMAIN resolutions : resolutions'[k] = resolutions[k]
    BY <1>2, <2>1
  <2>3. IsFiniteSet(DOMAIN resolutions \cup {n})
    BY ResolvedType, FS_AddElement
  <2> QED
    BY <2>2, <2>3
<1> HIDE DEF n
<1>14. ResolvedOf(obligations', T, resolutions')
           = PartOf(obligations', T, r.parts) + ResolvedOf(obligations', T, resolutions)
  <2>1. /\ n \in Live(resolutions')
        /\ Live(resolutions) = Live(resolutions') \ {n}
    BY <1>2, <1>13 DEF Live
  <2>2. /\ \A j \in Live(resolutions) : resolutions'[j].parts = resolutions[j].parts
        /\ \A j \in Live(resolutions') : Amounted(resolutions'[j].parts, T)
    BY <1>4, <1>13, ResolvedType DEF Live
  <2> HIDE DEF T
  <2> QED
    BY <1>6, <1>13, <2>1, <2>2, ResolvedOfOthers
<1>15. PartOf(obligations', T, r.parts) = PartOf(obligations, T, r.parts)
  <2>1. \A i \in DOMAIN r.parts : obligations'[i].debtor = obligations[i].debtor
    BY <1>2, <1>12 DEF SameDebtors
  <2> HIDE DEF T
  <2> QED
    BY <2>1, PartSame
<1>16. ResolvedOf(obligations', T, resolutions) = Resolved(s)
  BY <1>1, <1>12, PartsSame
<1>17. Resolved(s)' = PartOf(obligations, T, r.parts) + Resolved(s)
  BY <1>1, <1>14, <1>15, <1>16, NextResolved
<1>18. /\ SumFunctionOnSet(g, T) \in Int
       /\ PartOf(obligations, T, r.parts) \in Int
       /\ Resolved(s) \in Int
  BY <1>4, <1>6, <1>8, SumIsInt, PartIsInt, ResolvedType
<1>19. Balance(s)' = Owed(s)' + Resolved(s)'
  BY DEF Balance
<1> HIDE DEF T
<1>20. Balance(s)' = Balance(s)
  BY <1>7, <1>9, <1>10, <1>11, <1>17, <1>18, <1>19 DEF Balance
<1> QED
  BY <1>1, <1>12, <1>20 DEF T

\* What a reversal makes due for a source is what is open of it and what it reverses.
LEMMA NetIs ==
    ASSUME Inv, NEW k \in DOMAIN resolutions, NEW s
    PROVE  /\ Net(k, s) = Owed(s) + PartOf(obligations, IdsOf(s), resolutions[k].parts)
           /\ PartOf(obligations, IdsOf(s), resolutions[k].parts) \in Int
           /\ Net(k, s) \in Int
<1> DEFINE T     == IdsOf(s)
           a     == ReversedAmounts(k)
           parts == resolutions[k].parts
           h     == [i \in T |-> Signed(obligations[i], a[i])]
<1>1. IsFiniteSet(T) /\ Amounted(parts, T)
  BY SourceType, ResolvedType
<1>2. \A i \in T : a[i] = IF i \in DOMAIN parts THEN parts[i].amount ELSE 0
  BY SourceType DEF ReversedAmounts
<1>3. SumFunctionOnSet(h, T) = PartOf(obligations, T, parts)
  <2> HIDE DEF T, a, parts
  <2> QED
    BY <1>1, <1>2, PartAsSum
<1>4. Net(k, s) = Owed(s) + SumFunctionOnSet(h, T)
  BY Zenon DEF Net, NetAfterReversal, Owed, SumFunction
<1>5. Owed(s) \in Int /\ PartOf(obligations, T, parts) \in Int
  BY <1>1, SourceType, PartIsInt
<1> QED
  BY <1>3, <1>4, <1>5

\* Reversing a settlement takes it back from what has been resolved.
LEMMA ReversingKeepsBalances ==
    ASSUME Inv, Writes, NEW k \in DOMAIN resolutions, ~ resolutions[k].reversed,
           resolutions' = [resolutions EXCEPT ![k].reversed = TRUE],
           MadeToSay(SourcesOf(k), [s \in SourcesOf(k) |-> Net(k, s)]), NEW s
    PROVE  Balance(s)' = Balance(s)
<1> DEFINE T     == IdsOf(s)
           parts == resolutions[k].parts
           part  == PartOf(obligations, T, parts)
           due   == [t \in SourcesOf(k) |-> Net(k, t)]
<1>1. /\ \A t \in SourcesOf(k) : Owed(t)' = due[t]
      /\ \A t : t \notin SourcesOf(k) => Owed(t)' = Owed(t)
      /\ SameDebtors
  <2>1. \A t \in SourcesOf(k) : due[t] \in Int
    BY NetIs
  <2>2. MadeToSay(SourcesOf(k), due)
    OBVIOUS
  <2> HIDE DEF due
  <2> QED
    BY <2>1, <2>2, OwedAsDue
<1>2. Owed(s)' = Owed(s) + part
  <2>1. CASE s \in SourcesOf(k)
    BY <1>1, <2>1, NetIs
  <2>2. CASE s \notin SourcesOf(k)
    <3>1. DOMAIN parts \cap T = {}
      BY <2>2, ResolvedType DEF SourcesOf, IdsOf
    <3>2. part = SumFunctionOnSet([i \in DOMAIN parts \cap T |->
                     Signed(obligations[i], parts[i].amount)], DOMAIN parts \cap T)
      BY Zenon DEF PartOf, SumFunction
    <3>3. part = 0
      BY <3>1, <3>2, SumOfNone
    <3> QED
      BY <1>1, <2>2, <3>3, SourceType
  <2> QED
    BY <2>1, <2>2
<1>3. /\ DOMAIN resolutions' = DOMAIN resolutions
      /\ resolutions'[k].reversed
      /\ \A j \in DOMAIN resolutions : resolutions'[j].parts = resolutions[j].parts
      /\ \A j \in DOMAIN resolutions \ {k} : resolutions'[j] = resolutions[j]
  <2>1. resolutions[k] \in ResolutionType(Ids)
    BY DEF Inv, TypeOK
  <2>2. resolutions[k] = [kind     |-> resolutions[k].kind,
                          parts    |-> resolutions[k].parts,
                          reversed |-> resolutions[k].reversed]
    BY <2>1 DEF ResolutionType
  <2>3. PICK q : q = [resolutions[k] EXCEPT !.reversed = TRUE]
    OBVIOUS
  <2>4. q.reversed = TRUE /\ q.parts = resolutions[k].parts
    BY <2>2, <2>3
  <2>5. resolutions' = [resolutions EXCEPT ![k] = q]
    BY <2>3
  <2> QED
    BY <2>4, <2>5
<1>4. ResolvedOf(obligations', T', resolutions)
          = PartOf(obligations', T', parts) + ResolvedOf(obligations', T', resolutions')
      /\ ResolvedOf(obligations', T', resolutions') \in Int
  <2>1. Live(resolutions') = Live(resolutions) \ {k} /\ k \in Live(resolutions)
    BY <1>3 DEF Live
  <2>2. /\ \A j \in Live(resolutions') : resolutions'[j].parts = resolutions[j].parts
        /\ \A j \in Live(resolutions) : Amounted(resolutions[j].parts, T')
    <3>1. Amounts \subseteq Nat
      BY MoneyAssumption DEF Amounts
    <3> QED
      BY <1>3, <3>1, ResolutionParts DEF Live, Amounted
  <2>3. IsFiniteSet(DOMAIN resolutions) /\ IsFiniteSet(T')
    BY ResolvedType, NextSourceType
  <2>4. PICK U : U = T'
    OBVIOUS
  <2>5. PICK os : os = obligations'
    OBVIOUS
  <2>6. PICK rs : rs = resolutions'
    OBVIOUS
  <2>7. /\ Live(rs) = Live(resolutions) \ {k}
        /\ \A j \in Live(rs) : resolutions[j].parts = rs[j].parts
        /\ \A j \in Live(resolutions) : Amounted(resolutions[j].parts, U)
        /\ IsFiniteSet(U)
    BY <2>1, <2>2, <2>3, <2>4, <2>6
  <2>8. /\ ResolvedOf(os, U, resolutions)
               = PartOf(os, U, resolutions[k].parts) + ResolvedOf(os, U, rs)
        /\ ResolvedOf(os, U, rs) \in Int
    BY <2>1, <2>3, <2>7, ResolvedOfOthers
  <2> QED
    BY <2>4, <2>5, <2>6, <2>8
<1>5. /\ PartOf(obligations', T', parts) = part
      /\ ResolvedOf(obligations', T', resolutions) = Resolved(s)
  BY <1>1, PartsSame
<1>6. Resolved(s)' = ResolvedOf(obligations', T', resolutions')
  BY NextResolved
<1>7. part \in Int /\ Owed(s) \in Int /\ Resolved(s)' \in Int
  BY <1>4, <1>6, NetIs, SourceType
<1>8. Resolved(s) = part + Resolved(s)'
  BY <1>4, <1>5, <1>6
<1> HIDE DEF part
<1> QED
  BY <1>2, <1>7, <1>8 DEF Balance

-----------------------------------------------------------------------------
(***************************************************************************)
(* Directions: where one member alone is the debtor of a source, whatever  *)
(* is summed of it has that member's sign.                                 *)
(***************************************************************************)
Side(m) == IF m = Second THEN {n \in Int : n >= 0} ELSE {n \in Int : n <= 0}

AllOwedBy(m, s) == \A i \in IdsOf(s) : obligations[i].debtor = m

\* A sign is kept by a sum.
LEMMA SideClosed ==
    ASSUME NEW m
    PROVE  /\ Side(m) \in SUBSET Int
           /\ 0 \in Side(m)
           /\ \A a, b \in Side(m) : a + b \in Side(m)
BY DEF Side

LEMMA PartSide ==
    ASSUME NEW os, NEW T, IsFiniteSet(T), NEW m,
           \A i \in T : os[i].debtor = m,
           NEW parts, Amounted(parts, T)
    PROVE  PartOf(os, T, parts) \in Side(m)
<1> DEFINE R == DOMAIN parts \cap T
           f == [i \in R |-> Signed(os[i], parts[i].amount)]
<1>1. IsFiniteSet(R)
  BY FS_Subset
<1>2. \A i \in R : f[i] \in Side(m)
  BY DEF Signed, Side, Amounted
<1>3. PartOf(os, T, parts) = SumFunctionOnSet(f, R)
  BY Zenon DEF PartOf, SumFunction
<1> HIDE DEF f, R
<1> QED
  BY <1>1, <1>2, <1>3, SideClosed, SumIsIn

\* What is open of a source, what is resolved of it, and what one of its
\* resolutions comes to.
LEMMA SidesOf ==
    ASSUME Inv, NEW s, NEW m, AllOwedBy(m, s)
    PROVE  /\ Owed(s) \in Side(m)
           /\ Resolved(s) \in Side(m)
           /\ \A k \in DOMAIN resolutions :
                  PartOf(obligations, IdsOf(s), resolutions[k].parts) \in Side(m)
<1> DEFINE T == IdsOf(s)
           f == [i \in T |-> Signed(obligations[i], obligations[i].remaining)]
           g == [k \in Live(resolutions) |-> PartOf(obligations, T, resolutions[k].parts)]
<1>1. \A i \in T : f[i] \in Side(m)
  BY SourceType DEF AllOwedBy, Signed, Side
<1>2. Owed(s) = SumFunctionOnSet(f, T) /\ IsFiniteSet(T)
  BY SourceType, Zenon DEF Owed, Outstanding, SumFunction
<1>3. \A k \in DOMAIN resolutions :
          PartOf(obligations, T, resolutions[k].parts) \in Side(m)
  BY SourceType, ResolvedType, PartSide DEF AllOwedBy
<1>4. \A k \in Live(resolutions) : g[k] \in Side(m)
  BY <1>3 DEF Live
<1>5. IsFiniteSet(Live(resolutions))
  BY ResolvedType, FS_Subset DEF Live
<1>6. Resolved(s) = SumFunctionOnSet(g, Live(resolutions))
  <2>1. Resolved(s) = ResolvedOf(obligations, T, resolutions)
    BY ResolvedType
  <2>2. ResolvedOf(obligations, T, resolutions) = SumFunctionOnSet(g, Live(resolutions))
    BY Zenon DEF ResolvedOf, SumFunction
  <2> QED
    BY <2>1, <2>2
<1> HIDE DEF f, g
<1>7. SumFunctionOnSet(f, T) \in Side(m)
  <2> HIDE DEF T
  <2> QED
    BY <1>1, <1>2, SideClosed, SumIsIn
<1>8. SumFunctionOnSet(g, Live(resolutions)) \in Side(m)
  BY <1>4, <1>5, SideClosed, SumIsIn
<1> QED
  BY <1>2, <1>3, <1>6, <1>7, <1>8

\* Of a source without obligations nothing is open or resolved.
LEMMA NothingOfNone ==
    ASSUME Inv, NEW s, IdsOf(s) = {}
    PROVE  Owed(s) = 0 /\ Resolved(s) = 0
<1>1. AllOwedBy(First, s) /\ AllOwedBy(Second, s)
  BY DEF AllOwedBy
<1>2. /\ Owed(s) \in Side(First) /\ Owed(s) \in Side(Second)
      /\ Resolved(s) \in Side(First) /\ Resolved(s) \in Side(Second)
  BY <1>1, SidesOf
<1> QED
  BY <1>2, MembersAssumption DEF Side

-----------------------------------------------------------------------------
(***************************************************************************)
(* The facts of an expense.                                                *)
(***************************************************************************)
FactsOK(fs) ==
    /\ fs \in Seq(FactType)
    /\ \A f \in DOMAIN fs : Valid(fs[f]) >= 0

PaidOf(fs, m) == [f \in DOMAIN fs |-> IF fs[f].payer = m THEN Valid(fs[f]) ELSE 0]

LEMMA FactsType ==
    ASSUME NEW fs, FactsOK(fs), NEW m
    PROVE  /\ IsFiniteSet(DOMAIN fs)
           /\ \A f \in DOMAIN fs : /\ fs[f] \in FactType
                                   /\ Valid(fs[f]) \in Nat
                                   /\ PaidOf(fs, m)[f] \in Nat
           /\ PaidBy(fs, m) = SumFunctionOnSet(PaidOf(fs, m), DOMAIN fs)
           /\ PaidBy(fs, m) \in Nat
<1>1. IsFiniteSet(DOMAIN fs)
  BY FS_Interval DEF FactsOK
<1>2. \A f \in DOMAIN fs : fs[f] \in FactType
  BY DEF FactsOK
<1>3. \A fact \in FactType : Valid(fact) \in Int
  BY MoneyAssumption DEF FactType, Amounts, Valid
<1>4. \A f \in DOMAIN fs : Valid(fs[f]) \in Nat
  BY <1>2, <1>3 DEF FactsOK
<1>5. \A f \in DOMAIN fs : PaidOf(fs, m)[f] \in Nat
  BY <1>4 DEF PaidOf
<1>6. PaidBy(fs, m) = SumFunctionOnSet(PaidOf(fs, m), DOMAIN fs)
  <2>1. DOMAIN PaidOf(fs, m) = DOMAIN fs
    BY DEF PaidOf
  <2>2. PaidBy(fs, m) = SumFunction(PaidOf(fs, m))
    BY Zenon DEF PaidBy, PaidOf
  <2>3. SumFunction(PaidOf(fs, m)) = SumFunctionOnSet(PaidOf(fs, m), DOMAIN PaidOf(fs, m))
    BY Zenon DEF SumFunction
  <2> QED
    BY <2>1, <2>2, <2>3
<1>7. Nat \in SUBSET Int /\ 0 \in Nat /\ \A a, b \in Nat : a + b \in Nat
  OBVIOUS
<1>8. SumFunctionOnSet(PaidOf(fs, m), DOMAIN fs) \in Nat
  BY <1>1, <1>5, <1>7, SumIsIn
<1> QED
  BY <1>1, <1>2, <1>4, <1>5, <1>6, <1>8

\* A fact adds what it is worth to what its payer has paid.
LEMMA PaidMore ==
    ASSUME NEW fs, FactsOK(fs), NEW fact \in FactType, Valid(fact) >= 0, NEW m
    PROVE  /\ FactsOK(Append(fs, fact))
           /\ PaidBy(Append(fs, fact), m)
                  = PaidBy(fs, m) + (IF fact.payer = m THEN Valid(fact) ELSE 0)
<1> DEFINE n == Len(fs) + 1
<1>1. PICK gs : gs = Append(fs, fact)
  OBVIOUS
<1>2. /\ gs \in Seq(FactType)
      /\ DOMAIN gs = DOMAIN fs \cup {n}
      /\ n \notin DOMAIN fs
      /\ gs[n] = fact
      /\ \A f \in DOMAIN fs : gs[f] = fs[f]
  BY <1>1 DEF FactsOK
<1> HIDE DEF n
<1>3. FactsOK(gs)
  BY <1>2 DEF FactsOK
<1>4. /\ n \in DOMAIN gs
      /\ DOMAIN gs \ {n} = DOMAIN fs
      /\ \A f \in DOMAIN gs : PaidOf(gs, m)[f] \in Int
      /\ IsFiniteSet(DOMAIN gs) /\ IsFiniteSet(DOMAIN fs)
      /\ PaidBy(gs, m) = SumFunctionOnSet(PaidOf(gs, m), DOMAIN gs)
      /\ PaidBy(fs, m) = SumFunctionOnSet(PaidOf(fs, m), DOMAIN fs)
      /\ PaidBy(fs, m) \in Nat
  <2>1. n \in DOMAIN gs /\ DOMAIN gs \ {n} = DOMAIN fs
    BY <1>2
  <2>2. /\ IsFiniteSet(DOMAIN gs)
        /\ \A f \in DOMAIN gs : PaidOf(gs, m)[f] \in Nat
        /\ PaidBy(gs, m) = SumFunctionOnSet(PaidOf(gs, m), DOMAIN gs)
    BY <1>3, FactsType
  <2>3. /\ IsFiniteSet(DOMAIN fs)
        /\ PaidBy(fs, m) = SumFunctionOnSet(PaidOf(fs, m), DOMAIN fs)
        /\ PaidBy(fs, m) \in Nat
    BY FactsType
  <2> QED
    BY <2>1, <2>2, <2>3
<1>5. SumFunctionOnSet(PaidOf(gs, m), DOMAIN gs)
          = PaidOf(gs, m)[n] + SumFunctionOnSet(PaidOf(gs, m), DOMAIN fs)
  <2>1. SumFunctionOnSet(PaidOf(gs, m), DOMAIN gs)
            = PaidOf(gs, m)[n] + SumFunctionOnSet(PaidOf(gs, m), DOMAIN gs \ {n})
    BY <1>4, SumOfOthers
  <2> QED
    BY <1>4, <2>1
<1>6. \A f \in DOMAIN fs : PaidOf(gs, m)[f] = PaidOf(fs, m)[f]
  BY <1>2 DEF PaidOf
<1>7. SumFunctionOnSet(PaidOf(gs, m), DOMAIN fs) = PaidBy(fs, m)
  BY <1>4, <1>6, SumOfSame
<1>8. PaidOf(gs, m)[n] = IF fact.payer = m THEN Valid(fact) ELSE 0
  BY <1>2, <1>4 DEF PaidOf
<1>9. PaidOf(gs, m)[n] \in Int
  BY <1>4
<1> QED
  BY <1>1, <1>3, <1>4, <1>5, <1>7, <1>8, <1>9

\* Reversing a part of a fact takes it from what its payer has paid.
LEMMA PaidLess ==
    ASSUME NEW fs, FactsOK(fs), NEW f \in DOMAIN fs, NEW n \in Amounts,
           n <= Valid(fs[f]), NEW gs, gs = [fs EXCEPT ![f].reversed = @ + n], NEW m
    PROVE  /\ FactsOK(gs)
           /\ PaidBy(gs, m) <= PaidBy(fs, m)
           /\ HasReversals(gs)
<1> DEFINE old == fs[f]
           new == [old EXCEPT !.reversed = @ + n]
<1>1. old \in FactType /\ Valid(old) \in Nat
  BY FactsType
<1>2. /\ new \in FactType
      /\ Valid(new) = Valid(old) - n
      /\ Valid(new) \in Nat
      /\ new.payer = old.payer
      /\ new.reversed > 0
  <2>1. /\ old.reversed \in Nat /\ old.amount \in 0 .. MaxMoney
        /\ n \in Nat \ {0} /\ n <= old.amount - old.reversed
    BY <1>1, MoneyAssumption DEF FactType, Amounts, Valid
  <2>2. old.reversed + n \in 0 .. MaxMoney /\ old.reversed + n > 0
           /\ old.amount - (old.reversed + n) = (old.amount - old.reversed) - n
           /\ old.amount - (old.reversed + n) \in Nat
    BY <2>1, MoneyAssumption
  <2>3. new = [old EXCEPT !.reversed = old.reversed + n]
    BY <1>1 DEF FactType
  <2> HIDE DEF new, old
  <2> QED
    BY <1>1, <2>2, <2>3 DEF FactType, Valid
<1>3. gs = [fs EXCEPT ![f] = new]
  BY DEF FactsOK
<1> HIDE DEF new
<1>4. /\ gs \in Seq(FactType)
      /\ DOMAIN gs = DOMAIN fs
      /\ gs[f] = new
      /\ \A g \in DOMAIN fs \ {f} : gs[g] = fs[g]
  BY <1>2, <1>3 DEF FactsOK
<1>5. FactsOK(gs)
  BY <1>2, <1>4 DEF FactsOK
<1>6. HasReversals(gs)
  BY <1>2, <1>4 DEF HasReversals
<1>7. PaidBy(gs, m) <= PaidBy(fs, m)
  <2> DEFINE a == PaidOf(fs, m)
             b == PaidOf(gs, m)
             D == DOMAIN fs
  <2>1. /\ PaidBy(gs, m) = SumFunctionOnSet(b, D)
        /\ PaidBy(fs, m) = SumFunctionOnSet(a, D)
        /\ \A g \in D : a[g] \in Int /\ b[g] \in Int
        /\ IsFiniteSet(D)
    <3>1. /\ PaidBy(gs, m) = SumFunctionOnSet(b, DOMAIN gs)
          /\ \A g \in DOMAIN gs : b[g] \in Nat
      BY <1>5, FactsType
    <3>2. /\ PaidBy(fs, m) = SumFunctionOnSet(a, D)
          /\ \A g \in D : a[g] \in Nat
          /\ IsFiniteSet(D)
      BY FactsType
    <3>3. DOMAIN gs = D
      BY <1>4
    <3> HIDE DEF a, b, D
    <3> QED
      BY <3>1, <3>2, <3>3
  <2>2. /\ SumFunctionOnSet(a, D) = a[f] + SumFunctionOnSet(a, D \ {f})
        /\ SumFunctionOnSet(b, D) = b[f] + SumFunctionOnSet(b, D \ {f})
    <3> HIDE DEF a, b, D
    <3>1. f \in D
      BY DEF D
    <3> QED
      BY <2>1, <3>1, SumOfOthers
  <2>3. IsFiniteSet(D \ {f}) /\ \A g \in D \ {f} : a[g] = b[g]
    BY <1>4, <2>1, FS_Subset DEF PaidOf
  <2>4. SumFunctionOnSet(a, D \ {f}) = SumFunctionOnSet(b, D \ {f})
    BY <2>3, SumOfSame
  <2>5. SumFunctionOnSet(a, D \ {f}) \in Int
    BY <2>1, <2>3, SumIsInt
  <2>6. b[f] <= a[f] /\ a[f] \in Int /\ b[f] \in Int
    <3>1. a[f] = IF old.payer = m THEN Valid(old) ELSE 0
      BY DEF PaidOf
    <3>2. b[f] = IF new.payer = m THEN Valid(new) ELSE 0
      BY <1>4 DEF PaidOf
    <3>3. n \in Nat
      BY MoneyAssumption DEF Amounts
    <3>4. PICK v \in Nat : v = Valid(old)
      BY <1>1
    <3>5. PICK w \in Nat : w = Valid(new) /\ w = v - n
      BY <1>2, <3>4
    <3> HIDE DEF a, b, D, old
    <3> QED
      BY <1>2, <3>1, <3>2, <3>3, <3>4, <3>5
  <2> HIDE DEF a, b, D
  <2> QED
    BY <2>1, <2>2, <2>4, <2>5, <2>6
<1> QED
  BY <1>5, <1>6, <1>7

\* Nothing has been paid at first.
LEMMA PaidAtFirst ==
    ASSUME NEW m
    PROVE  PaidBy(<<>>, m) = 0
<1>1. FactsOK(<<>>)
  BY DEF FactsOK
<1>2. PaidBy(<<>>, m) = SumFunctionOnSet(PaidOf(<<>>, m), DOMAIN <<>>)
  BY <1>1, FactsType
<1>3. DOMAIN <<>> = {}
  OBVIOUS
<1> QED
  BY <1>2, <1>3, SumOfNone

-----------------------------------------------------------------------------
(***************************************************************************)
(* The two differences, as numbers: e1 and e2 are what each member has     *)
(* paid beyond their share.                                                *)
(***************************************************************************)
Excess(sh, fs, m) == PaidBy(fs, m) - sh[m]

Left(e1, e2, r) ==
    IF e1 - r > 0 THEN e1 - r ELSE IF e2 + r > 0 THEN -(e2 + r) ELSE 0

LEMMA DifferenceIs ==
    ASSUME NEW sh \in [Parties -> Nat], NEW fs, FactsOK(fs), NEW r \in Int
    PROVE  /\ ExpenseDifference(sh, Paid(fs), r)
                  = Left(Excess(sh, fs, First), Excess(sh, fs, Second), r)
           /\ Excess(sh, fs, First) \in Int /\ Excess(sh, fs, Second) \in Int
           /\ Fulfilled(fs) - Total(sh) = Excess(sh, fs, First) + Excess(sh, fs, Second)
           /\ Fulfilled(fs) \in Nat /\ Total(sh) \in Nat
           /\ Fulfilled(fs) = 0 => /\ Excess(sh, fs, First) <= 0
                                   /\ Excess(sh, fs, Second) <= 0
<1>1. /\ PaidBy(fs, First) \in Nat /\ PaidBy(fs, Second) \in Nat
      /\ sh[First] \in Nat /\ sh[Second] \in Nat
  BY FactsType DEF Parties
<1>2. Paid(fs)[First] = PaidBy(fs, First) /\ Paid(fs)[Second] = PaidBy(fs, Second)
  BY DEF Paid, Parties
<1>3. ExpenseDifference(sh, Paid(fs), r)
          = Left(Excess(sh, fs, First), Excess(sh, fs, Second), r)
  BY <1>1, <1>2, MembersAssumption DEF ExpenseDifference, Left, Excess
<1> QED
  BY <1>1, <1>3 DEF Excess, Fulfilled, Total

-----------------------------------------------------------------------------
(***************************************************************************)
(* The inductive invariant.  The balance of an expense is not always what  *)
(* its facts make of it: an adjustment before the first fact, or after     *)
(* every fact has been reversed, reconciles nothing.  What is known is     *)
(* said case by case: a fact has been reversed; the expense is fully paid; *)
(* nothing has been paid of it; or it has neither been adjusted nor had a  *)
(* fact reversed, and the member who has paid beyond their share is the    *)
(* creditor of all its obligations.                                        *)
(***************************************************************************)
\* The expense s, with the shares sh and the facts fs.
ExpenseSays(s, sh, fs) ==
    LET e1 == Excess(sh, fs, First)
        e2 == Excess(sh, fs, Second)
    IN  /\ Fulfilled(fs) <= Total(sh)
        /\ HasReversals(fs) => Balance(s) = Left(e1, e2, 0)
        /\ Fulfilled(fs) = Total(sh) => Balance(s) = e1
        /\ Fulfilled(fs) = 0 => Balance(s) = 0
        /\ sh = Shares[s] /\ ~ HasReversals(fs) =>
               /\ e1 > 0 => Balance(s) = e1 /\ AllOwedBy(Second, s)
               /\ e2 > 0 => Balance(s) = -e2 /\ AllOwedBy(First, s)
               /\ e1 <= 0 /\ e2 <= 0 => IdsOf(s) = {}

ExpensesOK   == \A s \in Origins : ExpenseSays(s, shares[s], facts[s])
AgreementsOK == \A s \in Agreements : Balance(s) = agreed[s]

BalanceInv == Inv /\ ExpensesOK /\ AgreementsOK

\* What keeps the balance of a source and the directions of its obligations.
Kept(s) ==
    /\ Balance(s)' = Balance(s)
    /\ \A m \in Parties : AllOwedBy(m, s) => AllOwedBy(m, s)'
    /\ IdsOf(s) = {} => IdsOf(s)' = {}

LEMMA KeptSays ==
    ASSUME NEW s, NEW sh, NEW fs, ExpenseSays(s, sh, fs), Kept(s)
    PROVE  ExpenseSays(s, sh, fs)'
<1>1. First \in Parties /\ Second \in Parties
  BY DEF Parties
<1> QED
  BY <1>1 DEF ExpenseSays, Kept

\* A source whose obligations are the same ones keeps its directions.
LEMMA SameIdsKept ==
    ASSUME NEW s, Balance(s)' = Balance(s), IdsOf(s)' = IdsOf(s), SameDebtors
    PROVE  Kept(s)
BY DEF Kept, SameDebtors, AllOwedBy, IdsOf

\* A resolution.
LEMMA TakingKept ==
    ASSUME Inv, Writes, NEW S \in SUBSET Ids, NEW amounts \in [S -> Amounts],
           Takes(S, amounts), NEW s
    PROVE  Kept(s)
BY TakingKeepsBalances, SameIdsKept

\* The others, when some are made to say what is due.
LEMMA OthersKept ==
    ASSUME Inv, Writes, NEW sources, NEW due, MadeToSay(sources, due),
           \A s \in sources : due[s] \in Int, UNCHANGED resolutions,
           NEW s, s \notin sources
    PROVE  Kept(s)
<1>1. Owed(s)' = Owed(s) /\ IdsOf(s)' = IdsOf(s) /\ SameDebtors
  BY OwedAsDue
<1>2. Resolved(s)' = Resolved(s)
  BY <1>1, PartsSame, NextResolved
<1>3. Balance(s)' = Balance(s)
  BY <1>1, <1>2 DEF Balance
<1> QED
  BY <1>1, <1>3, SameIdsKept

\* The reversal of a settlement: it opens again in the direction that it has.
LEMMA ReversingKept ==
    ASSUME Inv, NEW k \in DOMAIN resolutions, NEW c \in Selections,
           ReverseSettlement(k, c), NEW s
    PROVE  Kept(s)
<1> DEFINE due == [t \in SourcesOf(k) |-> Net(k, t)]
<1>1. Writes /\ MadeToSay(SourcesOf(k), due)
  BY ReversalWrites
<1>2. /\ ~ resolutions[k].reversed
      /\ resolutions' = [resolutions EXCEPT ![k].reversed = TRUE]
  BY DEF ReverseSettlement
<1>3. Balance(s)' = Balance(s)
  BY <1>1, <1>2, ReversingKeepsBalances
<1>4. \A i \in DOMAIN obligations' \ Ids :
          LET t == obligations'[i].source
          IN  /\ t \in SourcesOf(k)
              /\ Net(k, t) # 0
              /\ obligations'[i].debtor = Debtor(Net(k, t))
  BY <1>1 DEF MadeToSay
<1>5. /\ \A i \in Ids : obligations'[i].debtor = obligations[i].debtor
      /\ \A i \in Ids : obligations'[i].source = obligations[i].source
  BY <1>1 DEF MadeToSay, Writes
<1>6. ASSUME NEW m \in Parties, AllOwedBy(m, s)
      PROVE  AllOwedBy(m, s)'
  <2>1. Net(k, s) \in Side(m)
    <3>1. /\ Owed(s) \in Side(m)
          /\ PartOf(obligations, IdsOf(s), resolutions[k].parts) \in Side(m)
      BY <1>6, SidesOf
    <3>2. Net(k, s) = Owed(s) + PartOf(obligations, IdsOf(s), resolutions[k].parts)
      BY NetIs
    <3> QED
      BY <3>1, <3>2, SideClosed
  <2>2. Net(k, s) # 0 => Debtor(Net(k, s)) = m
    BY <2>1, MembersAssumption DEF Side, Debtor, Parties
  <2>3. ASSUME NEW i \in IdsOf(s)'
        PROVE  obligations'[i].debtor = m
    <3>1. i \in DOMAIN obligations' /\ obligations'[i].source = s
      BY <1>1, <2>3, NextSourceType
    <3>2. CASE i \in Ids
      BY <1>5, <1>6, <3>1, <3>2 DEF AllOwedBy, IdsOf
    <3>3. CASE i \notin Ids
      BY <1>4, <2>2, <3>1, <3>3
    <3> QED
      BY <3>2, <3>3
  <2> QED
    BY <2>3 DEF AllOwedBy
<1>7. ASSUME IdsOf(s) = {}
      PROVE  IdsOf(s)' = {}
  <2>1. s \notin SourcesOf(k)
    BY <1>7, ResolvedType DEF SourcesOf, IdsOf
  <2>2. \A i \in DOMAIN obligations' : obligations'[i].source # s
    BY <1>4, <1>5, <1>7, <2>1 DEF IdsOf
  <2> QED
    BY <1>1, <2>2, NextSourceType
<1> QED
  BY <1>3, <1>6, <1>7 DEF Kept

-----------------------------------------------------------------------------
(***************************************************************************)
(* The commands that keep every balance.                                   *)
(***************************************************************************)
\* A transfer and an offset take what they settle.
LEMMA SettlementTakes ==
    ASSUME Inv, NEW S \in SUBSET Ids, NEW amounts \in [S -> Amounts], NEW kind,
           CanResolve(amounts), obligations' = Settled(amounts),
           Resolve(kind, amounts)
    PROVE  Takes(S, amounts)
<1>1. obligations' = [i \in Ids |-> IF i \in S
                                    THEN Settle(obligations[i], amounts[i])
                                    ELSE obligations[i]]
  BY DEF Settled
<1>2. ASSUME NEW i \in Ids
      PROVE  /\ obligations'[i].debtor = obligations[i].debtor
             /\ obligations'[i].remaining
                    = obligations[i].remaining - Taken(S, amounts)[i]
  <2>1. /\ obligations[i] \in ObligationType
        /\ Bounded(obligations[i])
        /\ obligations[i].remaining \in Nat
    BY ObligationsType, MoneyAssumption DEF Inv, ObligationType
  <2>2. CASE i \in S
    <3>1. amounts[i] <= obligations[i].remaining
      BY <2>2 DEF CanResolve
    <3>2. obligations'[i] = Settle(obligations[i], amounts[i])
      BY <1>1, <2>2
    <3>3. /\ Settle(obligations[i], amounts[i]).debtor = obligations[i].debtor
          /\ Settle(obligations[i], amounts[i]).remaining
                 = obligations[i].remaining - amounts[i]
      BY <2>1, <2>2, <3>1, SettleReduces DEF Reduced
    <3>4. Taken(S, amounts)[i] = amounts[i]
      BY <2>2 DEF Taken
    <3> QED
      BY <3>2, <3>3, <3>4
  <2>3. CASE i \notin S
    <3>1. obligations'[i] = obligations[i] /\ Taken(S, amounts)[i] = 0
      BY <1>1, <2>3 DEF Taken
    <3> QED
      BY <2>1, <3>1
  <2> QED
    BY <2>2, <2>3
<1> DEFINE r == [kind     |-> kind,
                 parts    |-> [i \in DOMAIN amounts |->
                                  [amount |-> amounts[i],
                                   cycle  |-> obligations[i].cycle]],
                 reversed |-> FALSE]
<1>3. /\ resolutions' = Append(resolutions, r)
      /\ ~ r.reversed
      /\ DOMAIN r.parts = S
      /\ \A i \in S : r.parts[i].amount = amounts[i]
  BY DEF Resolve
<1> HIDE DEF r
<1>4. DOMAIN obligations' = Ids
  BY <1>1
<1> QED
  BY <1>2, <1>3, <1>4 DEF Takes

\* So does a waiver.
LEMMA WaiverTakes ==
    ASSUME Inv, NEW creditor, NEW i \in Ids, NEW n \in Amounts,
           WaiveObligation(creditor, i, n)
    PROVE  Takes({i}, [j \in {i} |-> n])
<1> DEFINE amounts == [j \in {i} |-> n]
<1>1. /\ obligations[i] \in ObligationType
      /\ Bounded(obligations[i])
      /\ \A j \in Ids : obligations[j].remaining \in Nat
  BY ObligationsType, MoneyAssumption DEF Inv, ObligationType
<1>2. /\ n <= obligations[i].remaining
      /\ obligations' = [obligations EXCEPT ![i] = Waive(obligations[i], n)]
      /\ Resolve("WAIVER", amounts)
  BY DEF WaiveObligation, CanResolve
<1>3. /\ Waive(obligations[i], n).debtor = obligations[i].debtor
      /\ Waive(obligations[i], n).remaining = obligations[i].remaining - n
  BY <1>1, <1>2, WaiveReduces DEF Reduced
<1>4. /\ DOMAIN obligations' = Ids
      /\ obligations'[i] = Waive(obligations[i], n)
      /\ \A j \in Ids \ {i} : obligations'[j] = obligations[j]
  BY <1>2 DEF Ids
<1>5. Taken({i}, amounts)[i] = n /\ \A j \in Ids \ {i} : Taken({i}, amounts)[j] = 0
  BY DEF Taken
<1>6. \A j \in Ids :
          /\ obligations'[j].debtor = obligations[j].debtor
          /\ obligations'[j].remaining
                 = obligations[j].remaining - Taken({i}, amounts)[j]
  <2> HIDE DEF amounts
  <2> SUFFICES ASSUME NEW j \in Ids
               PROVE  /\ obligations'[j].debtor = obligations[j].debtor
                      /\ obligations'[j].remaining
                             = obligations[j].remaining - Taken({i}, amounts)[j]
    OBVIOUS
  <2>1. CASE j = i
    BY <1>3, <1>4, <1>5, <2>1
  <2>2. CASE j # i
    <3>1. obligations'[j] = obligations[j] /\ Taken({i}, amounts)[j] = 0
      BY <1>4, <1>5, <2>2
    <3>2. obligations[j].remaining = obligations[j].remaining - 0
      BY <1>1
    <3> QED
      BY <3>1, <3>2
  <2> QED
    BY <2>1, <2>2
<1> DEFINE r == [kind     |-> "WAIVER",
                 parts    |-> [j \in DOMAIN amounts |->
                                  [amount |-> amounts[j],
                                   cycle  |-> obligations[j].cycle]],
                 reversed |-> FALSE]
<1>7. /\ resolutions' = Append(resolutions, r)
      /\ ~ r.reversed
      /\ DOMAIN r.parts = {i}
      /\ \A j \in {i} : r.parts[j].amount = amounts[j]
  BY <1>2 DEF Resolve
<1> HIDE DEF r, amounts
<1>8. Takes({i}, amounts)
  BY <1>4, <1>6, <1>7 DEF Takes
<1> QED
  BY <1>8 DEF amounts

\* What writes no amount keeps every balance.
LEMMA AmountsKept ==
    ASSUME Inv, DOMAIN obligations' = Ids, UNCHANGED resolutions,
           \A i \in Ids : /\ obligations'[i].source = obligations[i].source
                          /\ obligations'[i].debtor = obligations[i].debtor
                          /\ obligations'[i].remaining = obligations[i].remaining,
           NEW s
    PROVE  Kept(s)
<1> DEFINE T == IdsOf(s)
           f == [i \in T |-> Signed(obligations[i], obligations[i].remaining)]
           g == [i \in T |-> Signed(obligations'[i], obligations'[i].remaining)]
<1>1. IdsOf(s)' = T
  <2>1. {i \in DOMAIN obligations' : obligations'[i].source = s}
            = {i \in Ids : obligations[i].source = s}
    OBVIOUS
  <2> QED
    BY <2>1 DEF IdsOf, Ids
<1>2. SameDebtors
  BY DEF SameDebtors
<1>3. f = g
  <2>1. \A i \in T : Signed(obligations[i], obligations[i].remaining)
                         = Signed(obligations'[i], obligations'[i].remaining)
    BY DEF IdsOf, Signed
  <2> QED
    BY <2>1
<1>4. /\ Owed(s) = SumFunction(f)
      /\ Outstanding(obligations', T) = SumFunction(g)
  BY Zenon DEF Owed, Outstanding
<1>5. Owed(s)' = Outstanding(obligations', IdsOf(s)')
  BY DEF Owed
<1>6. Owed(s)' = Owed(s)
  BY <1>1, <1>3, <1>4, <1>5
<1>7. Resolved(s)' = Resolved(s)
  <2>1. \A k \in DOMAIN resolutions : \A i \in DOMAIN resolutions[k].parts :
            obligations'[i].debtor = obligations[i].debtor
    BY ResolvedType
  <2>2. ResolvedOf(obligations', T, resolutions) = ResolvedOf(obligations, T, resolutions)
    BY <2>1, ResolvedSame
  <2>3. Resolved(s) = ResolvedOf(obligations, T, resolutions)
    BY ResolvedType
  <2>4. Resolved(s)' = ResolvedOf(obligations', T, resolutions)
    BY <1>1, NextResolved
  <2> QED
    BY <2>2, <2>3, <2>4
<1>8. Balance(s)' = Balance(s)
  BY <1>6, <1>7 DEF Balance
<1> QED
  BY <1>1, <1>2, <1>8, SameIdsKept

\* A move writes the cycle of an obligation.
LEMMA MoveKept ==
    ASSUME Inv, NEW i \in Ids, NEW c, MoveObligation(i, c), NEW s
    PROVE  Kept(s)
<1>1. /\ obligations' = [obligations EXCEPT ![i].cycle = c]
      /\ UNCHANGED resolutions
  BY DEF MoveObligation
<1>2. obligations[i] \in ObligationType
  BY ObligationsType DEF Inv
<1>3. PICK p : p = [obligations[i] EXCEPT !.cycle = c]
  OBVIOUS
<1>4. /\ p.source = obligations[i].source
      /\ p.debtor = obligations[i].debtor
      /\ p.remaining = obligations[i].remaining
  BY <1>2, <1>3 DEF ObligationType
<1>5. obligations' = [obligations EXCEPT ![i] = p]
  BY <1>1, <1>3
<1>6. /\ DOMAIN obligations' = Ids
      /\ obligations'[i] = p
      /\ \A j \in Ids \ {i} : obligations'[j] = obligations[j]
  BY <1>5 DEF Ids
<1> QED
  BY <1>1, <1>4, <1>6, AmountsKept

\* What writes no obligation and no resolution.
LEMMA NothingKept ==
    ASSUME Inv, UNCHANGED <<obligations, resolutions>>, NEW s
    PROVE  Kept(s)
BY AmountsKept DEF Ids

-----------------------------------------------------------------------------
(***************************************************************************)
(* The commands that reconcile an expense.                                 *)
(***************************************************************************)
\* What a reconciliation makes of the balance and of the directions.
LEMMA ReconciledBalance ==
    ASSUME Inv, NEW s \in Origins, NEW due \in Int, NEW fact \in Nat,
           NEW selection \in Selections, Reconcile(s, due, fact, selection),
           UNCHANGED resolutions
    PROVE  /\ Balance(s)' = due + Resolved(s)
           /\ Resolved(s) \in Int
           /\ \A m : AllOwedBy(m, s) /\ (due # 0 => Debtor(due) = m)
                         => AllOwedBy(m, s)'
           /\ IdsOf(s) = {} /\ due = 0 => IdsOf(s)' = {}
           /\ \A t : t # s => Kept(t)
<1> DEFINE dues == [t \in {s} |-> due]
<1>1. Writes /\ MadeToSay({s}, dues)
  BY ReconcileWrites
<1>2. (\A t \in {s} : dues[t] \in Int) /\ dues[s] = due
  OBVIOUS
<1> HIDE DEF dues
<1>3. Owed(s)' = due /\ SameDebtors
  BY <1>1, <1>2, OwedAsDue
<1>4. Resolved(s)' = Resolved(s)
  BY <1>1, <1>3, PartsSame, NextResolved
<1>5. Balance(s)' = due + Resolved(s)
  BY <1>3, <1>4 DEF Balance
<1>6. \A i \in IdsOf(s)' :
          \/ i \in IdsOf(s) /\ obligations'[i].debtor = obligations[i].debtor
          \/ due # 0 /\ obligations'[i].debtor = Debtor(due)
  <2> SUFFICES ASSUME NEW i \in IdsOf(s)'
               PROVE  \/ /\ i \in IdsOf(s)
                         /\ obligations'[i].debtor = obligations[i].debtor
                      \/ due # 0 /\ obligations'[i].debtor = Debtor(due)
    OBVIOUS
  <2>1. i \in DOMAIN obligations' /\ obligations'[i].source = s
    BY <1>1, NextSourceType
  <2>2. CASE i \in Ids
    BY <1>1, <1>3, <2>1, <2>2 DEF SameDebtors, IdsOf, Writes
  <2>3. CASE i \notin Ids
    BY <1>1, <1>2, <2>1, <2>3 DEF MadeToSay
  <2> QED
    BY <2>2, <2>3
<1>7. ASSUME NEW m, AllOwedBy(m, s), due # 0 => Debtor(due) = m
      PROVE  AllOwedBy(m, s)'
  BY <1>6, <1>7 DEF AllOwedBy
<1>8. ASSUME NEW t, t # s
      PROVE  Kept(t)
  <2>1. t \notin {s}
    BY <1>8
  <2> QED
    BY <1>1, <1>2, <2>1, OthersKept
<1> QED
  BY <1>5, <1>6, <1>7, <1>8, ResolvedType

\* What has to be known of an expense that was never adjusted and had no fact
\* reversed, before a fact that leaves the excesses e1 and e2 is reconciled.
Ready(s, e1, e2) ==
    /\ e1 > 0 => AllOwedBy(Second, s) /\ Resolved(s) <= e1
    /\ e2 > 0 => AllOwedBy(First, s) /\ -Resolved(s) <= e2
    /\ e1 <= 0 /\ e2 <= 0 => IdsOf(s) = {}

\* Once an expense is fully paid, what one member has paid beyond their share is what
\* the other has not paid of theirs.
LEMMA LeftOfAll ==
    ASSUME NEW a \in Int, NEW b \in Int, NEW r \in Int, a + b = 0
    PROVE  Left(a, b, 0) = a /\ Left(a, b, r) + r = a
<1>1. b = -a
  OBVIOUS
<1>2. -(-a + r) + r = a /\ (a - r) + r = a /\ a - 0 = a /\ -(-a + 0) = a
  OBVIOUS
<1>3. CASE a - r > 0
  BY <1>1, <1>2, <1>3 DEF Left
<1>4. CASE a - r <= 0 /\ -a + r > 0
  BY <1>1, <1>2, <1>4 DEF Left
<1>5. CASE a - r <= 0 /\ -a + r <= 0
  BY <1>1, <1>5 DEF Left
<1> QED
  BY <1>3, <1>4, <1>5

\* A reconciliation makes the balance of an expense what is said of it.
LEMMA ReconcileSays ==
    ASSUME Inv, NEW s \in Origins, NEW sh \in [Parties -> Nat], NEW fs, FactsOK(fs),
           NEW due, due = Difference(s, sh, fs, HasReversals(fs)),
           NEW fact \in Nat, NEW selection \in Selections,
           Reconcile(s, due, fact, selection), UNCHANGED resolutions,
           Fulfilled(fs) <= Total(sh),
           Fulfilled(fs) = 0 => HasReversals(fs),
           sh = Shares[s] /\ ~ HasReversals(fs) =>
               Ready(s, Excess(sh, fs, First), Excess(sh, fs, Second))
    PROVE  /\ ExpenseSays(s, sh, fs)'
           /\ \A t : t # s => Kept(t)
<1> DEFINE e1 == Excess(sh, fs, First)
           e2 == Excess(sh, fs, Second)
<1>1. PICK r \in Int : r = Resolved(s)
  BY ResolvedType
<1>2. /\ e1 \in Int /\ e2 \in Int
      /\ Fulfilled(fs) - Total(sh) = e1 + e2
      /\ Fulfilled(fs) \in Nat /\ Total(sh) \in Nat
      /\ Fulfilled(fs) = 0 => e1 <= 0 /\ e2 <= 0
      /\ ExpenseDifference(sh, Paid(fs), r) = Left(e1, e2, r)
      /\ ExpenseDifference(sh, Paid(fs), 0) = Left(e1, e2, 0)
  BY DifferenceIs
<1>3. due = IF HasReversals(fs) THEN Left(e1, e2, 0) - r ELSE Left(e1, e2, r)
  BY <1>1, <1>2 DEF Difference, CorrectedDifference
<1> HIDE DEF e1, e2
<1>4. Left(e1, e2, r) \in Int /\ Left(e1, e2, 0) \in Int
  BY <1>1, <1>2 DEF Left
<1>5. due \in Int
  BY <1>1, <1>3, <1>4
<1>6. /\ Balance(s)' = due + r
      /\ \A m : AllOwedBy(m, s) /\ (due # 0 => Debtor(due) = m)
                    => AllOwedBy(m, s)'
      /\ IdsOf(s) = {} /\ due = 0 => IdsOf(s)' = {}
      /\ \A t : t # s => Kept(t)
  BY <1>1, <1>5, ReconciledBalance
<1>7. e1 + e2 <= 0
  BY <1>2
<1>8. /\ HasReversals(fs) => Balance(s)' = Left(e1, e2, 0)
      /\ ~ HasReversals(fs) => Balance(s)' = Left(e1, e2, r) + r
  BY <1>1, <1>3, <1>4, <1>6
<1>9. ASSUME Fulfilled(fs) = Total(sh)
      PROVE  Balance(s)' = e1
  <2>1. e1 + e2 = 0
    BY <1>2, <1>9
  <2>2. Left(e1, e2, 0) = e1 /\ Left(e1, e2, r) + r = e1
    BY <1>2, <2>1, LeftOfAll
  <2>3. CASE HasReversals(fs)
    BY <1>8, <2>2, <2>3
  <2>4. CASE ~ HasReversals(fs)
    BY <1>8, <2>2, <2>4
  <2> QED
    BY <2>3, <2>4
<1>10. ASSUME Fulfilled(fs) = 0
       PROVE  Balance(s)' = 0
  <2>1. Left(e1, e2, 0) = 0
    BY <1>2, <1>10 DEF Left
  <2> QED
    BY <1>8, <1>10, <2>1
<1>11. ASSUME sh = Shares[s], ~ HasReversals(fs)
       PROVE  /\ e1 > 0 => Balance(s)' = e1 /\ AllOwedBy(Second, s)'
              /\ e2 > 0 => Balance(s)' = -e2 /\ AllOwedBy(First, s)'
              /\ e1 <= 0 /\ e2 <= 0 => IdsOf(s)' = {}
  <2>1. Ready(s, e1, e2) /\ due = Left(e1, e2, r)
    BY <1>3, <1>11 DEF e1, e2
  <2>2. \A m : AllOwedBy(m, s) => r \in Side(m)
    BY <1>1, SidesOf
  <2>3. ASSUME e1 > 0
        PROVE  Balance(s)' = e1 /\ AllOwedBy(Second, s)'
    <3>1. AllOwedBy(Second, s) /\ r <= e1 /\ r >= 0
      BY <1>1, <2>1, <2>2, <2>3 DEF Ready, Side
    <3>2. due >= 0 /\ due + r = e1
      BY <1>1, <1>2, <1>7, <2>1, <2>3, <3>1 DEF Left
    <3>3. due # 0 => Debtor(due) = Second
      BY <1>5, <3>2 DEF Debtor
    <3> QED
      BY <1>6, <3>1, <3>2, <3>3
  <2>4. ASSUME e2 > 0
        PROVE  Balance(s)' = -e2 /\ AllOwedBy(First, s)'
    <3>1. AllOwedBy(First, s) /\ -r <= e2 /\ r <= 0
      BY <1>1, <2>1, <2>2, <2>4, MembersAssumption DEF Ready, Side
    <3>2. due <= 0 /\ due + r = -e2
      BY <1>1, <1>2, <1>7, <2>1, <2>4, <3>1 DEF Left
    <3>3. due # 0 => Debtor(due) = First
      BY <1>5, <3>2 DEF Debtor
    <3> QED
      BY <1>6, <3>1, <3>2, <3>3
  <2>5. ASSUME e1 <= 0, e2 <= 0
        PROVE  IdsOf(s)' = {}
    <3>1. IdsOf(s) = {}
      BY <2>1, <2>5 DEF Ready
    <3>2. r = 0
      BY <1>1, <3>1, NothingOfNone
    <3>3. due = 0
      BY <1>2, <2>1, <2>5, <3>2 DEF Left
    <3> QED
      BY <1>6, <3>1, <3>3
  <2> QED
    BY <2>3, <2>4, <2>5
<1> QED
  BY <1>6, <1>8, <1>9, <1>10, <1>11 DEF ExpenseSays, e1, e2

-----------------------------------------------------------------------------
(***************************************************************************)
(* The steps.                                                              *)
(***************************************************************************)
\* The facts and shares of an expense there is.
LEMMA ExpenseType ==
    ASSUME TypeOK, NEW s \in Origins
    PROVE  FactsOK(facts[s]) /\ shares[s] \in [Parties -> Nat]
BY DEF TypeOK, FactsOK

\* An expense that is written says what it should, and the other sources are kept.
LEMMA ExpenseWritten ==
    ASSUME BalanceInv, NEW s \in Origins, NEW sh, NEW fs,
           shares' = [shares EXCEPT ![s] = sh], facts' = [facts EXCEPT ![s] = fs],
           UNCHANGED agreed,
           ExpenseSays(s, sh, fs)', \A t : t # s => Kept(t)
    PROVE  ExpensesOK' /\ AgreementsOK'
<1>1. ASSUME NEW t \in Origins
      PROVE  ExpenseSays(t, shares[t], facts[t])'
  <2>1. PICK h : h = shares'[t]
    OBVIOUS
  <2>2. PICK g : g = facts'[t]
    OBVIOUS
  <2>3. ExpenseSays(t, h, g)'
    <3>1. CASE t = s
      <4>1. h = sh /\ g = fs
        BY <2>1, <2>2, <3>1 DEF BalanceInv, Inv, TypeOK
      <4> QED
        BY <3>1, <4>1
    <3>2. CASE t # s
      <4>1. h = shares[t] /\ g = facts[t]
        BY <2>1, <2>2, <3>2 DEF BalanceInv, Inv, TypeOK
      <4>2. ExpenseSays(t, h, g)
        BY <4>1 DEF BalanceInv, ExpensesOK
      <4> QED
        BY <3>2, <4>2, KeptSays
    <3> QED
      BY <3>1, <3>2
  <2> QED
    BY <2>1, <2>2, <2>3 DEF ExpenseSays
<1>2. ASSUME NEW t \in Agreements
      PROVE  Balance(t)' = agreed'[t]
  <2>1. t # s
    BY SourcesAssumption
  <2> QED
    BY <2>1 DEF BalanceInv, AgreementsOK, Kept
<1> QED
  BY <1>1, <1>2 DEF ExpensesOK, AgreementsOK

\* A command that writes neither facts nor shares nor agreements.
LEMMA AllKept ==
    ASSUME BalanceInv, UNCHANGED <<shares, facts, agreed>>, \A t : Kept(t)
    PROVE  ExpensesOK' /\ AgreementsOK'
<1>1. ASSUME NEW t \in Origins
      PROVE  ExpenseSays(t, shares[t], facts[t])'
  <2>1. PICK h : h = shares[t]
    OBVIOUS
  <2>2. PICK g : g = facts[t]
    OBVIOUS
  <2>3. ExpenseSays(t, h, g)
    BY <2>1, <2>2 DEF BalanceInv, ExpensesOK
  <2>4. ExpenseSays(t, h, g)'
    BY <2>3, KeptSays
  <2>5. h = shares'[t] /\ g = facts'[t]
    BY <2>1, <2>2
  <2> QED
    BY <2>4, <2>5 DEF ExpenseSays
<1>2. ASSUME NEW t \in Agreements
      PROVE  Balance(t)' = agreed'[t]
  BY DEF BalanceInv, AgreementsOK, Kept
<1> QED
  BY <1>1, <1>2 DEF ExpensesOK, AgreementsOK

\* What the invariant says of an expense makes it ready for more facts.
LEMMA ReadyForMore ==
    ASSUME BalanceInv, NEW s \in Origins, NEW sh, NEW fs,
           sh = shares[s], fs = facts[s], sh = Shares[s], ~ HasReversals(fs),
           NEW e1 \in Int, NEW e2 \in Int, e1 >= Excess(sh, fs, First),
           e2 >= Excess(sh, fs, Second), e1 + e2 <= 0
    PROVE  Ready(s, e1, e2)
<1> DEFINE d1 == Excess(sh, fs, First)
           d2 == Excess(sh, fs, Second)
<1>1. /\ d1 > 0 => Balance(s) = d1 /\ AllOwedBy(Second, s)
      /\ d2 > 0 => Balance(s) = -d2 /\ AllOwedBy(First, s)
      /\ d1 <= 0 /\ d2 <= 0 => IdsOf(s) = {}
  BY DEF BalanceInv, ExpensesOK, ExpenseSays
<1>2. d1 \in Int /\ d2 \in Int
  BY ExpenseType, DifferenceIs DEF BalanceInv, Inv
<1>3. Resolved(s) \in Int /\ Owed(s) \in Int
  BY ResolvedType, SourceType DEF BalanceInv
<1> HIDE DEF d1, d2
<1>4. CASE d1 > 0
  <2>1. Owed(s) \in Side(Second) /\ Resolved(s) \in Side(Second)
    BY <1>1, <1>4, SidesOf DEF BalanceInv
  <2>2. Resolved(s) <= d1
    BY <1>1, <1>2, <1>3, <1>4, <2>1 DEF Side, Balance
  <2> QED
    BY <1>1, <1>2, <1>3, <1>4, <2>2 DEF Ready, d1, d2
<1>5. CASE d2 > 0
  <2>1. Owed(s) \in Side(First) /\ Resolved(s) \in Side(First)
    BY <1>1, <1>5, SidesOf DEF BalanceInv
  <2>2. -Resolved(s) <= d2
    BY <1>1, <1>2, <1>3, <1>5, <2>1, MembersAssumption DEF Side, Balance
  <2> QED
    BY <1>1, <1>2, <1>3, <1>5, <2>2 DEF Ready, d1, d2
<1>6. CASE d1 <= 0 /\ d2 <= 0
  <2>1. IdsOf(s) = {}
    BY <1>1, <1>6
  <2>2. Resolved(s) = 0 /\ \A m : AllOwedBy(m, s)
    BY <2>1, NothingOfNone DEF BalanceInv, AllOwedBy
  <2> QED
    BY <1>2, <2>1, <2>2 DEF Ready
<1> QED
  BY <1>2, <1>4, <1>5, <1>6

\* A fact is recorded.
LEMMA RecordFactKeeps ==
    ASSUME BalanceInv, NEW s \in Origins, NEW m \in Parties, NEW n \in Amounts,
           NEW c \in Selections, RecordFact(s, m, n, c)
    PROVE  ExpensesOK' /\ AgreementsOK'
<1>1. PICK sh \in [Parties -> Nat] : sh = shares[s]
  BY ExpenseType DEF BalanceInv, Inv
<1>2. PICK gs : gs = facts[s] /\ FactsOK(gs)
  BY ExpenseType DEF BalanceInv, Inv
<1> DEFINE fact == [payer |-> m, amount |-> n, reversed |-> 0]
<1>3. n \in Nat \ {0} /\ n \in 0 .. MaxMoney /\ 0 \in 0 .. MaxMoney
  BY MoneyAssumption DEF Amounts
<1>4. /\ fact \in FactType /\ Valid(fact) = n
      /\ fact.payer = m /\ fact.reversed = 0
  BY <1>3 DEF FactType, Valid
<1> HIDE DEF fact
<1>5. PICK fs : fs = Append(gs, fact)
  OBVIOUS
<1>6. /\ Fulfilled(fs) <= Total(sh)
      /\ facts' = [facts EXCEPT ![s] = fs]
      /\ Reconcile(s, Difference(s, sh, fs, HasReversals(fs)), Len(fs), c)
      /\ UNCHANGED <<shares, agreed, resolutions>>
  BY <1>1, <1>2, <1>5 DEF RecordFact, fact
<1>7. FactsOK(fs)
  BY <1>2, <1>3, <1>4, <1>5, PaidMore
<1>8. \A p : PaidBy(fs, p) = PaidBy(gs, p) + (IF m = p THEN n ELSE 0)
  BY <1>2, <1>3, <1>4, <1>5, PaidMore
<1>9. \A p : PaidBy(gs, p) \in Nat
  BY <1>2, FactsType
<1>10. \A p : PaidBy(fs, p) \in Nat /\ PaidBy(fs, p) >= PaidBy(gs, p)
  BY <1>3, <1>8, <1>9
<1>11. Fulfilled(fs) # 0
  <2>1. CASE m = First
    BY <1>3, <1>8, <1>9, <1>10, <2>1 DEF Fulfilled
  <2>2. CASE m = Second
    BY <1>3, <1>8, <1>9, <1>10, <2>2 DEF Fulfilled
  <2> QED
    BY <2>1, <2>2 DEF Parties
<1>12. HasReversals(fs) <=> HasReversals(gs)
  <2>1. /\ gs \in Seq(FactType) /\ DOMAIN gs = 1 .. Len(gs) /\ Len(gs) \in Nat
        /\ DOMAIN fs = 1 .. Len(gs) + 1
        /\ \A f \in DOMAIN gs : fs[f] = gs[f]
        /\ fs[Len(gs) + 1] = fact
    BY <1>2, <1>4, <1>5 DEF FactsOK
  <2>2. \A f \in DOMAIN fs : f \in DOMAIN gs \/ fs[f].reversed = 0
    BY <1>4, <2>1
  <2>3. \A f \in DOMAIN gs : f \in DOMAIN fs /\ fs[f] = gs[f]
    BY <2>1
  <2> QED
    BY <2>2, <2>3 DEF HasReversals
<1>13. Len(fs) \in Nat
  BY <1>7 DEF FactsOK
<1>14. /\ Excess(sh, fs, First) \in Int /\ Excess(sh, fs, Second) \in Int
       /\ Excess(sh, fs, First) + Excess(sh, fs, Second) <= 0
  <2>1. /\ Fulfilled(fs) - Total(sh) = Excess(sh, fs, First) + Excess(sh, fs, Second)
        /\ Excess(sh, fs, First) \in Int /\ Excess(sh, fs, Second) \in Int
        /\ Fulfilled(fs) \in Nat /\ Total(sh) \in Nat
    BY <1>7, DifferenceIs
  <2> QED
    BY <1>6, <2>1
<1>15. /\ Excess(sh, fs, First) >= Excess(sh, gs, First)
       /\ Excess(sh, fs, Second) >= Excess(sh, gs, Second)
  <2>1. First \in Parties /\ Second \in Parties
    BY DEF Parties
  <2>2. sh[First] \in Nat /\ sh[Second] \in Nat
    BY <2>1
  <2> QED
    BY <1>9, <1>10, <2>2 DEF Excess
<1>16. sh = Shares[s] /\ ~ HasReversals(fs) =>
           Ready(s, Excess(sh, fs, First), Excess(sh, fs, Second))
  BY <1>1, <1>2, <1>12, <1>14, <1>15, ReadyForMore
<1>17. PICK due : due = Difference(s, sh, fs, HasReversals(fs))
  OBVIOUS
<1>18. ExpenseSays(s, sh, fs)' /\ \A t : t # s => Kept(t)
  BY <1>6, <1>7, <1>11, <1>13, <1>16, <1>17, ReconcileSays DEF BalanceInv
<1>19. shares' = [shares EXCEPT ![s] = sh]
  BY <1>1, <1>6 DEF BalanceInv, Inv, TypeOK
<1> QED
  BY <1>6, <1>18, <1>19, ExpenseWritten

\* A fact is reversed, in part or altogether.
LEMMA ReverseFactKeeps ==
    ASSUME BalanceInv, NEW s \in Origins, NEW f \in DOMAIN facts[s],
           NEW n \in Amounts, NEW c \in Selections, ReverseFact(s, f, n, c)
    PROVE  ExpensesOK' /\ AgreementsOK'
<1>1. PICK sh \in [Parties -> Nat] : sh = shares[s]
  BY ExpenseType DEF BalanceInv, Inv
<1>2. PICK gs : gs = facts[s] /\ FactsOK(gs)
  BY ExpenseType DEF BalanceInv, Inv
<1>3. PICK fs : fs = [gs EXCEPT ![f].reversed = @ + n]
  OBVIOUS
<1>4. /\ n <= Valid(gs[f]) /\ f \in DOMAIN gs
      /\ facts' = [facts EXCEPT ![s] = fs]
      /\ Reconcile(s, Difference(s, sh, fs, TRUE), f, c)
      /\ UNCHANGED <<shares, agreed, resolutions>>
  BY <1>1, <1>2, <1>3 DEF ReverseFact
<1>5. FactsOK(fs) /\ HasReversals(fs) = TRUE
  BY <1>2, <1>3, <1>4, PaidLess DEF HasReversals
<1>6. \A p : PaidBy(fs, p) <= PaidBy(gs, p)
  BY <1>2, <1>3, <1>4, PaidLess
<1>7. Fulfilled(fs) <= Total(sh)
  <2>1. \A p : PaidBy(fs, p) \in Nat /\ PaidBy(gs, p) \in Nat
    BY <1>2, <1>5, FactsType
  <2>2. Fulfilled(gs) <= Total(sh)
    BY <1>1, <1>2 DEF BalanceInv, ExpensesOK, ExpenseSays
  <2>3. Fulfilled(fs) <= Fulfilled(gs) /\ Fulfilled(fs) \in Nat /\ Fulfilled(gs) \in Nat
    BY <1>6, <2>1 DEF Fulfilled
  <2>4. Total(sh) \in Nat
    BY <1>2, DifferenceIs
  <2> QED
    BY <2>2, <2>3, <2>4
<1>8. f \in Nat
  BY <1>2, <1>4 DEF FactsOK
<1>9. PICK due : due = Difference(s, sh, fs, HasReversals(fs))
  OBVIOUS
<1>10. Reconcile(s, due, f, c)
  BY <1>4, <1>5, <1>9
<1>11. ExpenseSays(s, sh, fs)' /\ \A t : t # s => Kept(t)
  BY <1>4, <1>5, <1>7, <1>8, <1>9, <1>10, ReconcileSays DEF BalanceInv
<1>12. shares' = [shares EXCEPT ![s] = sh]
  BY <1>1, <1>4 DEF BalanceInv, Inv, TypeOK
<1> QED
  BY <1>4, <1>11, <1>12, ExpenseWritten

\* An expense is adjusted.
LEMMA AdjustKeeps ==
    ASSUME BalanceInv, NEW s \in Origins, NEW h \in Adjusted, NEW c \in Selections,
           Adjust(s, h, c)
    PROVE  ExpensesOK' /\ AgreementsOK'
<1>1. PICK sh \in [Parties -> Nat] : sh = h /\ sh # Shares[s]
  BY SharesAssumption
<1>2. PICK fs : fs = facts[s] /\ FactsOK(fs)
  BY ExpenseType DEF BalanceInv, Inv
<1>3. /\ Fulfilled(fs) <= Total(sh)
      /\ shares' = [shares EXCEPT ![s] = sh]
      /\ UNCHANGED <<facts, agreed, resolutions>>
      /\ \/ /\ Fulfilled(fs) > 0
            /\ \E f \in LastValid(fs) :
                   Reconcile(s, Difference(s, sh, fs, HasReversals(fs)), f, c)
         \/ ~ (Fulfilled(fs) > 0) /\ UNCHANGED obligations
  BY <1>1, <1>2 DEF Adjust
<1>4. facts' = [facts EXCEPT ![s] = fs]
  BY <1>2, <1>3 DEF BalanceInv, Inv, TypeOK
<1>5. /\ Excess(sh, fs, First) \in Int /\ Excess(sh, fs, Second) \in Int
      /\ Fulfilled(fs) - Total(sh) = Excess(sh, fs, First) + Excess(sh, fs, Second)
      /\ Fulfilled(fs) \in Nat /\ Total(sh) \in Nat
      /\ Fulfilled(fs) = 0 => /\ Excess(sh, fs, First) <= 0
                              /\ Excess(sh, fs, Second) <= 0
  BY <1>2, DifferenceIs
<1>6. CASE Fulfilled(fs) > 0
  <2>1. PICK f \in LastValid(fs) :
            Reconcile(s, Difference(s, sh, fs, HasReversals(fs)), f, c)
    BY <1>3, <1>6
  <2>2. f \in Nat
    BY <1>2 DEF LastValid, FactsOK
  <2>3. PICK due : due = Difference(s, sh, fs, HasReversals(fs))
    OBVIOUS
  <2>4. Fulfilled(fs) # 0
    BY <1>5, <1>6
  <2>5. ExpenseSays(s, sh, fs)' /\ \A t : t # s => Kept(t)
    BY <1>1, <1>2, <1>3, <2>1, <2>2, <2>3, <2>4, ReconcileSays DEF BalanceInv
  <2> QED
    BY <1>3, <1>4, <2>5, ExpenseWritten
<1>7. CASE ~ (Fulfilled(fs) > 0)
  <2>1. Fulfilled(fs) = 0
    BY <1>5, <1>7
  <2>2. \A t : Kept(t)
    BY <1>3, <1>7, NothingKept DEF BalanceInv
  <2>3. Balance(s)' = 0
    BY <1>2, <2>1, <2>2 DEF BalanceInv, ExpensesOK, ExpenseSays, Kept
  <2>4. Left(Excess(sh, fs, First), Excess(sh, fs, Second), 0) = 0
    BY <1>5, <2>1 DEF Left
  <2>5. Fulfilled(fs) = Total(sh) => Excess(sh, fs, First) = 0
    BY <1>5, <2>1
  <2>6. ExpenseSays(s, sh, fs)'
    BY <1>1, <1>3, <2>3, <2>4, <2>5 DEF ExpenseSays
  <2> QED
    BY <1>3, <1>4, <2>2, <2>6, ExpenseWritten
<1> QED
  BY <1>6, <1>7

\* The members agree on what the closure of the space leaves between them.
LEMMA AgreeKeeps ==
    ASSUME BalanceInv, NEW s \in Agreements, NEW d \in Int, d # 0,
           IsMoney(Abs(d)), Agree(s, d)
    PROVE  ExpensesOK' /\ AgreementsOK'
<1> DEFINE dues == [t \in {s} |-> d]
<1>1. Inv
  BY DEF BalanceInv
<1>2. Writes /\ MadeToSay({s}, dues)
  BY <1>1, AgreeWrites
<1>3. (\A t \in {s} : dues[t] \in Int) /\ dues[s] = d
  OBVIOUS
<1> HIDE DEF dues
<1>4. /\ agreed[s] = 0 /\ agreed' = [agreed EXCEPT ![s] = d]
      /\ UNCHANGED <<shares, facts, resolutions>>
  BY DEF Agree
<1>5. Owed(s)' = d /\ SameDebtors
  BY <1>1, <1>2, <1>3, OwedAsDue
<1>6. Resolved(s)' = Resolved(s)
  BY <1>1, <1>2, <1>4, <1>5, PartsSame, NextResolved
<1>7. IdsOf(s) = {}
  BY <1>1, <1>4 DEF Inv, AgreedBefore, IdsOf
<1>8. Resolved(s) = 0
  BY <1>1, <1>7, NothingOfNone
<1>9. Balance(s)' = d
  BY <1>5, <1>6, <1>8 DEF Balance
<1>10. ASSUME NEW t, t # s
       PROVE  Kept(t)
  <2>1. t \notin {s}
    BY <1>10
  <2> QED
    BY <1>1, <1>2, <1>3, <1>4, <2>1, OthersKept
<1>11. ASSUME NEW t \in Origins
       PROVE  ExpenseSays(t, shares[t], facts[t])'
  <2>1. PICK h : h = shares[t]
    OBVIOUS
  <2>2. PICK g : g = facts[t]
    OBVIOUS
  <2>3. ExpenseSays(t, h, g) /\ t # s
    BY <2>1, <2>2, SourcesAssumption DEF BalanceInv, ExpensesOK
  <2>4. ExpenseSays(t, h, g)'
    BY <1>10, <2>3, KeptSays
  <2>5. h = shares'[t] /\ g = facts'[t]
    BY <1>4, <2>1, <2>2
  <2> QED
    BY <2>4, <2>5 DEF ExpenseSays
<1>12. ASSUME NEW t \in Agreements
       PROVE  Balance(t)' = agreed'[t]
  <2>1. CASE t = s
    BY <1>1, <1>4, <1>9, <2>1 DEF Inv, TypeOK
  <2>2. CASE t # s
    BY <1>4, <1>10, <2>2 DEF BalanceInv, AgreementsOK, Kept
  <2> QED
    BY <2>1, <2>2
<1> QED
  BY <1>11, <1>12 DEF ExpensesOK, AgreementsOK

\* Nothing has been paid and nothing is owed at first.
LEMMA BalanceInit ==
    ASSUME Init
    PROVE  BalanceInv
<1>1. Inv
  BY InvInit
<1>2. \A s : IdsOf(s) = {}
  BY DEF Init, IdsOf, Ids
<1>3. ASSUME NEW s
      PROVE  Balance(s) = 0
  <2>1. Owed(s) = 0 /\ Resolved(s) = 0
    BY <1>1, <1>2, NothingOfNone
  <2> QED
    BY <2>1 DEF Balance
<1>4. ASSUME NEW s \in Origins
      PROVE  ExpenseSays(s, shares[s], facts[s])
  <2>1. PICK sh \in [Parties -> Nat] : sh = shares[s]
    BY <1>1, ExpenseType DEF Inv
  <2>2. facts[s] = <<>> /\ FactsOK(<<>>)
    BY <1>1, ExpenseType DEF Init, Inv
  <2>3. ~ HasReversals(<<>>)
    BY DEF HasReversals
  <2>4. PaidBy(<<>>, First) = 0 /\ PaidBy(<<>>, Second) = 0
    BY PaidAtFirst
  <2>5. sh[First] \in Nat /\ sh[Second] \in Nat
    BY DEF Parties
  <2>6. /\ Fulfilled(<<>>) = 0
        /\ Excess(sh, <<>>, First) = -sh[First]
        /\ Excess(sh, <<>>, Second) = -sh[Second]
        /\ Total(sh) = sh[First] + sh[Second]
    BY <2>4, <2>5 DEF Fulfilled, Excess, Total
  <2>7. ExpenseSays(s, sh, <<>>)
    BY <1>2, <1>3, <2>3, <2>5, <2>6 DEF ExpenseSays
  <2> QED
    BY <2>1, <2>2, <2>7
<1>5. AgreementsOK
  BY <1>3 DEF AgreementsOK, Init
<1> QED
  BY <1>1, <1>4, <1>5 DEF BalanceInv, ExpensesOK

\* Every step keeps the balances.
LEMMA BalanceStep ==
    ASSUME BalanceInv, [Next]_vars
    PROVE  BalanceInv'
<1>0. Inv
  BY DEF BalanceInv
<1>1. ASSUME UNCHANGED vars
      PROVE  ExpensesOK' /\ AgreementsOK'
  <2>1. \A t : Kept(t)
    BY <1>0, <1>1, NothingKept DEF vars
  <2> QED
    BY <1>1, <2>1, AllKept DEF vars
<1>2. ASSUME NEW s \in Origins, ExpenseStep(s)
      PROVE  ExpensesOK' /\ AgreementsOK'
  BY <1>2, RecordFactKeeps, ReverseFactKeeps, AdjustKeeps DEF ExpenseStep
<1>3. ASSUME NEW s \in Agreements, NEW n \in Amounts, Agree(s, n) \/ Agree(s, -n)
      PROVE  ExpensesOK' /\ AgreementsOK'
  <2>1. n \in Nat /\ n > 0 /\ n \in 0 .. MaxMoney
    BY MoneyAssumption DEF Amounts
  <2>2. Abs(n) = n /\ Abs(-n) = n
    BY <2>1 DEF Abs
  <2>3. /\ n \in Int /\ -n \in Int /\ n # 0 /\ -n # 0
        /\ IsMoney(Abs(n)) /\ IsMoney(Abs(-n))
    BY <2>1, <2>2 DEF IsMoney
  <2>4. CASE Agree(s, n)
    BY <2>3, <2>4, AgreeKeeps
  <2>5. CASE Agree(s, -n)
    BY <2>3, <2>5, AgreeKeeps
  <2> QED
    BY <1>3, <2>4, <2>5
<1>4. ASSUME NEW S \in SUBSET Ids, NEW amounts \in [S -> Amounts],
             (\E m \in Parties : Transfer(m, amounts)) \/ Offset(amounts)
      PROVE  ExpensesOK' /\ AgreementsOK'
  <2>1. PICK kind \in {"TRANSFER", "OFFSET"} :
            /\ CanResolve(amounts)
            /\ obligations' = Settled(amounts)
            /\ Resolve(kind, amounts)
    BY <1>4 DEF Transfer, Offset
  <2>2. Writes
    BY <1>0, <2>1, SettlementWrites
  <2>3. Takes(S, amounts)
    BY <1>0, <2>1, SettlementTakes
  <2>4. \A t : Kept(t)
    BY <1>0, <2>2, <2>3, TakingKept
  <2> QED
    BY <2>1, <2>4, AllKept DEF Resolve
<1>5. ASSUME NEW m \in Parties, NEW i \in Ids, NEW n \in Amounts,
             WaiveObligation(m, i, n)
      PROVE  ExpensesOK' /\ AgreementsOK'
  <2>1. PICK amounts \in [{i} -> Amounts] : amounts = [j \in {i} |-> n]
    OBVIOUS
  <2>2. Takes({i}, amounts)
    BY <1>0, <1>5, <2>1, WaiverTakes
  <2>3. Writes
    BY <1>0, <1>5, WaiverWrites
  <2>4. \A t : Kept(t)
    BY <1>0, <2>2, <2>3, TakingKept
  <2>5. UNCHANGED <<shares, facts, agreed>>
    BY <1>5 DEF WaiveObligation, Resolve
  <2> QED
    BY <2>4, <2>5, AllKept
<1>6. ASSUME NEW i \in Ids, NEW c \in Selections, MoveObligation(i, c)
      PROVE  ExpensesOK' /\ AgreementsOK'
  <2>1. \A t : Kept(t)
    BY <1>0, <1>6, MoveKept
  <2> QED
    BY <1>6, <2>1, AllKept DEF MoveObligation
<1>7. ASSUME NEW c \in Cycles, FinalizeCycle(c)
      PROVE  ExpensesOK' /\ AgreementsOK'
  <2>1. UNCHANGED <<shares, facts, agreed, obligations, resolutions>>
    BY <1>7 DEF FinalizeCycle
  <2>2. \A t : Kept(t)
    BY <1>0, <2>1, NothingKept
  <2> QED
    BY <2>1, <2>2, AllKept
<1>8. ASSUME NEW k \in DOMAIN resolutions, NEW c \in Selections,
             ReverseSettlement(k, c)
      PROVE  ExpensesOK' /\ AgreementsOK'
  <2>1. \A t : Kept(t)
    BY <1>0, <1>8, ReversingKept
  <2>2. UNCHANGED <<shares, facts, agreed>>
    BY <1>8 DEF ReverseSettlement
  <2> QED
    BY <2>1, <2>2, AllKept
<1>9. OpenIds(obligations, Ids) \subseteq Ids
  BY DEF OpenIds
<1>10. Inv'
  BY <1>0, InvStep
<1>11. ASSUME ResolutionStep
       PROVE  ExpensesOK' /\ AgreementsOK'
  <2>1. PICK S \in SUBSET OpenIds(obligations, Ids) :
            \E amounts \in [S -> Amounts] :
                (\E m \in Parties : Transfer(m, amounts)) \/ Offset(amounts)
    BY <1>11 DEF ResolutionStep
  <2>2. S \in SUBSET Ids
    BY <1>9
  <2> QED
    BY <1>4, <2>1, <2>2
<1>12. ExpensesOK' /\ AgreementsOK'
  BY <1>1, <1>2, <1>3, <1>5, <1>6, <1>7, <1>8, <1>11 DEF Next
<1> QED
  BY <1>10, <1>12 DEF BalanceInv

\* The balances hold in every state.
THEOREM Balances == Spec => []BalanceInv
<1>1. BalanceInv /\ [Next]_vars => BalanceInv'
  BY BalanceStep
<1> QED
  BY BalanceInit, <1>1, PTL DEF Spec

-----------------------------------------------------------------------------
(***************************************************************************)
(* What the members are promised.                                          *)
(***************************************************************************)
\* What was agreed when the space was closed is owed or has been resolved: no
\* transfer, offset, waiver, move, finalization or reversal of a settlement, in this
\* source or in another, loses any of it.
THEOREM AgreementsKept == Spec => []AgreementsAreKept
<1>1. BalanceInv => AgreementsAreKept
  BY DEF BalanceInv, AgreementsOK, Balance, Owed, AgreementsAreKept
<1> QED
  BY <1>1, Balances, PTL

\* Once an expense is fully paid, what is open and what has been resolved leave each
\* member with their own share, whatever adjustments, reversals and reconciliations
\* came before.
THEOREM SharesBorne == Spec => []SharesAreBorne
<1>1. ASSUME BalanceInv, NEW s \in Origins, Fulfilled(facts[s]) = Total(shares[s])
      PROVE  Owed(s) = PaidBy(facts[s], First) - shares[s][First] - Resolved(s)
  <2>1. Owed(s) + Resolved(s) = PaidBy(facts[s], First) - shares[s][First]
    BY <1>1 DEF BalanceInv, ExpensesOK, ExpenseSays, Balance, Excess
  <2>2. PaidBy(facts[s], First) \in Nat /\ shares[s][First] \in Nat
    BY <1>1, ExpenseType, FactsType DEF BalanceInv, Inv, Parties
  <2>3. Owed(s) \in Int /\ Resolved(s) \in Int
    BY <1>1, SourceType, ResolvedType DEF BalanceInv
  <2> QED
    BY <2>1, <2>2, <2>3
<1>2. BalanceInv => SharesAreBorne
  BY <1>1 DEF SharesAreBorne, Owed
<1> QED
  BY <1>2, Balances, PTL

\* An expense that was never adjusted has nothing to correct: what is open of it is
\* what a reconciliation would make of its facts and its resolutions, at any time.
THEOREM OutstandingFollows == Spec => []OutstandingFollowsFacts
<1>1. ASSUME BalanceInv, NEW s \in Origins, shares[s] = Shares[s]
      PROVE  Owed(s) = Difference(s, shares[s], facts[s], HasReversals(facts[s]))
  <2>1. PICK sh \in [Parties -> Nat] : sh = shares[s] /\ sh = Shares[s]
    BY <1>1, ExpenseType DEF BalanceInv, Inv
  <2>2. PICK fs : fs = facts[s] /\ FactsOK(fs)
    BY <1>1, ExpenseType DEF BalanceInv, Inv
  <2>3. PICK r \in Int : r = Resolved(s)
    BY <1>1, ResolvedType DEF BalanceInv
  <2>4. PICK o \in Int : o = Owed(s)
    BY <1>1, SourceType DEF BalanceInv
  <2> DEFINE e1 == Excess(sh, fs, First)
             e2 == Excess(sh, fs, Second)
  <2>5. /\ e1 \in Int /\ e2 \in Int
        /\ Fulfilled(fs) - Total(sh) = e1 + e2
        /\ Fulfilled(fs) \in Nat /\ Total(sh) \in Nat
        /\ ExpenseDifference(sh, Paid(fs), r) = Left(e1, e2, r)
        /\ ExpenseDifference(sh, Paid(fs), 0) = Left(e1, e2, 0)
    BY <2>2, <2>3, DifferenceIs
  <2>6. /\ Fulfilled(fs) <= Total(sh)
        /\ HasReversals(fs) => o + r = Left(e1, e2, 0)
        /\ ~ HasReversals(fs) =>
               /\ e1 > 0 => o + r = e1 /\ AllOwedBy(Second, s)
               /\ e2 > 0 => o + r = -e2 /\ AllOwedBy(First, s)
               /\ e1 <= 0 /\ e2 <= 0 => IdsOf(s) = {}
    BY <1>1, <2>1, <2>2, <2>3, <2>4 DEF BalanceInv, ExpensesOK, ExpenseSays, Balance
  <2>7. Difference(s, sh, fs, HasReversals(fs))
            = IF HasReversals(fs) THEN Left(e1, e2, 0) - r ELSE Left(e1, e2, r)
    BY <2>3, <2>5 DEF Difference, CorrectedDifference
  <2>8. \A m : AllOwedBy(m, s) => o \in Side(m) /\ r \in Side(m)
    BY <1>1, <2>3, <2>4, SidesOf DEF BalanceInv
  <2>9. IdsOf(s) = {} => o = 0 /\ r = 0
    BY <1>1, <2>3, <2>4, NothingOfNone DEF BalanceInv
  <2> HIDE DEF e1, e2
  <2>10. e1 + e2 <= 0
    BY <2>5, <2>6
  <2>11. CASE HasReversals(fs)
    <3>1. o + r = Left(e1, e2, 0) /\ Left(e1, e2, 0) \in Int
      BY <2>5, <2>6, <2>11 DEF Left
    <3>2. o = Left(e1, e2, 0) - r
      BY <3>1
    <3> QED
      BY <2>1, <2>2, <2>4, <2>7, <2>11, <3>2
  <2>12. CASE ~ HasReversals(fs)
    <3>1. ASSUME e1 > 0
          PROVE  o = Left(e1, e2, r)
      <4>1. o + r = e1 /\ o >= 0 /\ r >= 0
        BY <2>6, <2>8, <2>12, <3>1 DEF Side
      <4> QED
        BY <2>5, <2>10, <3>1, <4>1 DEF Left
    <3>2. ASSUME e2 > 0
          PROVE  o = Left(e1, e2, r)
      <4>1. o + r = -e2 /\ o <= 0 /\ r <= 0
        BY <2>6, <2>8, <2>12, <3>2, MembersAssumption DEF Side
      <4> QED
        BY <2>5, <2>10, <3>2, <4>1 DEF Left
    <3>3. ASSUME e1 <= 0, e2 <= 0
          PROVE  o = Left(e1, e2, r)
      <4>1. o = 0 /\ r = 0
        BY <2>6, <2>9, <2>12, <3>3
      <4> QED
        BY <2>5, <3>3, <4>1 DEF Left
    <3>4. o = Left(e1, e2, r)
      BY <2>5, <3>1, <3>2, <3>3
    <3> QED
      BY <2>1, <2>2, <2>4, <2>7, <2>12, <3>4
  <2> QED
    BY <2>11, <2>12
<1>2. BalanceInv => OutstandingFollowsFacts
  BY <1>1 DEF OutstandingFollowsFacts, Owed
<1> QED
  BY <1>2, Balances, PTL

-----------------------------------------------------------------------------
(***************************************************************************)
(* What the screens show.                                                  *)
(***************************************************************************)
\* The obligations are finitely many, and their amounts are natural numbers.
LEMMA AmountsType ==
    ASSUME Inv
    PROVE  /\ IsFiniteSet(Ids)
           /\ \A i \in Ids : /\ obligations[i].recognized \in Nat
                             /\ obligations[i].remaining \in Nat
                             /\ obligations[i].cycle \in Selections
                             /\ obligations[i].debtor \in Parties
<1>1. Ids = 1 .. Len(obligations) /\ Len(obligations) \in Nat
  BY ObligationsType DEF Inv
<1>2. IsFiniteSet(1 .. Len(obligations))
  BY <1>1, FS_Interval
<1>3. \A o \in ObligationType : /\ o.recognized \in Nat
                                /\ o.remaining \in Nat
                                /\ o.cycle \in Selections
                                /\ o.debtor \in Parties
  BY MoneyAssumption DEF ObligationType
<1> QED
  BY <1>1, <1>2, <1>3, ObligationsType DEF Inv

Unpaid(i) == obligations[i].remaining

LEMMA RemainingIs ==
    ASSUME Inv, NEW S \in SUBSET Ids
    PROVE  /\ IsFiniteSet(S)
           /\ Remaining(S) = SumFunctionOnSet([i \in Ids |-> Unpaid(i)], S)
           /\ Remaining(S) \in Nat
           /\ \A i \in S : Unpaid(i) <= Remaining(S)
<1> DEFINE f == [i \in Ids |-> Unpaid(i)]
           e == [i \in S |-> Unpaid(i)]
<1>1. IsFiniteSet(S)
  BY AmountsType, FS_Subset
<1>2. DOMAIN e = S /\ \A i \in S : e[i] = f[i] /\ e[i] = Unpaid(i) /\ e[i] \in Nat
  BY AmountsType DEF Unpaid
<1>3. Remaining(S) = SumFunction(e)
  BY Zenon DEF Remaining, Unpaid
<1> HIDE DEF e, f
<1>4. SumFunction(e) = SumFunctionOnSet(f, S)
  BY <1>1, <1>2, TotalOver
<1>5. SumFunction(e) \in Nat /\ \A i \in S : e[i] <= SumFunction(e)
  BY <1>1, <1>2, TotalIsAtLeast
<1> QED
  BY <1>1, <1>2, <1>3, <1>4, <1>5 DEF f

\* Nothing remains of what is not open.
LEMMA RemainingOfOpen ==
    ASSUME Inv, NEW S \in SUBSET Ids, NEW R \in SUBSET S,
           \A i \in S : IsOpen(obligations[i]) => i \in R
    PROVE  Remaining(S) = Remaining(R)
<1> DEFINE f == [i \in Ids |-> Unpaid(i)]
<1>1. \A i \in S : f[i] \in Int /\ (i \notin R => f[i] = 0)
  BY AmountsType DEF IsOpen, Unpaid
<1>2. IsFiniteSet(S)
  BY RemainingIs
<1>3. /\ Remaining(S) = SumFunctionOnSet(f, S)
      /\ Remaining(R) = SumFunctionOnSet(f, R)
  BY RemainingIs
<1> HIDE DEF f
<1>4. SumFunctionOnSet(f, S) = SumFunctionOnSet(f, R)
  BY <1>1, <1>2, SumOverMore
<1> QED
  BY <1>3, <1>4

\* What is open in a cycle is overdue or not, by the date of the cycle.
LEMMA OpenIsListed ==
    ASSUME Inv, NEW today \in 1 .. MaxToday, NEW i \in Ids, IsOpen(obligations[i]),
           obligations[i].cycle # NoCycle
    PROVE  obligations[i].cycle \in ListedIn("UPCOMING", today)
                                        \cup TodayCycles(today).overdue
<1> DEFINE c == obligations[i].cycle
<1>1. c \in Cycles /\ cycles[c] = "OPEN"
  BY AmountsType DEF Inv, NothingOpenInFinalized, Selections
<1>2. TargetDate[c] \in Int /\ today \in Int
  BY <1>1, DatesAssumption
<1>3. i \in InCycle(c) /\ InCycle(c) \in SUBSET Ids
  BY DEF InCycle
<1>4. Remaining(InCycle(c)) > 0
  <2>1. Unpaid(i) <= Remaining(InCycle(c)) /\ Remaining(InCycle(c)) \in Nat
    BY <1>3, RemainingIs
  <2> QED
    BY <2>1, AmountsType DEF IsOpen, Unpaid
<1>5. /\ ListedIn("UPCOMING", today) = {d \in Cycles : /\ cycles[d] = "OPEN"
                                                       /\ TargetDate[d] >= today}
      /\ ListedIn("OVERDUE", today) = {d \in Cycles : IsOverdue(d, today)}
  BY DEF ListedIn
<1>6. TodayCycles(today).overdue = ListedIn("OVERDUE", today)
  BY DEF TodayCycles
<1>7. CASE TargetDate[c] >= today
  BY <1>1, <1>5, <1>7
<1>8. CASE TargetDate[c] < today
  BY <1>1, <1>4, <1>5, <1>6, <1>8 DEF IsOverdue
<1> QED
  BY <1>2, <1>7, <1>8

LEMMA PositionListed ==
    ASSUME Inv
    PROVE  PositionIsListed
<1> SUFFICES ASSUME NEW m \in Parties, NEW today \in 1 .. MaxToday
             PROVE  LET loose  == {i \in Ids : obligations[i].cycle = NoCycle}
                        listed == ListedIn("UPCOMING", today)
                                      \cup TodayCycles(today).overdue
                    IN  Position(m, "ALL", 0).summary =
                            SummaryOf(m, loose \cup UNION {InCycle(c) : c \in listed})
  BY DEF PositionIsListed
<1> DEFINE loose  == {i \in Ids : obligations[i].cycle = NoCycle}
           listed == ListedIn("UPCOMING", today) \cup TodayCycles(today).overdue
           shown  == loose \cup UNION {InCycle(c) : c \in listed}
           open   == OpenIds(obligations, Ids)
<1>1. shown \in SUBSET Ids
  BY DEF InCycle
<1>2. open \in SUBSET shown
  <2> SUFFICES ASSUME NEW i \in Ids, IsOpen(obligations[i]),
                      obligations[i].cycle # NoCycle
               PROVE  i \in UNION {InCycle(c) : c \in listed}
    BY DEF OpenIds
  <2>1. obligations[i].cycle \in listed
    BY OpenIsListed
  <2>2. i \in InCycle(obligations[i].cycle)
    BY DEF InCycle
  <2> HIDE DEF listed
  <2> QED
    BY <2>1, <2>2
<1>3. \A i \in shown : IsOpen(obligations[i]) => i \in open
  BY <1>1 DEF OpenIds
<1> HIDE DEF shown, open
<1>4. ASSUME NEW direction
      PROVE  Remaining(SeenAs(direction, m, shown)) = Remaining(SeenAs(direction, m, open))
  <2>1. /\ SeenAs(direction, m, shown) \in SUBSET Ids
        /\ SeenAs(direction, m, open) \in SUBSET SeenAs(direction, m, shown)
        /\ \A i \in SeenAs(direction, m, shown) :
               IsOpen(obligations[i]) => i \in SeenAs(direction, m, open)
    BY <1>1, <1>2, <1>3 DEF SeenAs
  <2> QED
    BY <2>1, RemainingOfOpen
<1>5. Position(m, "ALL", 0).summary
          = PositionSummary(Remaining(SeenAs("PAYABLE", m, open)),
                            Remaining(SeenAs("RECEIVABLE", m, open)))
  BY Zenon DEF Position, PositionRead, open
<1>6. SummaryOf(m, shown) = PositionSummary(Remaining(SeenAs("PAYABLE", m, shown)),
                                            Remaining(SeenAs("RECEIVABLE", m, shown)))
  BY Zenon DEF SummaryOf
<1>7. Position(m, "ALL", 0).summary = SummaryOf(m, shown)
  BY <1>4, <1>5, <1>6
<1> QED
  BY <1>7 DEF shown

-----------------------------------------------------------------------------
(***************************************************************************)
(* What has been discharged of an obligation: what was recognized less     *)
(* what remains.  Outside of the finalized cycles it is what the           *)
(* resolutions that count took of it.                                      *)
(***************************************************************************)
Discharged(o) == o.recognized - o.remaining

LEMMA DischargedBy ==
    ASSUME NEW o \in ObligationType, NEW r \in Int, NEW n \in Int
    PROVE  /\ Discharged(Reconciled(o, r)) = Discharged(o)
           /\ Discharged(ResolutionReversed(o, r, n)) = Discharged(o) - n
           /\ Discharged(Settle(o, n)) = Discharged(o) + n
           /\ Discharged(Waive(o, n)) = Discharged(o) + n
<1>1. o.recognized \in Int /\ o.remaining \in Int
  BY MoneyAssumption DEF ObligationType
<1>2. /\ Reconciled(o, r).recognized = (o.recognized - o.remaining) + r
      /\ Reconciled(o, r).remaining = r
  BY DEF Reconciled, ObligationType
<1>3. /\ ResolutionReversed(o, r, n).recognized
             = ((o.recognized - o.remaining) - n) + r
      /\ ResolutionReversed(o, r, n).remaining = r
  BY DEF ResolutionReversed, ObligationType
<1>4. /\ Settle(o, n).recognized = o.recognized
      /\ Settle(o, n).remaining = o.remaining - n
      /\ Waive(o, n).recognized = o.recognized
      /\ Waive(o, n).remaining = o.remaining - n
  BY DEF Settle, Waive, ObligationType
<1> QED
  BY <1>1, <1>2, <1>3, <1>4 DEF Discharged

\* Nothing has been discharged of a new obligation.
LEMMA NewIsUndischarged ==
    ASSUME NEW source, NEW fact, NEW difference, IsMoney(Abs(difference)), NEW cycle
    PROVE  Discharged(NewObligation(source, fact, difference, cycle)) = 0
<1>1. Abs(difference) \in Int
  BY MoneyAssumption DEF IsMoney
<1> QED
  BY <1>1 DEF Discharged, NewObligation

\* What is discharged of an obligation there was, and of a new one, after a step that
\* resolves nothing.
DischargedAsBefore ==
    \A i \in DOMAIN obligations' :
        Discharged(obligations'[i]) = IF i \in Ids THEN Discharged(obligations[i]) ELSE 0

LEMMA AppendDischarges ==
    ASSUME Inv, NEW kept, DOMAIN kept = Ids, NEW new, Discharged(new) = 0,
           \A i \in Ids : Discharged(kept[i]) = Discharged(obligations[i]),
           kept \in Seq(ObligationType), new \in ObligationType,
           obligations' = kept \/ obligations' = Append(kept, new)
    PROVE  DischargedAsBefore
<1>1. CASE obligations' = kept
  BY <1>1 DEF DischargedAsBefore
<1>2. CASE obligations' = Append(kept, new)
  <2> DEFINE n == Len(kept) + 1
  <2>1. /\ DOMAIN obligations' = Ids \cup {n}
        /\ n \notin Ids
        /\ \A i \in Ids : obligations'[i] = kept[i]
        /\ obligations'[n] = new
    BY <1>2
  <2> HIDE DEF n
  <2> QED
    BY <2>1 DEF DischargedAsBefore
<1> QED
  BY <1>1, <1>2

LEMMA ReconcileDischarges ==
    ASSUME Inv, NEW s \in Origins, NEW due, NEW fact \in Nat,
           NEW selection \in Selections, Reconcile(s, due, fact, selection)
    PROVE  DischargedAsBefore
<1> DEFINE ids     == IdsOf(s)
           reused  == Found(Reused(obligations, ids, due, Finalized))
           changed == ChangedIds(obligations, ids, reused, due)
           kept    == [i \in Ids |->
                          IF i \in changed
                          THEN Reconciled(obligations[i],
                                          Remainder(i, reused, due))
                          ELSE obligations[i]]
           new     == NewObligation(s, fact, due, selection)
<1>1. /\ IsMoney(Abs(due))
      /\ \A i \in changed : IsMoney(kept[i].recognized)
      /\ obligations' = kept \/ obligations' = Append(kept, new)
  BY DEF Reconcile
<1>2. \A i : Remainder(i, reused, due) \in 0 .. MaxMoney
  BY <1>1, MoneyAssumption DEF Remainder, IsMoney
<1>3. ASSUME NEW i \in Ids
      PROVE  kept[i] \in ObligationType /\ Discharged(kept[i]) = Discharged(obligations[i])
  <2>1. obligations[i] \in ObligationType /\ Bounded(obligations[i])
    BY ObligationsType DEF Inv
  <2>2. CASE i \in changed
    <3>1. kept[i] = Reconciled(obligations[i], Remainder(i, reused, due))
      BY <2>2
    <3>2. IsMoney(Reconciled(obligations[i], Remainder(i, reused, due)).recognized)
      BY <1>1, <2>2, <3>1
    <3> HIDE DEF kept, reused
    <3>3. kept[i] \in ObligationType
      BY <1>2, <2>1, <3>1, <3>2, ReconciledType
    <3>4. Remainder(i, reused, due) \in Int /\ 0 \in Int
      BY <1>2
    <3>5. Discharged(kept[i]) = Discharged(obligations[i])
      BY <2>1, <3>1, <3>4, DischargedBy
    <3> QED
      BY <3>3, <3>5
  <2>3. CASE i \notin changed
    <3>1. kept[i] = obligations[i]
      BY <2>3
    <3> QED
      BY <2>1, <3>1
  <2> QED
    BY <2>2, <2>3
<1>4. new \in ObligationType /\ Discharged(new) = 0
  BY <1>1, NewObligationType, NewIsUndischarged
<1>5. DOMAIN kept = Ids
  OBVIOUS
<1>6. kept = [i \in Ids |-> kept[i]]
  OBVIOUS
<1> HIDE DEF kept, new
<1>7. kept \in Seq(ObligationType)
  BY <1>3, <1>6, ObligationsType DEF Inv
<1> QED
  BY <1>1, <1>3, <1>4, <1>5, <1>7, AppendDischarges

LEMMA AgreeDischarges ==
    ASSUME Inv, NEW s \in Agreements, NEW difference, Agree(s, difference),
           IsMoney(Abs(difference))
    PROVE  DischargedAsBefore
<1> DEFINE new == NewObligation(s, 0, difference, NoCycle)
<1>1. obligations' = Append(obligations, new)
  BY DEF Agree
<1>2. new \in ObligationType /\ Discharged(new) = 0
  BY NewObligationType, NewIsUndischarged DEF Selections
<1>3. DOMAIN obligations = Ids /\ obligations \in Seq(ObligationType)
  BY DEF Ids, Inv, TypeOK
<1> HIDE DEF new
<1> QED
  BY <1>1, <1>2, <1>3, AppendDischarges

LEMMA MoveDischarges ==
    ASSUME Inv, NEW i \in Ids, NEW c \in Selections, MoveObligation(i, c)
    PROVE  DischargedAsBefore
<1>1. obligations' = [obligations EXCEPT ![i].cycle = c]
  BY DEF MoveObligation
<1>2. \A j \in Ids : obligations[j] \in ObligationType
  BY ObligationsType DEF Inv
<1>3. /\ DOMAIN obligations' = Ids
      /\ obligations'[i] = [obligations[i] EXCEPT !.cycle = c]
      /\ \A j \in Ids : j # i => obligations'[j] = obligations[j]
  BY <1>1, <1>2 DEF Ids
<1>4. Discharged(obligations'[i]) = Discharged(obligations[i])
  BY <1>2, <1>3 DEF Discharged, ObligationType
<1>5. \A j \in Ids : Discharged(obligations'[j]) = Discharged(obligations[j])
  BY <1>3, <1>4
<1> QED
  BY <1>3, <1>5 DEF DischargedAsBefore

-----------------------------------------------------------------------------
\* What a resolution took of an obligation, and what those that count did.
AmountIn(r, i)   == IF i \in DOMAIN r.parts THEN r.parts[i].amount ELSE 0
TakenFrom(rs, i) == SumFunction([k \in Live(rs) |-> AmountIn(rs[k], i)])

DischargesTell ==
    \A i \in Ids : obligations[i].cycle \notin Finalized =>
                       Discharged(obligations[i]) = TakenFrom(resolutions, i)

WaiversStand ==
    \A k \in DOMAIN resolutions : resolutions[k].kind = "WAIVER"
                                      => ~ resolutions[k].reversed

DischargeInv == DischargesTell /\ WaiversStand

LEMMA AmountInType ==
    ASSUME Inv
    PROVE  /\ IsFiniteSet(DOMAIN resolutions)
           /\ \A k \in DOMAIN resolutions : \A i :
                  /\ AmountIn(resolutions[k], i) \in Nat
                  /\ i \notin Ids => AmountIn(resolutions[k], i) = 0
                  /\ i \in Ids => AmountIn(resolutions[k], i) = ReversedAmounts(k)[i]
<1>1. IsFiniteSet(DOMAIN resolutions)
  BY ResolvedType
<1>2. ASSUME NEW k \in DOMAIN resolutions, NEW i
      PROVE  /\ AmountIn(resolutions[k], i) \in Nat
             /\ i \notin Ids => AmountIn(resolutions[k], i) = 0
             /\ i \in Ids => AmountIn(resolutions[k], i) = ReversedAmounts(k)[i]
  <2>1. Amounts \subseteq Nat
    BY DEF Amounts
  <2>2. /\ DOMAIN resolutions[k].parts \subseteq Ids
        /\ \A j \in DOMAIN resolutions[k].parts : resolutions[k].parts[j].amount \in Nat
    BY <2>1, ResolutionParts
  <2> QED
    BY <2>2 DEF AmountIn, ReversedAmounts
<1> QED
  BY <1>1, <1>2

\* One resolution that counts, and the others.
LEMMA TakenOfOthers ==
    ASSUME NEW rs, NEW ss, NEW k, NEW i, IsFiniteSet(DOMAIN ss),
           k \in Live(ss), Live(rs) = Live(ss) \ {k},
           \A j \in Live(rs) : AmountIn(ss[j], i) = AmountIn(rs[j], i),
           \A j \in Live(ss) : AmountIn(ss[j], i) \in Int
    PROVE  /\ TakenFrom(ss, i) = AmountIn(ss[k], i) + TakenFrom(rs, i)
           /\ TakenFrom(rs, i) \in Int
<1> DEFINE f == [j \in Live(ss) |-> AmountIn(ss[j], i)]
           g == [j \in Live(rs) |-> AmountIn(rs[j], i)]
<1>1. IsFiniteSet(Live(ss)) /\ IsFiniteSet(Live(rs))
  BY FS_Subset DEF Live
<1>2. \A j \in Live(ss) : f[j] \in Int
  OBVIOUS
<1>3. TakenFrom(ss, i) = SumFunctionOnSet(f, Live(ss))
  BY Zenon DEF TakenFrom, SumFunction
<1>4. TakenFrom(rs, i) = SumFunctionOnSet(g, Live(rs))
  BY Zenon DEF TakenFrom, SumFunction
<1>5. \A j \in Live(rs) : f[j] = g[j]
  OBVIOUS
<1>6. f[k] = AmountIn(ss[k], i)
  OBVIOUS
<1> HIDE DEF f, g
<1>7. SumFunctionOnSet(f, Live(ss)) = f[k] + SumFunctionOnSet(f, Live(ss) \ {k})
  BY <1>1, <1>2, SumOfOthers
<1>8. SumFunctionOnSet(f, Live(rs)) = SumFunctionOnSet(g, Live(rs))
  BY <1>1, <1>5, SumOfSame
<1>9. SumFunctionOnSet(f, Live(rs)) \in Int
  BY <1>1, <1>2, SumIsInt
<1> QED
  BY <1>3, <1>4, <1>6, <1>7, <1>8, <1>9

LEMMA TakenIsInt ==
    ASSUME Inv, NEW i
    PROVE  /\ TakenFrom(resolutions, i) \in Int
           /\ i \notin Ids => TakenFrom(resolutions, i) = 0
<1> DEFINE f == [k \in Live(resolutions) |-> AmountIn(resolutions[k], i)]
<1>1. Live(resolutions) \subseteq DOMAIN resolutions
  BY DEF Live
<1>2. IsFiniteSet(Live(resolutions))
  BY <1>1, AmountInType, FS_Subset
<1>3. \A k \in Live(resolutions) : f[k] \in Int /\ (i \notin Ids => f[k] \in {0})
  BY <1>1, AmountInType
<1>4. TakenFrom(resolutions, i) = SumFunctionOnSet(f, Live(resolutions))
  BY Zenon DEF TakenFrom, SumFunction
<1> HIDE DEF f
<1>5. SumFunctionOnSet(f, Live(resolutions)) \in Int
  BY <1>2, <1>3, SumIsInt
<1>6. i \notin Ids => SumFunctionOnSet(f, Live(resolutions)) \in {0}
  <2>1. {0} \subseteq Int /\ \A a, b \in {0} : a + b \in {0}
    OBVIOUS
  <2> QED
    BY <1>2, <1>3, <2>1, SumIsIn
<1> QED
  BY <1>4, <1>5, <1>6

\* What resolves nothing of the obligations leaves what was taken of them.
LEMMA NothingTaken ==
    ASSUME Inv, NEW i, UNCHANGED resolutions
    PROVE  TakenFrom(resolutions, i)' = TakenFrom(resolutions, i)
BY Zenon DEF TakenFrom, Live, AmountIn

LEMMA MoreTaken ==
    ASSUME Inv, NEW r, ~ r.reversed, NEW i, AmountIn(r, i) \in Int,
           resolutions' = Append(resolutions, r)
    PROVE  TakenFrom(resolutions, i)' = TakenFrom(resolutions, i) + AmountIn(r, i)
<1> DEFINE n  == Len(resolutions) + 1
           ss == resolutions'
<1>1. /\ DOMAIN ss = DOMAIN resolutions \cup {n}
      /\ n \notin DOMAIN resolutions
      /\ ss[n] = r
      /\ \A k \in DOMAIN resolutions : ss[k] = resolutions[k]
  <2>1. resolutions \in Seq(ResolutionType(Ids))
    BY DEF Inv, TypeOK
  <2> QED
    BY <2>1
<1> HIDE DEF n
<1>2. IsFiniteSet(DOMAIN ss)
  BY <1>1, AmountInType, FS_AddElement
<1>3. n \in Live(ss) /\ Live(resolutions) = Live(ss) \ {n}
  BY <1>1 DEF Live
<1>4. /\ \A j \in Live(resolutions) : AmountIn(ss[j], i) = AmountIn(resolutions[j], i)
      /\ \A j \in Live(ss) : AmountIn(ss[j], i) \in Int
  BY <1>1, AmountInType DEF Live
<1>5. TakenFrom(resolutions, i)' = TakenFrom(ss, i)
  BY Zenon DEF TakenFrom, Live, AmountIn
<1> HIDE DEF ss
<1>6. /\ TakenFrom(ss, i) = AmountIn(ss[n], i) + TakenFrom(resolutions, i)
      /\ TakenFrom(resolutions, i) \in Int
  BY <1>2, <1>3, <1>4, TakenOfOthers
<1> QED
  BY <1>1, <1>5, <1>6

LEMMA LessTaken ==
    ASSUME Inv, NEW k \in DOMAIN resolutions, ~ resolutions[k].reversed, NEW i,
           resolutions' = [resolutions EXCEPT ![k].reversed = TRUE]
    PROVE  /\ TakenFrom(resolutions, i)
                  = TakenFrom(resolutions, i)' + AmountIn(resolutions[k], i)
           /\ TakenFrom(resolutions, i)' \in Int
<1> DEFINE rs == resolutions'
<1>1. /\ DOMAIN rs = DOMAIN resolutions
      /\ rs[k].reversed
      /\ \A j \in DOMAIN resolutions : /\ j # k => rs[j] = resolutions[j]
                                       /\ rs[j].parts = resolutions[j].parts
  <2>1. resolutions[k] \in ResolutionType(Ids)
    BY DEF Inv, TypeOK
  <2>2. /\ [resolutions[k] EXCEPT !.reversed = TRUE].reversed
        /\ [resolutions[k] EXCEPT !.reversed = TRUE].parts = resolutions[k].parts
    BY <2>1 DEF ResolutionType
  <2>3. rs = [resolutions EXCEPT ![k] = [resolutions[k] EXCEPT !.reversed = TRUE]]
    OBVIOUS
  <2> QED
    BY <2>2, <2>3
<1>2. k \in Live(resolutions) /\ Live(rs) = Live(resolutions) \ {k}
  BY <1>1 DEF Live
<1>3. /\ \A j \in Live(rs) : AmountIn(resolutions[j], i) = AmountIn(rs[j], i)
      /\ \A j \in Live(resolutions) : AmountIn(resolutions[j], i) \in Int
      /\ IsFiniteSet(DOMAIN resolutions)
      /\ AmountIn(resolutions[k], i) \in Int
  BY <1>1, AmountInType DEF Live
<1>4. TakenFrom(resolutions, i)' = TakenFrom(rs, i)
  BY Zenon DEF TakenFrom, Live, AmountIn
<1> HIDE DEF rs
<1>5. /\ TakenFrom(resolutions, i) = AmountIn(resolutions[k], i) + TakenFrom(rs, i)
      /\ TakenFrom(rs, i) \in Int
  BY <1>2, <1>3, TakenOfOthers
<1> QED
  BY <1>3, <1>4, <1>5

-----------------------------------------------------------------------------
\* What is in a finalized cycle stays in it.
LEMMA StaysFinalized ==
    ASSUME Inv, [Next]_vars, NEW i \in Ids, obligations[i].cycle \in Finalized
    PROVE  obligations'[i].cycle \in Finalized'
<1> DEFINE c == obligations[i].cycle
<1>1. c \in Cycles /\ cycles[c] = "FINALIZED"
  BY DEF Finalized
<1>2. obligations'[i] = obligations[i] /\ cycles'[c] = "FINALIZED"
  <2>1. CASE Writes
    BY <1>1, <2>1 DEF Writes
  <2>2. CASE UNCHANGED obligations /\ \A d \in Finalized : cycles'[d] = "FINALIZED"
    BY <2>2
  <2> QED
    BY <2>1, <2>2, InvStep
<1> QED
  BY <1>1, <1>2 DEF Finalized

\* A step that resolves nothing.
LEMMA QuietStep ==
    ASSUME Inv, [Next]_vars, DischargeInv, DischargedAsBefore, UNCHANGED resolutions
    PROVE  DischargeInv'
<1>1. ASSUME NEW i \in DOMAIN obligations', obligations'[i].cycle \notin Finalized'
      PROVE  Discharged(obligations'[i]) = TakenFrom(resolutions, i)'
  <2>1. TakenFrom(resolutions, i)' = TakenFrom(resolutions, i)
    BY NothingTaken
  <2>2. CASE i \in Ids
    <3>1. obligations[i].cycle \notin Finalized
      BY <1>1, <2>2, StaysFinalized
    <3> QED
      BY <2>1, <2>2, <3>1 DEF DischargeInv, DischargesTell, DischargedAsBefore
  <2>3. CASE i \notin Ids
    BY <2>1, <2>3, TakenIsInt DEF DischargedAsBefore
  <2> QED
    BY <2>2, <2>3
<1>2. DischargesTell'
  BY <1>1 DEF DischargesTell, Discharged, Ids
<1>3. WaiversStand'
  BY DEF DischargeInv, WaiversStand
<1> QED
  BY <1>2, <1>3 DEF DischargeInv

\* A resolution that discharges what it takes.
LEMMA ResolvingStep ==
    ASSUME Inv, [Next]_vars, DischargeInv, NEW r, ~ r.reversed,
           resolutions' = Append(resolutions, r), DOMAIN obligations' = Ids,
           \A i \in Ids : /\ AmountIn(r, i) \in Int
                          /\ Discharged(obligations'[i])
                                 = Discharged(obligations[i]) + AmountIn(r, i)
    PROVE  DischargeInv'
<1>1. ASSUME NEW i \in Ids, obligations'[i].cycle \notin Finalized'
      PROVE  Discharged(obligations'[i]) = TakenFrom(resolutions, i)'
  <2>1. TakenFrom(resolutions, i)' = TakenFrom(resolutions, i) + AmountIn(r, i)
    BY MoreTaken
  <2>2. obligations[i].cycle \notin Finalized
    BY <1>1, StaysFinalized
  <2> QED
    BY <2>1, <2>2 DEF DischargeInv, DischargesTell
<1>2. DischargesTell'
  BY <1>1 DEF DischargesTell, Discharged, Ids
<1>3. WaiversStand'
  <2>1. resolutions \in Seq(ResolutionType(Ids))
    BY DEF Inv, TypeOK
  <2>2. \A k \in DOMAIN resolutions' : \/ resolutions'[k] = r
                                       \/ /\ k \in DOMAIN resolutions
                                          /\ resolutions'[k] = resolutions[k]
    BY <2>1
  <2> QED
    BY <2>2 DEF DischargeInv, WaiversStand
<1> QED
  BY <1>2, <1>3 DEF DischargeInv

LEMMA SettlingDischarges ==
    ASSUME Inv, [Next]_vars, DischargeInv,
           NEW S \in SUBSET Ids, NEW amounts \in [S -> Amounts], NEW kind,
           obligations' = Settled(amounts), Resolve(kind, amounts)
    PROVE  DischargeInv'
<1> DEFINE r == [kind     |-> kind,
                 parts    |-> [i \in DOMAIN amounts |->
                                  [amount |-> amounts[i],
                                   cycle  |-> obligations[i].cycle]],
                 reversed |-> FALSE]
<1>1. /\ resolutions' = Append(resolutions, r)
      /\ ~ r.reversed
      /\ \A i : AmountIn(r, i) = IF i \in S THEN amounts[i] ELSE 0
  BY DEF Resolve, AmountIn
<1> HIDE DEF r
<1>2. obligations' = [i \in Ids |-> IF i \in S THEN Settle(obligations[i], amounts[i])
                                    ELSE obligations[i]]
  BY DEF Settled
<1>3. \A n \in Amounts : n \in Int
  BY DEF Amounts
<1>4. ASSUME NEW i \in Ids
      PROVE  /\ AmountIn(r, i) \in Int
             /\ Discharged(obligations'[i]) = Discharged(obligations[i]) + AmountIn(r, i)
  <2>1. obligations[i] \in ObligationType /\ Discharged(obligations[i]) \in Int
    BY ObligationsType, AmountsType DEF Inv, Discharged
  <2>2. CASE i \in S
    <3>1. obligations'[i] = Settle(obligations[i], amounts[i]) /\ amounts[i] \in Int
      BY <1>2, <1>3, <2>2
    <3>2. Discharged(Settle(obligations[i], amounts[i]))
              = Discharged(obligations[i]) + amounts[i]
      BY <2>1, <3>1, DischargedBy
    <3> QED
      BY <1>1, <2>2, <3>1, <3>2
  <2>3. CASE i \notin S
    BY <1>1, <1>2, <2>1, <2>3
  <2> QED
    BY <2>2, <2>3
<1>5. DOMAIN obligations' = Ids
  BY <1>2
<1> QED
  BY <1>1, <1>4, <1>5, ResolvingStep

LEMMA WaivingDischarges ==
    ASSUME Inv, [Next]_vars, DischargeInv,
           NEW creditor, NEW i \in Ids, NEW n \in Amounts, WaiveObligation(creditor, i, n)
    PROVE  DischargeInv'
<1> DEFINE amounts == [j \in {i} |-> n]
           r == [kind     |-> "WAIVER",
                 parts    |-> [j \in DOMAIN amounts |->
                                  [amount |-> amounts[j],
                                   cycle  |-> obligations[j].cycle]],
                 reversed |-> FALSE]
<1>1. /\ resolutions' = Append(resolutions, r)
      /\ ~ r.reversed
      /\ \A j : AmountIn(r, j) = IF j = i THEN n ELSE 0
  BY DEF WaiveObligation, Resolve, AmountIn
<1> HIDE DEF r
<1>2. /\ DOMAIN obligations' = Ids
      /\ obligations'[i] = Waive(obligations[i], n)
      /\ \A j \in Ids \ {i} : obligations'[j] = obligations[j]
  <2>1. obligations' = [obligations EXCEPT ![i] = Waive(obligations[i], n)]
    BY DEF WaiveObligation
  <2> QED
    BY <2>1 DEF Ids
<1>3. n \in Int
  BY DEF Amounts
<1>4. \A j \in Ids : obligations[j] \in ObligationType /\ Discharged(obligations[j]) \in Int
  BY ObligationsType, AmountsType DEF Inv, Discharged
<1>5. Discharged(Waive(obligations[i], n)) = Discharged(obligations[i]) + n
  BY <1>3, <1>4, DischargedBy
<1>6. ASSUME NEW j \in Ids
      PROVE  /\ AmountIn(r, j) \in Int
             /\ Discharged(obligations'[j]) = Discharged(obligations[j]) + AmountIn(r, j)
  <2>1. CASE j = i
    BY <1>1, <1>2, <1>3, <1>5, <2>1
  <2>2. CASE j # i
    BY <1>1, <1>2, <1>4, <2>2
  <2> QED
    BY <2>1, <2>2
<1> QED
  BY <1>1, <1>2, <1>6, ResolvingStep

\* A sequence and what is appended to it.
LEMMA Appended ==
    ASSUME NEW l \in Nat, NEW m \in Nat, NEW s, NEW t,
           s = [x \in 1 .. l |-> s[x]], t = [x \in 1 .. m |-> t[x]]
    PROVE  /\ DOMAIN (s \o t) = 1 .. (l + m)
           /\ \A x \in 1 .. l : (s \o t)[x] = s[x]
           /\ \A x \in (l + 1) .. (l + m) : x - l \in 1 .. m /\ (s \o t)[x] = t[x - l]
<1> DEFINE R == {s[x] : x \in 1 .. l} \cup {t[x] : x \in 1 .. m}
<1>1. s \in Seq(R) /\ t \in Seq(R) /\ Len(s) = l /\ Len(t) = m
  <2>1. (\A x \in 1 .. l : s[x] \in R) /\ \A x \in 1 .. m : t[x] \in R
    OBVIOUS
  <2> HIDE DEF R
  <2> QED
    BY <2>1
<1> HIDE DEF R
<1>2. /\ s \o t \in Seq(R)
      /\ Len(s \o t) = l + m
      /\ \A x \in 1 .. l + m : (s \o t)[x] = IF x <= l THEN s[x] ELSE t[x - l]
  BY <1>1, ConcatProperties
<1> QED
  BY <1>2

\* A reversal takes back what the resolution took, where it still may.
LEMMA ReversalDischarges ==
    ASSUME Inv, NEW k \in DOMAIN resolutions, NEW correction \in Selections,
           ReverseSettlement(k, correction)
    PROVE  \A i \in DOMAIN obligations' :
               IF i \in Ids
               THEN obligations[i].cycle \notin Finalized =>
                        Discharged(obligations'[i])
                            = Discharged(obligations[i]) - ReversedAmounts(k)[i]
               ELSE Discharged(obligations'[i]) = 0
<1> DEFINE sources  == SourcesOf(k)
           plans    == [s \in sources |-> ReversalPlan(k, s, correction)]
           reversed == ReversedAmounts(k)
           created  == {s \in sources : plans[s].isNew}
           kept     == [i \in Ids |->
               LET s == obligations[i].source
               IN  IF s \in sources /\ i \in plans[s].changed
                   THEN ResolutionReversed(obligations[i],
                            Remainder(i, plans[s].reused, plans[s].net),
                            reversed[i])
                   ELSE obligations[i]]
<1>1. /\ \A s \in sources : IsMoney(Abs(plans[s].net))
      /\ \E q \in Bijection(1 .. Cardinality(created), created) :
             obligations' = kept \o
                 [n \in DOMAIN q |->
                     NewObligation(q[n], plans[q[n]].fact, plans[q[n]].net,
                                   plans[q[n]].cycle)]
  BY DEF ReverseSettlement, SourcesOf
<1>2. PICK q \in Bijection(1 .. Cardinality(created), created) :
          obligations' = kept \o
              [n \in DOMAIN q |->
                  NewObligation(q[n], plans[q[n]].fact, plans[q[n]].net,
                                plans[q[n]].cycle)]
  BY <1>1
<1> DEFINE m   == Cardinality(created)
           l   == Len(obligations)
           new == [n \in 1 .. m |->
                      NewObligation(q[n], plans[q[n]].fact, plans[q[n]].net,
                                    plans[q[n]].cycle)]
<1>3. q \in [1 .. m -> created] /\ created \subseteq sources
  BY DEF Bijection, Injection, IsInjective
<1>4. obligations' = kept \o new
  BY <1>2, <1>3
<1>5. IsFiniteSet(created)
  <2>1. created \subseteq sources
    BY <1>3
  <2> HIDE DEF created
  <2> QED
    BY <2>1, SourcesFinite, FS_Subset
<1>6. l \in Nat /\ Ids = 1 .. l /\ m \in Nat
  <2> HIDE DEF created
  <2> QED
    BY <1>5, FS_CardinalityType, ObligationsType DEF Inv
<1>7. ASSUME NEW x \in 1 .. m
      PROVE  Discharged(new[x]) = 0
  <2>1. q[x] \in sources
    BY <1>3
  <2>2. IsMoney(Abs(plans[q[x]].net))
    BY <1>1, <2>1
  <2>3. new[x] = NewObligation(q[x], plans[q[x]].fact, plans[q[x]].net, plans[q[x]].cycle)
    OBVIOUS
  <2> HIDE DEF new, plans, sources
  <2> QED
    BY <2>2, <2>3, NewIsUndischarged
<1>8. ASSUME NEW i \in Ids, obligations[i].cycle \notin Finalized
      PROVE  Discharged(kept[i]) = Discharged(obligations[i]) - reversed[i]
  <2> DEFINE s == obligations[i].source
             r == Remainder(i, plans[s].reused, plans[s].net)
  <2>1. obligations[i] \in ObligationType /\ Discharged(obligations[i]) \in Int
    BY ObligationsType, AmountsType DEF Inv, Discharged
  <2>2. reversed[i] \in Nat /\ (i \notin DOMAIN resolutions[k].parts => reversed[i] = 0)
    BY ResolutionParts
  <2>3. CASE s \in sources /\ i \in plans[s].changed
    <3>1. kept[i] = ResolutionReversed(obligations[i], r, reversed[i])
      BY <2>3
    <3>2. IsMoney(Abs(plans[s].net))
      BY <1>1, <2>3
    <3>3. r \in Int
      <4> HIDE DEF plans
      <4> QED
        BY <3>2, MoneyAssumption DEF IsMoney, Remainder
    <3> HIDE DEF kept, r, reversed
    <3> QED
      BY <2>1, <2>2, <3>1, <3>3, DischargedBy
  <2>4. CASE s \in sources /\ i \notin plans[s].changed
    <3>1. kept[i] = obligations[i]
      BY <2>4
    <3>2. i \in WritableIds(obligations, IdsOf(s), Finalized)
      BY <1>8 DEF WritableIds, IdsOf
    <3>3. ~ reversed[i] > 0
      BY <2>4, <3>2 DEF ReversalPlan
    <3> HIDE DEF kept, reversed
    <3> QED
      BY <2>1, <2>2, <3>1, <3>3
  <2>5. CASE s \notin sources
    <3>1. kept[i] = obligations[i]
      BY <2>5
    <3>2. i \notin DOMAIN resolutions[k].parts
      BY <2>5 DEF SourcesOf
    <3> HIDE DEF kept, reversed
    <3> QED
      BY <2>1, <2>2, <3>1, <3>2
  <2> QED
    BY <2>3, <2>4, <2>5
<1>9. kept = [x \in 1 .. l |-> kept[x]] /\ new = [x \in 1 .. m |-> new[x]]
  BY <1>6
<1> HIDE DEF kept, new, l, m, reversed
<1>10. /\ DOMAIN obligations' = 1 .. (l + m)
       /\ \A x \in 1 .. l : obligations'[x] = kept[x]
       /\ \A x \in (l + 1) .. (l + m) :
              x - l \in 1 .. m /\ obligations'[x] = new[x - l]
  BY <1>4, <1>6, <1>9, Appended
<1>11. \A x \in DOMAIN obligations' : x \in Ids \/ x \in (l + 1) .. (l + m)
  BY <1>6, <1>10
<1> QED
  BY <1>6, <1>7, <1>8, <1>10, <1>11 DEF reversed

LEMMA ReversingStep ==
    ASSUME Inv, [Next]_vars, DischargeInv,
           NEW k \in DOMAIN resolutions, NEW c \in Selections, ReverseSettlement(k, c)
    PROVE  DischargeInv'
<1>1. /\ resolutions[k].kind # "WAIVER"
      /\ ~ resolutions[k].reversed
      /\ resolutions' = [resolutions EXCEPT ![k].reversed = TRUE]
  BY DEF ReverseSettlement
<1>2. ASSUME NEW i \in DOMAIN obligations', obligations'[i].cycle \notin Finalized'
      PROVE  Discharged(obligations'[i]) = TakenFrom(resolutions, i)'
  <2> DEFINE a == AmountIn(resolutions[k], i)
             t == TakenFrom(resolutions, i)'
  <2>1. TakenFrom(resolutions, i) = t + a /\ a \in Nat /\ TakenFrom(resolutions, i) \in Int
    BY <1>1, LessTaken, AmountInType, TakenIsInt
  <2>2. t \in Int
    BY <1>1, LessTaken
  <2>3. CASE i \in Ids
    <3>1. obligations[i].cycle \notin Finalized
      BY <1>2, <2>3, StaysFinalized
    <3>2. Discharged(obligations'[i]) = Discharged(obligations[i]) - a
      <4>1. IF i \in Ids
            THEN obligations[i].cycle \notin Finalized =>
                     Discharged(obligations'[i])
                         = Discharged(obligations[i]) - ReversedAmounts(k)[i]
            ELSE Discharged(obligations'[i]) = 0
        BY ReversalDischarges
      <4>2. a = ReversedAmounts(k)[i]
        BY <2>3, AmountInType
      <4> QED
        BY <2>3, <3>1, <4>1, <4>2
    <3>3. Discharged(obligations[i]) = TakenFrom(resolutions, i)
      BY <2>3, <3>1 DEF DischargeInv, DischargesTell
    <3> QED
      BY <2>1, <2>2, <3>2, <3>3
  <2>4. CASE i \notin Ids
    <3>1. Discharged(obligations'[i]) = 0
      BY <2>4, ReversalDischarges
    <3>2. TakenFrom(resolutions, i) = 0 /\ a = 0
      BY <2>4, TakenIsInt, AmountInType
    <3> QED
      BY <2>1, <2>2, <3>1, <3>2
  <2> QED
    BY <2>3, <2>4
<1>3. DischargesTell'
  BY <1>2 DEF DischargesTell, Discharged, Ids
<1>4. WaiversStand'
  <2>1. resolutions[k] \in ResolutionType(Ids)
    BY DEF Inv, TypeOK
  <2>2. [resolutions[k] EXCEPT !.reversed = TRUE].kind = resolutions[k].kind
    BY <2>1 DEF ResolutionType
  <2>3. resolutions' = [resolutions EXCEPT ![k] = [resolutions[k] EXCEPT !.reversed = TRUE]]
    BY <1>1
  <2>4. /\ DOMAIN resolutions' = DOMAIN resolutions
        /\ resolutions'[k].kind = resolutions[k].kind
        /\ \A j \in DOMAIN resolutions : j # k => resolutions'[j] = resolutions[j]
    BY <2>2, <2>3
  <2> QED
    BY <1>1, <2>4 DEF DischargeInv, WaiversStand
<1> QED
  BY <1>3, <1>4 DEF DischargeInv

LEMMA DischargeInit ==
    ASSUME Init
    PROVE  DischargeInv
BY DEF Init, DischargeInv, DischargesTell, WaiversStand, Ids

LEMMA DischargeStep ==
    ASSUME Inv, DischargeInv, [Next]_vars
    PROVE  DischargeInv'
<1>1. ASSUME DischargedAsBefore, UNCHANGED resolutions
      PROVE  DischargeInv'
  BY <1>1, QuietStep
<1>2. ASSUME UNCHANGED obligations
      PROVE  DischargedAsBefore
  BY <1>2 DEF DischargedAsBefore, Ids
<1>3. ASSUME UNCHANGED vars
      PROVE  DischargeInv'
  BY <1>1, <1>2, <1>3 DEF vars
<1>4. ASSUME NEW s \in Origins, NEW c \in Selections, NEW m \in Parties,
             NEW n \in Amounts, RecordFact(s, m, n, c)
      PROVE  DischargeInv'
  <2> DEFINE fs == Append(facts[s], [payer |-> m, amount |-> n, reversed |-> 0])
  <2>1. /\ Reconcile(s, Difference(s, shares[s], fs, HasReversals(fs)), Len(fs), c)
        /\ UNCHANGED resolutions
    BY <1>4 DEF RecordFact
  <2>2. Len(fs) \in Nat
    BY DEF Inv, TypeOK
  <2> HIDE DEF fs
  <2> QED
    BY <1>1, <2>1, <2>2, ReconcileDischarges
<1>5. ASSUME NEW s \in Origins, NEW c \in Selections, NEW f \in DOMAIN facts[s],
             NEW n \in Amounts, ReverseFact(s, f, n, c)
      PROVE  DischargeInv'
  <2> DEFINE fs == [facts[s] EXCEPT ![f].reversed = @ + n]
  <2>1. Reconcile(s, Difference(s, shares[s], fs, TRUE), f, c) /\ UNCHANGED resolutions
    BY <1>5 DEF ReverseFact
  <2>2. f \in Nat
    BY DEF Inv, TypeOK
  <2> HIDE DEF fs
  <2> QED
    BY <1>1, <2>1, <2>2, ReconcileDischarges
<1>6. ASSUME NEW s \in Origins, NEW c \in Selections, NEW sh \in Adjusted,
             Adjust(s, sh, c)
      PROVE  DischargeInv'
  <2>1. UNCHANGED resolutions
    BY <1>6 DEF Adjust
  <2>2. CASE UNCHANGED <<obligations, cycles>>
    BY <1>1, <1>2, <2>1, <2>2
  <2>3. CASE \E f \in LastValid(facts[s]) :
                 Reconcile(s, Difference(s, sh, facts[s],
                                         HasReversals(facts[s])), f, c)
    <3>1. LastValid(facts[s]) \subseteq Nat
      BY DEF Inv, TypeOK, LastValid
    <3> QED
      BY <1>1, <2>1, <2>3, <3>1, ReconcileDischarges
  <2> QED
    BY <1>6, <2>2, <2>3 DEF Adjust
<1>7. ASSUME NEW s \in Agreements, NEW n \in Amounts, Agree(s, n) \/ Agree(s, -n)
      PROVE  DischargeInv'
  <2>1. n \in Nat /\ n > 0 /\ n \in 0 .. MaxMoney
    BY MoneyAssumption DEF Amounts
  <2>2. IsMoney(Abs(n)) /\ IsMoney(Abs(-n))
    BY <2>1 DEF Abs, IsMoney
  <2>3. DischargedAsBefore
    BY <1>7, <2>2, AgreeDischarges
  <2>4. UNCHANGED resolutions
    BY <1>7 DEF Agree
  <2> QED
    BY <1>1, <2>3, <2>4
<1>8. ASSUME ResolutionStep
      PROVE  DischargeInv'
  <2>1. PICK S \in SUBSET OpenIds(obligations, Ids) :
            \E amounts \in [S -> Amounts] :
                (\E m \in Parties : Transfer(m, amounts)) \/ Offset(amounts)
    BY <1>8 DEF ResolutionStep
  <2>2. S \in SUBSET Ids
    BY DEF OpenIds
  <2>3. PICK amounts \in [S -> Amounts] :
            (\E m \in Parties : Transfer(m, amounts)) \/ Offset(amounts)
    BY <2>1
  <2>4. \E kind : obligations' = Settled(amounts) /\ Resolve(kind, amounts)
    BY <2>3 DEF Transfer, Offset
  <2> QED
    BY <2>2, <2>4, SettlingDischarges
<1>9. ASSUME NEW m \in Parties, NEW i \in Ids, NEW n \in Amounts, WaiveObligation(m, i, n)
      PROVE  DischargeInv'
  BY <1>9, WaivingDischarges
<1>10. ASSUME NEW i \in Ids, NEW c \in Selections, MoveObligation(i, c)
       PROVE  DischargeInv'
  <2>1. UNCHANGED resolutions
    BY <1>10 DEF MoveObligation
  <2> QED
    BY <1>1, <1>10, <2>1, MoveDischarges
<1>11. ASSUME NEW c \in Cycles, FinalizeCycle(c)
       PROVE  DischargeInv'
  BY <1>1, <1>2, <1>11 DEF FinalizeCycle
<1>12. ASSUME NEW k \in DOMAIN resolutions, NEW c \in Selections, ReverseSettlement(k, c)
       PROVE  DischargeInv'
  BY <1>12, ReversingStep
<1> QED
  BY <1>3, <1>4, <1>5, <1>6, <1>7, <1>8, <1>9, <1>10, <1>11, <1>12 DEF Next, ExpenseStep

\* What is discharged of an obligation is told by its resolutions.
THEOREM DischargesAreTold == Spec => []DischargeInv
<1>1. Inv /\ DischargeInv /\ [Next]_vars => DischargeInv'
  BY DischargeStep
<1> QED
  BY DischargeInit, <1>1, Invariant, PTL DEF Spec

-----------------------------------------------------------------------------
\* What each resolution took of an obligation, and the resolutions of a kind that
\* still stand.
TakenBy(i) == [k \in DOMAIN resolutions |-> AmountIn(resolutions[k], i)]
Standing(kind, i) == {k \in Of(kind, i) : ~ resolutions[k].reversed}
Undone(kind, i)   == {k \in Of(kind, i) : resolutions[k].reversed}

LEMMA TakenByType ==
    ASSUME Inv, NEW kind, NEW i
    PROVE  /\ IsFiniteSet(Of(kind, i)) /\ Of(kind, i) \subseteq DOMAIN resolutions
           /\ IsFiniteSet(Standing(kind, i)) /\ IsFiniteSet(Undone(kind, i))
           /\ \A k \in DOMAIN resolutions : TakenBy(i)[k] \in Nat
           /\ \A k \in Of(kind, i) : TakenBy(i)[k] = resolutions[k].parts[i].amount
<1>1. IsFiniteSet(DOMAIN resolutions)
  BY AmountInType
<1>2. Of(kind, i) \subseteq DOMAIN resolutions
  BY DEF Of, OfKind
<1>3. Standing(kind, i) \subseteq Of(kind, i) /\ Undone(kind, i) \subseteq Of(kind, i)
  BY DEF Standing, Undone
<1>4. IsFiniteSet(Of(kind, i))
  BY <1>1, <1>2, FS_Subset
<1>5. IsFiniteSet(Standing(kind, i)) /\ IsFiniteSet(Undone(kind, i))
  BY <1>3, <1>4, FS_Subset
<1>6. \A k \in DOMAIN resolutions : TakenBy(i)[k] \in Nat
  BY AmountInType DEF TakenBy
<1>7. \A k \in Of(kind, i) : TakenBy(i)[k] = resolutions[k].parts[i].amount
  BY DEF TakenBy, Of, OfKind, AmountIn
<1> QED
  BY <1>2, <1>4, <1>5, <1>6, <1>7

\* What a kind of resolution has of an obligation is what those that stand took.
LEMMA AppliedStands ==
    ASSUME Inv, NEW kind, NEW i
    PROVE  /\ Applied(kind, i) = SumFunctionOnSet(TakenBy(i), Of(kind, i))
           /\ Applied(kind, i) - Reversed(kind, i)
                  = SumFunctionOnSet(TakenBy(i), Standing(kind, i))
           /\ SumFunctionOnSet(TakenBy(i), Standing(kind, i)) \in Int
           /\ Applied(kind, i) \in Int
<1> DEFINE e == [k \in Of(kind, i) |-> resolutions[k].parts[i].amount]
           d == [k \in Undone(kind, i) |-> resolutions[k].parts[i].amount]
<1>1. Applied(kind, i) = SumFunctionOnSet(TakenBy(i), Of(kind, i))
  <2>1. Applied(kind, i) = SumFunction(e)
    BY Zenon DEF Applied
  <2>2. DOMAIN e = Of(kind, i) /\ \A k \in Of(kind, i) : e[k] = TakenBy(i)[k]
    BY TakenByType
  <2> HIDE DEF e
  <2> QED
    BY <2>1, <2>2, TakenByType, TotalOver
<1>2. Reversed(kind, i) = SumFunctionOnSet(TakenBy(i), Undone(kind, i))
  <2>1. Reversed(kind, i) = SumFunction(d)
    BY Zenon DEF Reversed, Undone
  <2>2. Undone(kind, i) \subseteq Of(kind, i)
    BY DEF Undone
  <2>3. DOMAIN d = Undone(kind, i) /\ \A k \in Undone(kind, i) : d[k] = TakenBy(i)[k]
    BY <2>2, TakenByType
  <2> HIDE DEF d
  <2> QED
    BY <2>1, <2>3, TakenByType, TotalOver
<1>3. /\ Of(kind, i) = Standing(kind, i) \cup Undone(kind, i)
      /\ Standing(kind, i) \cap Undone(kind, i) = {}
  BY DEF Standing, Undone
<1>4. \A k \in Of(kind, i) : TakenBy(i)[k] \in Int
  BY TakenByType
<1>5. /\ SumFunctionOnSet(TakenBy(i), Of(kind, i))
             = SumFunctionOnSet(TakenBy(i), Standing(kind, i))
                   + SumFunctionOnSet(TakenBy(i), Undone(kind, i))
      /\ SumFunctionOnSet(TakenBy(i), Standing(kind, i)) \in Int
      /\ SumFunctionOnSet(TakenBy(i), Undone(kind, i)) \in Int
  BY <1>3, <1>4, TakenByType, SumOfUnion, SumIsInt
<1> QED
  BY <1>1, <1>2, <1>5

\* All that stands together.
LEMMA TakenStands ==
    ASSUME Inv, NEW i
    PROVE  TakenFrom(resolutions, i)
               = SumFunctionOnSet(TakenBy(i), Standing("TRANSFER", i))
                     + SumFunctionOnSet(TakenBy(i), Standing("OFFSET", i))
                     + SumFunctionOnSet(TakenBy(i), Standing("WAIVER", i))
<1> DEFINE T == Standing("TRANSFER", i)
           O == Standing("OFFSET", i)
           W == Standing("WAIVER", i)
           L == Live(resolutions)
           f == [k \in L |-> AmountIn(resolutions[k], i)]
<1>1. \A k \in DOMAIN resolutions :
          resolutions[k].kind \in {"TRANSFER", "OFFSET", "WAIVER"}
  <2> TAKE k \in DOMAIN resolutions
  <2>1. resolutions[k] \in ResolutionType(Ids)
    BY DEF Inv, TypeOK
  <2> QED
    BY <2>1 DEF ResolutionType
<1>2. L \subseteq DOMAIN resolutions /\ IsFiniteSet(L)
  <2>1. L \subseteq DOMAIN resolutions
    BY DEF Live
  <2> QED
    BY <2>1, AmountInType, FS_Subset
<1>3. /\ (T \cup O) \cup W \subseteq L
      /\ \A k \in L : k \notin (T \cup O) \cup W => TakenBy(i)[k] = 0
      /\ T \cap O = {} /\ (T \cup O) \cap W = {}
  <2>1. (T \cup O) \cup W \subseteq L
    BY DEF Standing, Of, OfKind, Live
  <2>2. \A k \in L : k \notin (T \cup O) \cup W => TakenBy(i)[k] = 0
    BY <1>1 DEF Standing, Of, OfKind, Live, TakenBy, AmountIn
  <2>3. T \cap O = {} /\ (T \cup O) \cap W = {}
    BY DEF Standing, Of, OfKind
  <2> QED
    BY <2>1, <2>2, <2>3
<1>4. TakenFrom(resolutions, i) = SumFunctionOnSet(TakenBy(i), L)
  <2>1. TakenFrom(resolutions, i) = SumFunction(f)
    BY Zenon DEF TakenFrom
  <2>2. DOMAIN f = L /\ \A k \in L : f[k] = TakenBy(i)[k]
    BY <1>2 DEF TakenBy
  <2> HIDE DEF f
  <2> QED
    BY <1>2, <2>1, <2>2, TotalOver
<1>5. \A k \in L : TakenBy(i)[k] \in Int
  BY <1>2, AmountInType DEF TakenBy
<1>6. IsFiniteSet(T) /\ IsFiniteSet(O) /\ IsFiniteSet(W) /\ IsFiniteSet(T \cup O)
  <2>1. IsFiniteSet(T) /\ IsFiniteSet(O) /\ IsFiniteSet(W)
    BY TakenByType
  <2> QED
    BY <2>1, FS_Union
<1> HIDE DEF T, O, W, L
<1>7. SumFunctionOnSet(TakenBy(i), L) = SumFunctionOnSet(TakenBy(i), (T \cup O) \cup W)
  BY <1>2, <1>3, <1>5, SumOverMore
<1>8. SumFunctionOnSet(TakenBy(i), (T \cup O) \cup W)
          = SumFunctionOnSet(TakenBy(i), T \cup O) + SumFunctionOnSet(TakenBy(i), W)
  BY <1>3, <1>5, <1>6, SumOfUnion
<1>9. SumFunctionOnSet(TakenBy(i), T \cup O)
          = SumFunctionOnSet(TakenBy(i), T) + SumFunctionOnSet(TakenBy(i), O)
  BY <1>3, <1>5, <1>6, SumOfUnion
<1> QED
  BY <1>4, <1>7, <1>8, <1>9 DEF T, O, W

\* What an obligation shows as resolved is what its transfers, its offsets and its
\* waivers show.
LEMMA BreakdownOfEach ==
    ASSUME Inv, DischargeInv
    PROVE  BreakdownAddsUp
<1> SUFFICES ASSUME NEW i \in Ids, obligations[i].cycle \notin Finalized
             PROVE  obligations[i].recognized - obligations[i].remaining
                        = (Applied("TRANSFER", i) - Reversed("TRANSFER", i))
                              + (Applied("OFFSET", i) - Reversed("OFFSET", i))
                              + Applied("WAIVER", i)
  BY DEF BreakdownAddsUp, ObligationView
<1>1. obligations[i].recognized - obligations[i].remaining = TakenFrom(resolutions, i)
  BY DEF DischargeInv, DischargesTell, Discharged
<1>2. Standing("WAIVER", i) = Of("WAIVER", i)
  BY DEF Standing, Of, OfKind, DischargeInv, WaiversStand
<1>3. Applied("WAIVER", i) = SumFunctionOnSet(TakenBy(i), Standing("WAIVER", i))
  BY <1>2, AppliedStands
<1> QED
  BY <1>1, <1>3, AppliedStands, TakenStands

-----------------------------------------------------------------------------
\* The amounts of a resolution, and the pairs of resolutions of a set with some of
\* their parts.
AmountsIn(k) == [j \in DOMAIN resolutions[k].parts |-> resolutions[k].parts[j].amount]

ArePairs(Q, K, D) ==
    /\ K \subseteq DOMAIN resolutions
    /\ \A k \in K : D[k] \subseteq DOMAIN resolutions[k].parts
    /\ \A k \in K : \A j \in D[k] : <<k, j>> \in Q
    /\ \A p \in Q : \E k \in K : \E j \in D[k] : p = <<k, j>>

LEMMA AmountsInType ==
    ASSUME Inv, NEW k \in DOMAIN resolutions
    PROVE  /\ IsFiniteSet(DOMAIN resolutions[k].parts)
           /\ DOMAIN resolutions[k].parts \subseteq Ids
           /\ DOMAIN AmountsIn(k) = DOMAIN resolutions[k].parts
           /\ \A j \in DOMAIN resolutions[k].parts :
                  /\ AmountsIn(k)[j] = resolutions[k].parts[j].amount
                  /\ AmountsIn(k)[j] \in Amounts
                  /\ AmountsIn(k)[j] \in Nat
<1>1. DOMAIN resolutions[k].parts \subseteq Ids
  BY ResolutionParts
<1>2. IsFiniteSet(DOMAIN resolutions[k].parts)
  BY <1>1, AmountsType, FS_Subset
<1>3. Amounts \subseteq Nat
  BY DEF Amounts
<1> QED
  BY <1>1, <1>2, <1>3, ResolutionParts DEF AmountsIn

\* What such pairs come to is what the resolutions do, each by its own parts.
LEMMA PartsByResolution ==
    ASSUME Inv, NEW K, NEW D, NEW Q, ArePairs(Q, K, D),
           NEW h, \A k \in K : h[k] = SumFunctionOnSet(AmountsIn(k), D[k])
    PROVE  /\ IsFiniteSet(Q)
           /\ AmountOf(Q) = SumFunctionOnSet(h, K)
           /\ AmountOf(Q) \in Int
<1> DEFINE f == [p \in Q |-> resolutions[p[1]].parts[p[2]].amount]
           C == [k \in K |-> {p \in Q : p[1] = k}]
<1>1. \A k \in K : C[k] = {p \in Q : p[1] = k}
  OBVIOUS
<1>2. \A p \in Q : f[p] = resolutions[p[1]].parts[p[2]].amount
  OBVIOUS
<1>3. AmountOf(Q) = SumFunctionOnSet(f, Q)
  BY Zenon DEF AmountOf, SumFunction
<1> HIDE DEF f, C
<1>4. K \subseteq DOMAIN resolutions /\ IsFiniteSet(K)
  BY AmountInType, FS_Subset DEF ArePairs
<1>5. ASSUME NEW k \in K
      PROVE  IsFiniteSet(C[k]) /\ h[k] = SumFunctionOnSet(f, C[k])
  <2> DEFINE b == [j \in D[k] |-> <<k, j>>]
  <2>1. \A j \in D[k] : b[j] = <<k, j>>
    OBVIOUS
  <2> HIDE DEF b
  <2>2. /\ k \in DOMAIN resolutions
        /\ D[k] \subseteq DOMAIN resolutions[k].parts
        /\ \A j \in D[k] : <<k, j>> \in Q
        /\ \A p \in Q : \E l \in K : \E j \in D[l] : p = <<l, j>>
    BY DEF ArePairs
  <2>3. IsFiniteSet(D[k])
    BY <2>2, AmountsInType, FS_Subset
  <2>4. \A j \in D[k] : b[j] \in C[k]
    <3> TAKE j \in D[k]
    <3>1. b[j] = <<k, j>> /\ b[j] \in Q /\ b[j][1] = k
      <4>1. b[j] = <<k, j>>
        BY <2>1
      <4>2. <<k, j>> \in Q
        BY <2>2
      <4> QED
        BY <4>1, <4>2
    <3> QED
      BY <1>1, <3>1
  <2>5. \A p \in C[k] : \E j \in D[k] : p = b[j]
    <3> TAKE p \in C[k]
    <3>1. p \in Q /\ p[1] = k
      BY <1>1
    <3>2. PICK l \in K : \E j \in D[l] : p = <<l, j>>
      BY <2>2, <3>1
    <3>3. l = k
      BY <3>1, <3>2
    <3> QED
      BY <2>1, <3>2, <3>3
  <2>6. \A x, y \in D[k] : b[x] = b[y] => x = y
    BY <2>1
  <2>7. AreNames(b, D[k], C[k])
    BY <2>3, <2>4, <2>5, <2>6 DEF AreNames
  <2>8. \A j \in D[k] : f[b[j]] = AmountsIn(k)[j] /\ AmountsIn(k)[j] \in Int
    <3> TAKE j \in D[k]
    <3>1. b[j] = <<k, j>> /\ b[j] \in Q /\ b[j][1] = k /\ b[j][2] = j
      <4>1. b[j] = <<k, j>>
        BY <2>1
      <4>2. <<k, j>> \in Q
        BY <2>2
      <4> QED
        BY <4>1, <4>2
    <3>2. f[b[j]] = resolutions[k].parts[j].amount
      BY <1>2, <3>1
    <3>3. AmountsIn(k)[j] = resolutions[k].parts[j].amount /\ AmountsIn(k)[j] \in Int
      BY <2>2, AmountsInType
    <3> QED
      BY <3>2, <3>3
  <2>9. IsFiniteSet(C[k]) /\ SumFunctionOnSet(f, C[k]) = SumFunctionOnSet(AmountsIn(k), D[k])
    BY <2>7, <2>8, SumOfNamed
  <2> QED
    BY <2>9
<1>6. \A k \in K : C[k] \subseteq Q
  BY <1>1
<1>7. \A p \in Q : \E k \in K : p \in C[k]
  <2> TAKE p \in Q
  <2>1. PICK k \in K : \E j \in D[k] : p = <<k, j>>
    BY DEF ArePairs
  <2> QED
    BY <1>1, <2>1
<1>8. \A k, l \in K : k # l => C[k] \cap C[l] = {}
  BY <1>1
<1>9. AreClasses(C, K, Q)
  BY <1>4, <1>5, <1>6, <1>7, <1>8 DEF AreClasses
<1>10. \A p \in Q : f[p] \in Int
  <2> TAKE p \in Q
  <2>1. PICK k \in K : \E j \in D[k] : p = <<k, j>>
    BY DEF ArePairs
  <2>2. PICK j \in D[k] : p = <<k, j>>
    BY <2>1
  <2>3. f[p] = resolutions[k].parts[j].amount
    BY <1>2, <2>2
  <2>4. k \in DOMAIN resolutions /\ j \in DOMAIN resolutions[k].parts
    BY <2>2 DEF ArePairs
  <2> QED
    BY <2>3, <2>4, AmountsInType
<1>11. IsFiniteSet(Q) /\ SumFunctionOnSet(f, Q) = SumFunctionOnSet(h, K)
  BY <1>5, <1>9, <1>10, SumOfClasses
<1> QED
  BY <1>3, <1>10, <1>11, SumIsInt

-----------------------------------------------------------------------------
\* What of a resolution passes the filters of a history.
LEMMA FilteredAmount ==
    ASSUME Inv, NEW k \in DOMAIN resolutions, NEW c, NEW i
    PROVE  /\ FilteredParts(k, c, i) \subseteq DOMAIN resolutions[k].parts
           /\ IsFiniteSet(FilteredParts(k, c, i))
           /\ AppliedInFilter(k, c, i)
                  = SumFunctionOnSet(AmountsIn(k), FilteredParts(k, c, i))
           /\ AppliedInFilter(k, c, i) \in Int
<1> DEFINE S == FilteredParts(k, c, i)
           e == [j \in S |-> resolutions[k].parts[j].amount]
<1>1. S \subseteq DOMAIN resolutions[k].parts
  BY DEF FilteredParts
<1>2. IsFiniteSet(S) /\ \A j \in S : AmountsIn(k)[j] \in Int
  BY <1>1, AmountsInType, FS_Subset
<1>3. DOMAIN e = S /\ \A j \in S : e[j] = AmountsIn(k)[j]
  BY <1>1, AmountsInType
<1>4. AppliedInFilter(k, c, i) = SumFunction(e)
  BY Zenon DEF AppliedInFilter
<1> HIDE DEF S, e
<1>5. SumFunction(e) = SumFunctionOnSet(AmountsIn(k), S)
  BY <1>2, <1>3, TotalOver
<1>6. SumFunctionOnSet(AmountsIn(k), S) \in Int
  BY <1>2, SumIsInt
<1> QED
  BY <1>1, <1>2, <1>4, <1>5, <1>6 DEF S

\* The parts that a history of a kind has are those that pass its filters.
LEMMA HistoryIsOf ==
    ASSUME Inv, NEW kind, NEW c, NEW i
    PROVE  /\ History(kind, c, i) \subseteq OfKind(kind)
           /\ OfKind(kind) \subseteq DOMAIN resolutions
           /\ \A k \in OfKind(kind) : FilteredParts(k, c, i) # {}
                                          => k \in History(kind, c, i)
           /\ IsFiniteSet(History(kind, c, i))
<1>1. /\ History(kind, c, i) \subseteq OfKind(kind)
      /\ OfKind(kind) \subseteq DOMAIN resolutions
      /\ \A k \in OfKind(kind) : FilteredParts(k, c, i) # {} => k \in History(kind, c, i)
  BY DEF History, OfKind
<1>2. IsFiniteSet(History(kind, c, i))
  <2>1. History(kind, c, i) \subseteq DOMAIN resolutions
    BY <1>1
  <2> QED
    BY <2>1, AmountInType, FS_Subset
<1> QED
  BY <1>1, <1>2

LEMMA PartsInCycle ==
    ASSUME NEW kind, NEW S
    PROVE  /\ \A k \in OfKind(kind) : \A j \in DOMAIN resolutions[k].parts :
                  resolutions[k].parts[j].cycle \in S => <<k, j>> \in PartsIn(kind, S)
           /\ \A p \in PartsIn(kind, S) :
                  \E k \in OfKind(kind) : \E j \in DOMAIN resolutions[k].parts :
                      resolutions[k].parts[j].cycle \in S /\ p = <<k, j>>
BY DEF PartsIn

LEMMA HistoryOfCycle ==
    ASSUME Inv, NEW kind, NEW c \in Cycles
    PROVE  SumFunction([k \in History(kind, c, 0) |-> AppliedInFilter(k, c, 0)])
               = AppliedIn(kind, {c})
<1> DEFINE K == History(kind, c, 0)
           D == [k \in K |-> FilteredParts(k, c, 0)]
           h == [k \in K |-> AppliedInFilter(k, c, 0)]
           Q == PartsIn(kind, {c})
<1>1. \A k \in K : /\ k \in DOMAIN resolutions
                   /\ D[k] = FilteredParts(k, c, 0)
                   /\ D[k] \subseteq DOMAIN resolutions[k].parts
                   /\ h[k] = SumFunctionOnSet(AmountsIn(k), D[k])
  BY HistoryIsOf, FilteredAmount
<1>2. \A k \in DOMAIN resolutions : \A j \in DOMAIN resolutions[k].parts :
          j \in FilteredParts(k, c, 0) <=> resolutions[k].parts[j].cycle \in {c}
  BY CyclesAssumption DEF FilteredParts
<1>3. \A k \in K : \A j \in D[k] : <<k, j>> \in Q
  <2> TAKE k \in K
  <2> TAKE j \in D[k]
  <2>1. k \in OfKind(kind) /\ k \in DOMAIN resolutions
    BY HistoryIsOf
  <2>2. j \in DOMAIN resolutions[k].parts /\ resolutions[k].parts[j].cycle \in {c}
    BY <1>1, <1>2, <2>1
  <2> QED
    BY <2>1, <2>2, PartsInCycle
<1>4. \A p \in Q : \E k \in K : \E j \in D[k] : p = <<k, j>>
  <2> TAKE p \in Q
  <2>0. PICK k \in OfKind(kind) : \E j \in DOMAIN resolutions[k].parts :
            resolutions[k].parts[j].cycle \in {c} /\ p = <<k, j>>
    BY PartsInCycle
  <2>1. PICK j \in DOMAIN resolutions[k].parts :
            resolutions[k].parts[j].cycle \in {c} /\ p = <<k, j>>
    BY <2>0
  <2>2. k \in DOMAIN resolutions
    BY HistoryIsOf
  <2>3. j \in FilteredParts(k, c, 0)
    BY <1>2, <2>1, <2>2
  <2>4. k \in K
    BY <2>3, HistoryIsOf
  <2> QED
    BY <2>1, <2>3, <2>4
<1>5. SumFunction(h) = SumFunctionOnSet(h, K)
  BY Zenon DEF SumFunction
<1>6. AppliedIn(kind, {c}) = AmountOf(Q)
  BY DEF AppliedIn
<1> HIDE DEF K, D, h, Q
<1>7. ArePairs(Q, K, D)
  <2>1. K \subseteq DOMAIN resolutions
    BY <1>1
  <2> QED
    BY <1>1, <1>3, <1>4, <2>1 DEF ArePairs
<1>8. AmountOf(Q) = SumFunctionOnSet(h, K)
  BY <1>1, <1>7, PartsByResolution
<1> QED
  BY <1>5, <1>6, <1>8 DEF h, K

LEMMA HistoryOfObligation ==
    ASSUME Inv, NEW kind, NEW i \in Ids
    PROVE  SumFunction([k \in History(kind, NoCycle, i) |->
                           AppliedInFilter(k, NoCycle, i)])
               = Applied(kind, i)
<1> DEFINE K == History(kind, NoCycle, i)
           h == [k \in K |-> AppliedInFilter(k, NoCycle, i)]
<1>1. i # 0
  BY AmountsType, ObligationsType DEF Inv
<1>2. \A k \in DOMAIN resolutions :
          FilteredParts(k, NoCycle, i) = DOMAIN resolutions[k].parts \cap {i}
  BY <1>1 DEF FilteredParts
<1>3. K = Of(kind, i)
  BY <1>2 DEF History, Of, OfKind
<1>4. ASSUME NEW k \in K
      PROVE  h[k] = TakenBy(i)[k]
  <2>1. k \in DOMAIN resolutions /\ i \in DOMAIN resolutions[k].parts
    BY <1>3 DEF Of, OfKind
  <2>2. FilteredParts(k, NoCycle, i) = {i} /\ {i} \ {i} = {} /\ i \in {i}
    BY <1>2, <2>1
  <2>3. AmountsIn(k)[i] \in Int /\ AmountsIn(k)[i] = resolutions[k].parts[i].amount
    BY <2>1, AmountsInType
  <2>4. SumFunctionOnSet(AmountsIn(k), {i}) = AmountsIn(k)[i]
    BY <2>2, <2>3, SumOfOne, FS_Singleton
  <2>5. TakenBy(i)[k] = resolutions[k].parts[i].amount
    BY <1>3, TakenByType
  <2>6. h[k] = SumFunctionOnSet(AmountsIn(k), FilteredParts(k, NoCycle, i))
    BY <2>1, FilteredAmount
  <2> QED
    BY <2>2, <2>3, <2>4, <2>5, <2>6
<1>5. DOMAIN h = K /\ IsFiniteSet(K)
  BY <1>3, TakenByType
<1> HIDE DEF h, K
<1>6. SumFunction(h) = SumFunctionOnSet(TakenBy(i), K)
  BY <1>4, <1>5, TotalOver
<1> QED
  BY <1>3, <1>6, AppliedStands DEF h, K

LEMMA HistoriesOfEach ==
    ASSUME Inv
    PROVE  HistoriesAddUp
<1>1. Existing \subseteq Cycles
  BY DEF Existing
<1>2. ASSUME NEW kind, NEW c \in Existing
      PROVE  SumFunction([k \in History(kind, c, 0) |-> AppliedInFilter(k, c, 0)])
                 = AppliedIn(kind, {c})
  BY <1>1, HistoryOfCycle
<1>3. ASSUME NEW kind, NEW i \in Ids
      PROVE  SumFunction([k \in History(kind, NoCycle, i) |->
                             AppliedInFilter(k, NoCycle, i)])
                 = Applied(kind, i)
  BY HistoryOfObligation
<1> QED
  BY <1>2, <1>3, Zenon DEF HistoriesAddUp

-----------------------------------------------------------------------------
\* There are as many cycles as dates at most.
LEMMA CyclesFinite == IsFiniteSet(Cycles) /\ IsFiniteSet(Existing) /\ Existing \subseteq Cycles
<1>1. IsInjective(TargetDate)
  BY DatesAssumption DEF IsInjective
<1>2. TargetDate \in Injection(Cycles, 1 .. MaxToday)
  BY <1>1, DatesAssumption DEF Injection
<1>3. IsFiniteSet(1 .. MaxToday)
  BY DatesAssumption, FS_Interval
<1>4. Existing \subseteq Cycles
  BY DEF Existing
<1>5. IsFiniteSet(Cycles)
  BY <1>2, <1>3, FS_Injection
<1> QED
  BY <1>4, <1>5, FS_Subset

\* The obligations of several cycles are those of each.
InCycles(S) == UNION {InCycle(c) : c \in S}

LEMMA OverCycles ==
    ASSUME Inv, NEW S \in SUBSET Cycles, NEW f, \A i \in Ids : f[i] \in Int,
           NEW h, \A c \in S : h[c] = SumFunctionOnSet(f, InCycle(c))
    PROVE  SumFunctionOnSet(f, InCycles(S)) = SumFunctionOnSet(h, S)
<1> DEFINE C == [c \in S |-> InCycle(c)]
           Q == InCycles(S)
<1>1. \A c \in S : C[c] = InCycle(c)
  OBVIOUS
<1>2. IsFiniteSet(S) /\ IsFiniteSet(Ids)
  BY CyclesFinite, AmountsType, FS_Subset
<1>3. \A c \in S : InCycle(c) \subseteq Q /\ InCycle(c) \subseteq Ids
  BY DEF InCycles, InCycle
<1>4. \A c \in S : IsFiniteSet(InCycle(c))
  BY <1>2, <1>3, FS_Subset
<1>5. \A i \in Q : i \in Ids /\ \E c \in S : i \in InCycle(c)
  BY DEF InCycles, InCycle
<1>6. \A c, d \in S : c # d => InCycle(c) \cap InCycle(d) = {}
  BY DEF InCycle
<1> HIDE DEF C, Q
<1>7. AreClasses(C, S, Q)
  BY <1>1, <1>2, <1>3, <1>4, <1>5, <1>6 DEF AreClasses
<1>8. \A i \in Q : f[i] \in Int
  BY <1>5
<1>9. \A c \in S : h[c] = SumFunctionOnSet(f, C[c])
  BY <1>1
<1>10. SumFunctionOnSet(f, Q) = SumFunctionOnSet(h, S)
  BY <1>7, <1>8, <1>9, SumOfClasses
<1> QED
  BY <1>10 DEF Q

\* What was recognized, by obligation.
Owing(i) == obligations[i].recognized

LEMMA RecognizedIs ==
    ASSUME Inv, NEW S \in SUBSET Ids
    PROVE  /\ Recognized(S) = SumFunctionOnSet([i \in Ids |-> Owing(i)], S)
           /\ Recognized(S) \in Int
<1> DEFINE f == [i \in Ids |-> Owing(i)]
           e == [i \in S |-> Owing(i)]
<1>1. IsFiniteSet(S)
  BY AmountsType, FS_Subset
<1>2. DOMAIN e = S /\ \A i \in S : e[i] = f[i] /\ f[i] \in Int
  BY AmountsType DEF Owing
<1>3. Recognized(S) = SumFunction(e)
  BY Zenon DEF Recognized, Owing
<1> HIDE DEF e, f
<1>4. SumFunction(e) = SumFunctionOnSet(f, S)
  BY <1>1, <1>2, TotalOver
<1>5. SumFunctionOnSet(f, S) \in Int
  BY <1>1, <1>2, SumIsInt
<1> QED
  BY <1>3, <1>4, <1>5 DEF f

LEMMA TotalsOverCycles ==
    ASSUME Inv, NEW S \in SUBSET Cycles
    PROVE  /\ InCycles(S) \subseteq Ids
           /\ \A h : (\A c \in S : h[c] = Recognized(InCycle(c)))
                         => Recognized(InCycles(S)) = SumFunctionOnSet(h, S)
           /\ \A h : (\A c \in S : h[c] = Remaining(InCycle(c)))
                         => Remaining(InCycles(S)) = SumFunctionOnSet(h, S)
           /\ \A c \in S : Recognized(InCycle(c)) \in Int /\ Remaining(InCycle(c)) \in Int
<1> DEFINE f == [i \in Ids |-> Owing(i)]
           g == [i \in Ids |-> Unpaid(i)]
<1>1. \A i \in Ids : f[i] \in Int /\ g[i] \in Int
  BY AmountsType DEF Owing, Unpaid
<1>2. InCycles(S) \in SUBSET Ids /\ \A c \in S : InCycle(c) \in SUBSET Ids
  BY DEF InCycles, InCycle
<1>3. /\ Recognized(InCycles(S)) = SumFunctionOnSet(f, InCycles(S))
      /\ \A c \in S : /\ Recognized(InCycle(c)) = SumFunctionOnSet(f, InCycle(c))
                      /\ Recognized(InCycle(c)) \in Int
  BY <1>2, RecognizedIs
<1>4. /\ Remaining(InCycles(S)) = SumFunctionOnSet(g, InCycles(S))
      /\ \A c \in S : /\ Remaining(InCycle(c)) = SumFunctionOnSet(g, InCycle(c))
                      /\ Remaining(InCycle(c)) \in Int
  BY <1>2, RemainingIs
<1> HIDE DEF f, g
<1>5. ASSUME NEW h, \A c \in S : h[c] = Recognized(InCycle(c))
      PROVE  Recognized(InCycles(S)) = SumFunctionOnSet(h, S)
  <2>1. \A c \in S : h[c] = SumFunctionOnSet(f, InCycle(c))
    BY <1>3, <1>5
  <2> QED
    BY <1>1, <1>3, <2>1, OverCycles
<1>6. ASSUME NEW h, \A c \in S : h[c] = Remaining(InCycle(c))
      PROVE  Remaining(InCycles(S)) = SumFunctionOnSet(h, S)
  <2>1. \A c \in S : h[c] = SumFunctionOnSet(g, InCycle(c))
    BY <1>4, <1>6
  <2> QED
    BY <1>1, <1>4, <2>1, OverCycles
<1> QED
  BY <1>2, <1>3, <1>4, <1>5, <1>6

-----------------------------------------------------------------------------
\* The parts of a kind that are in the cycles of a set, and those of any of them.
LEMMA AmountOfParts ==
    ASSUME Inv, NEW kind, NEW S, NEW Q \in SUBSET PartsIn(kind, S)
    PROVE  /\ IsFiniteSet(Q)
           /\ AmountOf(Q) \in Int
           /\ \A p \in Q : resolutions[p[1]].parts[p[2]].amount \in Int
<1> DEFINE K == OfKind(kind)
           D == [k \in K |-> {j \in DOMAIN resolutions[k].parts : <<k, j>> \in Q}]
           h == [k \in K |-> SumFunctionOnSet(AmountsIn(k), D[k])]
<1>1. \A k \in K : D[k] = {j \in DOMAIN resolutions[k].parts : <<k, j>> \in Q}
  OBVIOUS
<1>2. \A k \in K : h[k] = SumFunctionOnSet(AmountsIn(k), D[k])
  OBVIOUS
<1>3. K \subseteq DOMAIN resolutions
  BY DEF OfKind
<1> HIDE DEF D, h
<1>4. \A p \in Q : \E k \in K : \E j \in D[k] : p = <<k, j>>
  <2> TAKE p \in Q
  <2>1. PICK k \in K : \E j \in DOMAIN resolutions[k].parts :
            resolutions[k].parts[j].cycle \in S /\ p = <<k, j>>
    BY PartsInCycle
  <2>2. PICK j \in DOMAIN resolutions[k].parts : p = <<k, j>>
    BY <2>1
  <2>3. j \in D[k]
    BY <1>1, <2>2
  <2> QED
    BY <2>2, <2>3
<1>5. ArePairs(Q, K, D)
  <2>1. \A k \in K : \A j \in D[k] : <<k, j>> \in Q
    BY <1>1
  <2>2. \A k \in K : D[k] \subseteq DOMAIN resolutions[k].parts
    BY <1>1
  <2> QED
    BY <1>3, <1>4, <2>1, <2>2 DEF ArePairs
<1>6. IsFiniteSet(Q) /\ AmountOf(Q) \in Int
  <2> HIDE DEF K
  <2> QED
    BY <1>2, <1>5, PartsByResolution
<1>7. ASSUME NEW p \in Q
      PROVE  resolutions[p[1]].parts[p[2]].amount \in Int
  <2>1. PICK k \in K : \E j \in D[k] : p = <<k, j>>
    BY <1>4
  <2>2. PICK j \in D[k] : p = <<k, j>>
    BY <2>1
  <2>3. p[1] = k /\ p[2] = j /\ k \in DOMAIN resolutions
        /\ j \in DOMAIN resolutions[k].parts
    BY <1>1, <1>3, <2>2
  <2>4. AmountsIn(k)[j] \in Int /\ AmountsIn(k)[j] = resolutions[k].parts[j].amount
    BY <2>3, AmountsInType
  <2> QED
    BY <2>3, <2>4
<1> QED
  BY <1>6, <1>7

AreOfCycles(C, Q, kind, S) ==
    Q \subseteq PartsIn(kind, S) /\ \A c \in S : C[c] = Q \cap PartsIn(kind, {c})

LEMMA PartsOfCycles ==
    ASSUME Inv, NEW kind, NEW S \in SUBSET Cycles, NEW Q, NEW C,
           AreOfCycles(C, Q, kind, S),
           NEW h, \A c \in S : h[c] = AmountOf(C[c])
    PROVE  AmountOf(Q) = SumFunctionOnSet(h, S)
<1> DEFINE f == [p \in Q |-> resolutions[p[1]].parts[p[2]].amount]
<1>1. Q \in SUBSET PartsIn(kind, S) /\ \A c \in S : C[c] = Q \cap PartsIn(kind, {c})
  BY DEF AreOfCycles
<1>2. IsFiniteSet(Q) /\ IsFiniteSet(S) /\ \A p \in Q : f[p] \in Int
  <2>1. IsFiniteSet(S)
    BY CyclesFinite, FS_Subset
  <2> QED
    BY <1>1, <2>1, AmountOfParts
<1>3. AmountOf(Q) = SumFunctionOnSet(f, Q)
  BY Zenon DEF AmountOf, SumFunction
<1>4. ASSUME NEW R \in SUBSET Q
      PROVE  AmountOf(R) = SumFunctionOnSet(f, R)
  <2> DEFINE e == [p \in R |-> resolutions[p[1]].parts[p[2]].amount]
  <2>1. DOMAIN e = R /\ \A p \in R : e[p] = f[p]
    OBVIOUS
  <2>2. AmountOf(R) = SumFunction(e)
    BY Zenon DEF AmountOf
  <2>3. IsFiniteSet(R)
    BY <1>2, FS_Subset
  <2> HIDE DEF e, f
  <2> QED
    BY <2>1, <2>2, <2>3, TotalOver
<1> HIDE DEF f
<1>5. \A c \in S : C[c] \in SUBSET Q /\ IsFiniteSet(C[c])
  BY <1>1, <1>2, FS_Subset
<1>6. \A c \in S : h[c] = SumFunctionOnSet(f, C[c])
  BY <1>1, <1>4, <1>5
<1>7. \A p \in Q : \E c \in S : p \in C[c]
  <2> TAKE p \in Q
  <2>1. PICK k \in OfKind(kind) : \E j \in DOMAIN resolutions[k].parts :
            resolutions[k].parts[j].cycle \in S /\ p = <<k, j>>
    BY <1>1, PartsInCycle
  <2>2. PICK j \in DOMAIN resolutions[k].parts :
            resolutions[k].parts[j].cycle \in S /\ p = <<k, j>>
    BY <2>1
  <2>3. PICK c \in S : c = resolutions[k].parts[j].cycle
    BY <2>2
  <2>4. resolutions[k].parts[j].cycle \in {c}
    BY <2>3
  <2>5. p \in PartsIn(kind, {c})
    BY <2>2, <2>4, PartsInCycle
  <2> QED
    BY <1>1, <2>5
<1>8. \A c, d \in S : c # d => C[c] \cap C[d] = {}
  <2> SUFFICES ASSUME NEW c \in S, NEW d \in S, c # d, NEW p \in C[c] \cap C[d]
               PROVE  FALSE
    OBVIOUS
  <2>1. p \in PartsIn(kind, {c}) /\ p \in PartsIn(kind, {d})
    BY <1>1
  <2>2. PICK k \in OfKind(kind) : \E j \in DOMAIN resolutions[k].parts :
            resolutions[k].parts[j].cycle \in {c} /\ p = <<k, j>>
    BY <2>1, PartsInCycle
  <2>3. PICK l \in OfKind(kind) : \E j \in DOMAIN resolutions[l].parts :
            resolutions[l].parts[j].cycle \in {d} /\ p = <<l, j>>
    BY <2>1, PartsInCycle
  <2> QED
    BY <2>2, <2>3
<1>9. AreClasses(C, S, Q)
  BY <1>2, <1>5, <1>7, <1>8 DEF AreClasses
<1>10. SumFunctionOnSet(f, Q) = SumFunctionOnSet(h, S)
  BY <1>2, <1>6, <1>9, SumOfClasses
<1> QED
  BY <1>3, <1>10

LEMMA AppliedOfCycles ==
    ASSUME Inv, NEW kind, NEW S \in SUBSET Cycles
    PROVE  /\ \A h : (\A c \in S : h[c] = AppliedIn(kind, {c}))
                         => AppliedIn(kind, S) = SumFunctionOnSet(h, S)
           /\ \A h : (\A c \in S : h[c] = ReversedIn(kind, {c}))
                         => ReversedIn(kind, S) = SumFunctionOnSet(h, S)
           /\ \A c : AppliedIn(kind, {c}) \in Int /\ ReversedIn(kind, {c}) \in Int
<1> DEFINE Back(T) == {p \in PartsIn(kind, T) : resolutions[p[1]].reversed}
<1>1. \A c \in S : PartsIn(kind, {c}) \subseteq PartsIn(kind, S)
  <2> SUFFICES ASSUME NEW c \in S, NEW p \in PartsIn(kind, {c})
               PROVE  p \in PartsIn(kind, S)
    OBVIOUS
  <2>1. PICK k \in OfKind(kind) : \E j \in DOMAIN resolutions[k].parts :
            resolutions[k].parts[j].cycle \in {c} /\ p = <<k, j>>
    BY PartsInCycle
  <2>2. PICK j \in DOMAIN resolutions[k].parts :
            resolutions[k].parts[j].cycle \in {c} /\ p = <<k, j>>
    BY <2>1
  <2>3. resolutions[k].parts[j].cycle \in S
    BY <2>2
  <2> QED
    BY <2>2, <2>3, PartsInCycle
<1>2. \A T : AppliedIn(kind, T) = AmountOf(PartsIn(kind, T))
             /\ ReversedIn(kind, T) = AmountOf(Back(T))
  BY DEF AppliedIn, ReversedIn
<1>3. /\ Back(S) \in SUBSET PartsIn(kind, S)
      /\ \A c : Back({c}) \in SUBSET PartsIn(kind, {c})
      /\ \A c \in S : /\ PartsIn(kind, S) \cap PartsIn(kind, {c}) = PartsIn(kind, {c})
                      /\ Back(S) \cap PartsIn(kind, {c}) = Back({c})
  BY <1>1
<1> HIDE DEF Back
<1>4. ASSUME NEW h, \A c \in S : h[c] = AppliedIn(kind, {c})
      PROVE  AppliedIn(kind, S) = SumFunctionOnSet(h, S)
  <2> DEFINE C == [c \in S |-> PartsIn(kind, {c})]
             Q == PartsIn(kind, S)
  <2>1. \A c \in S : h[c] = AmountOf(C[c])
    BY <1>2, <1>3, <1>4
  <2>2. AreOfCycles(C, Q, kind, S)
    BY <1>3 DEF AreOfCycles
  <2> HIDE DEF C, Q
  <2>3. AmountOf(Q) = SumFunctionOnSet(h, S)
    BY <2>1, <2>2, PartsOfCycles
  <2> QED
    BY <1>2, <2>3 DEF Q
<1>5. ASSUME NEW h, \A c \in S : h[c] = ReversedIn(kind, {c})
      PROVE  ReversedIn(kind, S) = SumFunctionOnSet(h, S)
  <2> DEFINE C == [c \in S |-> Back({c})]
             Q == Back(S)
  <2>1. \A c \in S : h[c] = AmountOf(C[c])
    BY <1>2, <1>3, <1>5
  <2>2. AreOfCycles(C, Q, kind, S)
    BY <1>3 DEF AreOfCycles
  <2> HIDE DEF C, Q
  <2>3. AmountOf(Q) = SumFunctionOnSet(h, S)
    BY <2>1, <2>2, PartsOfCycles
  <2> QED
    BY <1>2, <2>3 DEF Q
<1>6. ASSUME NEW c
      PROVE  AppliedIn(kind, {c}) \in Int /\ ReversedIn(kind, {c}) \in Int
  <2>1. AmountOf(PartsIn(kind, {c})) \in Int /\ AmountOf(Back({c})) \in Int
    BY <1>3, AmountOfParts
  <2> QED
    BY <1>2, <2>1
<1> QED
  BY <1>4, <1>5, <1>6

LEMMA StandingOfCycles ==
    ASSUME Inv, NEW kind, NEW S \in SUBSET Cycles, NEW h,
           \A c \in S : h[c] = AppliedIn(kind, {c}) - ReversedIn(kind, {c})
    PROVE  AppliedIn(kind, S) - ReversedIn(kind, S) = SumFunctionOnSet(h, S)
<1> DEFINE f == [c \in S |-> AppliedIn(kind, {c})]
           e == [c \in S |-> ReversedIn(kind, {c})]
<1>1. \A c \in S : f[c] = AppliedIn(kind, {c}) /\ e[c] = ReversedIn(kind, {c})
  OBVIOUS
<1> HIDE DEF f, e
<1>2. /\ AppliedIn(kind, S) = SumFunctionOnSet(f, S)
      /\ ReversedIn(kind, S) = SumFunctionOnSet(e, S)
      /\ \A c \in S : f[c] \in Int /\ e[c] \in Int
  BY <1>1, AppliedOfCycles
<1>3. IsFiniteSet(S) /\ \A c \in S : h[c] = f[c] - e[c]
  BY <1>1, CyclesFinite, FS_Subset
<1> QED
  BY <1>2, <1>3, SumOfDifferences

\* The totals of several cycles are those of each.
LEMMA TotalsOf ==
    ASSUME NEW S
    PROVE  /\ DOMAIN CycleTotals(S) = {"recognized", "remaining", "resolved",
                                       "transferred", "compensated", "waived"}
           /\ CycleTotals(S)["recognized"] = Recognized(InCycles(S))
           /\ CycleTotals(S)["remaining"] = Remaining(InCycles(S))
           /\ CycleTotals(S)["resolved"] = Recognized(InCycles(S)) - Remaining(InCycles(S))
           /\ CycleTotals(S)["transferred"]
                  = AppliedIn("TRANSFER", S) - ReversedIn("TRANSFER", S)
           /\ CycleTotals(S)["compensated"]
                  = AppliedIn("OFFSET", S) - ReversedIn("OFFSET", S)
           /\ CycleTotals(S)["waived"] = AppliedIn("WAIVER", S)
BY DEF CycleTotals, InCycles

LEMMA TotalsAddUp ==
    ASSUME Inv, NEW S \in SUBSET Cycles, NEW field \in DOMAIN CycleTotals(S), NEW h,
           \A c \in S : h[c] = CycleTotals({c})[field]
    PROVE  CycleTotals(S)[field] = SumFunctionOnSet(h, S)
<1> DEFINE f == [c \in S |-> Recognized(InCycle(c))]
           e == [c \in S |-> Remaining(InCycle(c))]
<1>1. IsFiniteSet(S)
  BY CyclesFinite, FS_Subset
<1>2. \A c : InCycles({c}) = InCycle(c)
  BY DEF InCycles
<1>3. \A c \in S : f[c] = Recognized(InCycle(c)) /\ e[c] = Remaining(InCycle(c))
  OBVIOUS
<1>12. ASSUME NEW c
       PROVE  LET one == CycleTotals({c})
              IN  /\ one["recognized"] = Recognized(InCycle(c))
                  /\ one["remaining"] = Remaining(InCycle(c))
                  /\ one["resolved"] = Recognized(InCycle(c)) - Remaining(InCycle(c))
                  /\ one["transferred"]
                         = AppliedIn("TRANSFER", {c}) - ReversedIn("TRANSFER", {c})
                  /\ one["compensated"]
                         = AppliedIn("OFFSET", {c}) - ReversedIn("OFFSET", {c})
                  /\ one["waived"] = AppliedIn("WAIVER", {c})
  BY <1>2, TotalsOf
<1> HIDE DEF f, e
<1>4. \A c \in S : f[c] \in Int /\ e[c] \in Int
  BY <1>3, TotalsOverCycles
<1>5. /\ Recognized(InCycles(S)) = SumFunctionOnSet(f, S)
      /\ Remaining(InCycles(S)) = SumFunctionOnSet(e, S)
  BY <1>3, TotalsOverCycles
<1>6. CASE field = "recognized"
  <2>1. \A c \in S : h[c] = Recognized(InCycle(c))
    BY <1>6, <1>12
  <2> QED
    BY <1>6, <2>1, TotalsOf, TotalsOverCycles
<1>7. CASE field = "remaining"
  <2>1. \A c \in S : h[c] = Remaining(InCycle(c))
    BY <1>7, <1>12
  <2> QED
    BY <1>7, <2>1, TotalsOf, TotalsOverCycles
<1>8. CASE field = "resolved"
  <2>1. \A c \in S : h[c] = f[c] - e[c]
    BY <1>3, <1>8, <1>12
  <2>2. SumFunctionOnSet(h, S) = SumFunctionOnSet(f, S) - SumFunctionOnSet(e, S)
    BY <1>1, <1>4, <2>1, SumOfDifferences
  <2> QED
    BY <1>5, <1>8, <2>2, TotalsOf
<1>9. CASE field = "transferred"
  <2>1. \A c \in S : h[c] = AppliedIn("TRANSFER", {c}) - ReversedIn("TRANSFER", {c})
    BY <1>9, <1>12
  <2>2. AppliedIn("TRANSFER", S) - ReversedIn("TRANSFER", S) = SumFunctionOnSet(h, S)
    BY <2>1, StandingOfCycles
  <2> QED
    BY <1>9, <2>2, TotalsOf
<1>10. CASE field = "compensated"
  <2>1. \A c \in S : h[c] = AppliedIn("OFFSET", {c}) - ReversedIn("OFFSET", {c})
    BY <1>10, <1>12
  <2>2. AppliedIn("OFFSET", S) - ReversedIn("OFFSET", S) = SumFunctionOnSet(h, S)
    BY <2>1, StandingOfCycles
  <2> QED
    BY <1>10, <2>2, TotalsOf
<1>11. CASE field = "waived"
  <2>1. \A c \in S : h[c] = AppliedIn("WAIVER", {c})
    BY <1>11, <1>12
  <2>2. AppliedIn("WAIVER", S) = SumFunctionOnSet(h, S)
    BY <2>1, AppliedOfCycles
  <2> QED
    BY <1>11, <2>2, TotalsOf
<1> QED
  BY <1>6, <1>7, <1>8, <1>9, <1>10, <1>11, TotalsOf

LEMMA SelectionOfEach ==
    ASSUME Inv
    PROVE  SelectionAddsUp
<1> SUFFICES ASSUME NEW S \in SUBSET Existing, NEW m \in Parties
             PROVE  LET selected == SelectedCycles(S, m)
                    IN  /\ \A field \in DOMAIN selected.totals :
                               selected.totals[field] =
                                   SumFunction([c \in S |->
                                       CycleDetail(c, m, "ALL", Start).totals[field]])
                        /\ selected.grossPayable + selected.grossReceivable
                               = selected.totals.recognized
                        /\ selected.transfers =
                               UNION {History("TRANSFER", c, 0) : c \in S}
  BY Zenon DEF SelectionAddsUp
<1> DEFINE selected == SelectedCycles(S, m)
           ids == InCycles(S)
           mine == SeenAs("PAYABLE", m, ids)
           yours == SeenAs("RECEIVABLE", m, ids)
<1>1. S \in SUBSET Cycles
  BY CyclesFinite
<1>2. \A c : CycleDetail(c, m, "ALL", Start).totals = CycleTotals({c})
  BY DEF CycleDetail
<1>3. /\ selected.totals = CycleTotals(S)
      /\ selected.grossPayable = Recognized(mine)
      /\ selected.grossReceivable = Recognized(yours)
      /\ selected.transfers = {p[1] : p \in PartsIn("TRANSFER", S)}
  BY DEF SelectedCycles, InCycles
<1>4. CycleTotals(S).recognized = Recognized(ids)
  BY DEF CycleTotals, InCycles
<1>5. \A field \in DOMAIN selected.totals :
          selected.totals[field] =
              SumFunction([c \in S |-> CycleDetail(c, m, "ALL", Start).totals[field]])
  <2> TAKE field \in DOMAIN selected.totals
  <2> DEFINE h == [c \in S |-> CycleDetail(c, m, "ALL", Start).totals[field]]
  <2>1. \A c \in S : h[c] = CycleTotals({c})[field]
    BY <1>2
  <2>2. SumFunction(h) = SumFunctionOnSet(h, S)
    BY Zenon DEF SumFunction
  <2> HIDE DEF selected, h
  <2>3. CycleTotals(S)[field] = SumFunctionOnSet(h, S)
    BY <1>1, <1>3, <2>1, TotalsAddUp
  <2> QED
    BY <1>3, <2>2, <2>3 DEF h
<1>6. Recognized(mine) + Recognized(yours) = Recognized(ids)
  <2> DEFINE f == [i \in Ids |-> Owing(i)]
  <2>1. ids \in SUBSET Ids
    BY <1>1, TotalsOverCycles
  <2>2. \A i \in ids : obligations[i].debtor \in Parties
    BY <2>1, AmountsType
  <2>3. mine \subseteq ids /\ yours \subseteq ids
    BY DEF SeenAs
  <2>4. mine \cap yours = {} /\ mine \cup yours = ids
    BY <2>2, <2>3, MembersAssumption DEF SeenAs, IsSeenAs, Other, Parties
  <2> HIDE DEF mine, yours, ids
  <2>5. /\ Recognized(ids) = SumFunctionOnSet(f, ids)
        /\ Recognized(mine) = SumFunctionOnSet(f, mine)
        /\ Recognized(yours) = SumFunctionOnSet(f, yours)
    BY <2>1, <2>3, RecognizedIs
  <2>6. IsFiniteSet(mine) /\ IsFiniteSet(yours) /\ \A i \in mine \cup yours : f[i] \in Int
    <3>1. IsFiniteSet(mine) /\ IsFiniteSet(yours)
      BY <2>1, <2>3, AmountsType, FS_Subset
    <3>2. \A i \in Ids : f[i] \in Int
      BY AmountsType DEF Owing
    <3> QED
      BY <2>1, <2>3, <3>1, <3>2
  <2> HIDE DEF f
  <2>7. SumFunctionOnSet(f, mine \cup yours)
            = SumFunctionOnSet(f, mine) + SumFunctionOnSet(f, yours)
    BY <2>4, <2>6, SumOfUnion
  <2> QED
    BY <2>4, <2>5, <2>7
<1>7. {p[1] : p \in PartsIn("TRANSFER", S)} = UNION {History("TRANSFER", c, 0) : c \in S}
  <2>1. ASSUME NEW k, k \in {p[1] : p \in PartsIn("TRANSFER", S)}
        PROVE  \E c \in S : k \in History("TRANSFER", c, 0)
    <3>1. PICK p \in PartsIn("TRANSFER", S) : k = p[1]
      BY <2>1
    <3>2. PICK l \in OfKind("TRANSFER") : \E j \in DOMAIN resolutions[l].parts :
              resolutions[l].parts[j].cycle \in S /\ p = <<l, j>>
      BY PartsInCycle
    <3>3. PICK j \in DOMAIN resolutions[l].parts :
              resolutions[l].parts[j].cycle \in S /\ p = <<l, j>>
      BY <3>2
    <3>4. j \in FilteredParts(l, resolutions[l].parts[j].cycle, 0) /\ k = l
      BY <3>1, <3>3 DEF FilteredParts
    <3> QED
      BY <3>3, <3>4, HistoryIsOf
  <2>2. ASSUME NEW c \in S, NEW k \in History("TRANSFER", c, 0)
        PROVE  \E p \in PartsIn("TRANSFER", S) : k = p[1]
    <3>1. k \in OfKind("TRANSFER") /\ FilteredParts(k, c, 0) # {} /\ c # NoCycle
      BY <1>1, CyclesAssumption DEF History
    <3>2. PICK j \in DOMAIN resolutions[k].parts : resolutions[k].parts[j].cycle = c
      BY <3>1 DEF FilteredParts
    <3>3. <<k, j>> \in PartsIn("TRANSFER", S)
      BY <3>1, <3>2, PartsInCycle
    <3>4. <<k, j>>[1] = k
      OBVIOUS
    <3> QED
      BY <3>3, <3>4
  <2>3. ASSUME NEW k, \E p \in PartsIn("TRANSFER", S) : k = p[1]
        PROVE  k \in {p[1] : p \in PartsIn("TRANSFER", S)}
    BY <2>3
  <2> QED
    BY <2>1, <2>2, <2>3
<1> QED
  BY <1>3, <1>4, <1>5, <1>6, <1>7

-----------------------------------------------------------------------------
(***************************************************************************)
(* An offset has two halves.                                               *)
(***************************************************************************)
Evens == {2 * n : n \in Int}

LEMMA EvensType ==
    /\ Evens \in SUBSET Int /\ 0 \in Evens
    /\ \A a, b \in Evens : a + b \in Evens /\ a - b \in Evens
    /\ \A a \in Evens : 2 * (a \div 2) = a
<1>1. \A a \in Evens : \E n \in Int : a = 2 * n
  BY DEF Evens
<1>2. \A n \in Int : 2 * n \in Evens
  BY DEF Evens
<1>3. ASSUME NEW a \in Evens, NEW b \in Evens
      PROVE  a + b \in Evens /\ a - b \in Evens
  <2>1. PICK n \in Int : a = 2 * n
    BY <1>1
  <2>2. PICK m \in Int : b = 2 * m
    BY <1>1
  <2>3. a + b = 2 * (n + m) /\ a - b = 2 * (n - m) /\ n + m \in Int /\ n - m \in Int
    BY <2>1, <2>2
  <2> QED
    BY <1>2, <2>3
<1>4. ASSUME NEW a \in Evens
      PROVE  2 * (a \div 2) = a
  <2>1. PICK n \in Int : a = 2 * n
    BY <1>1
  <2> QED
    BY <2>1
<1>5. 0 \in Evens
  <2>1. 0 = 2 * 0
    OBVIOUS
  <2> QED
    BY <1>2, <2>1
<1>6. \A a \in Evens : a \in Int
  BY <1>1
<1> QED
  BY <1>3, <1>4, <1>5, <1>6

\* What is as much on either side is even together.
LEMMA BalancedIsEven ==
    ASSUME NEW S, IsFiniteSet(S), NEW f, NEW e,
           \A i \in S : f[i] \in Int /\ (e[i] = f[i] \/ e[i] = -f[i]),
           SumFunctionOnSet(e, S) = 0
    PROVE  SumFunctionOnSet(f, S) \in Evens
<1> DEFINE h == [i \in S |-> f[i] + e[i]]
<1>1. \A i \in S : h[i] = f[i] + e[i]
  OBVIOUS
<1> HIDE DEF h
<1>2. \A i \in S : e[i] \in Int /\ h[i] \in Evens
  <2> TAKE i \in S
  <2>1. f[i] \in Int /\ (e[i] = f[i] \/ e[i] = -f[i])
    OBVIOUS
  <2>2. h[i] = 2 * f[i] \/ h[i] = 2 * 0
    BY <1>1, <2>1
  <2>3. \A n \in Int : 2 * n \in Evens
    BY DEF Evens
  <2>4. 2 * f[i] \in Evens /\ 2 * 0 \in Evens
    BY <2>1, <2>3
  <2> QED
    BY <2>1, <2>2, <2>4
<1>3. SumFunctionOnSet(h, S) \in Evens
  BY <1>2, EvensType, SumIsIn
<1>4. SumFunctionOnSet(h, S) = SumFunctionOnSet(f, S) + SumFunctionOnSet(e, S)
  BY <1>1, <1>2, SumOfSums
<1>5. SumFunctionOnSet(f, S) \in Int
  BY SumIsInt
<1>6. SumFunctionOnSet(h, S) = SumFunctionOnSet(f, S)
  BY <1>4, <1>5
<1> QED
  BY <1>3, <1>6

\* What an offset takes is even: as much of what one member owes as of what the other
\* owes.
TotalOf(r) == SumFunction([i \in DOMAIN r.parts |-> r.parts[i].amount])
HasHalves(r)  == r.kind = "OFFSET" => TotalOf(r) \in Evens
OffsetsHaveHalves == \A k \in DOMAIN resolutions : HasHalves(resolutions[k])

LEMMA HalvesInit ==
    ASSUME Init
    PROVE  OffsetsHaveHalves
BY DEF Init, OffsetsHaveHalves

LEMMA HalvesOfNew ==
    ASSUME Inv, OffsetsHaveHalves, NEW r, HasHalves(r),
           resolutions' = Append(resolutions, r)
    PROVE  OffsetsHaveHalves'
<1>1. resolutions \in Seq(ResolutionType(Ids))
  BY DEF Inv, TypeOK
<1>2. \A k \in DOMAIN resolutions' :
          resolutions'[k] = r \/ (k \in DOMAIN resolutions /\ resolutions'[k] = resolutions[k])
  BY <1>1
<1>3. \A k \in DOMAIN resolutions' : HasHalves(resolutions'[k])
  BY <1>2 DEF OffsetsHaveHalves
<1> QED
  BY <1>3, Zenon DEF OffsetsHaveHalves, HasHalves, TotalOf

LEMMA HalvesOfReversed ==
    ASSUME Inv, OffsetsHaveHalves, NEW k \in DOMAIN resolutions,
           resolutions' = [resolutions EXCEPT ![k].reversed = TRUE]
    PROVE  OffsetsHaveHalves'
<1>1. resolutions[k] \in ResolutionType(Ids)
  BY DEF Inv, TypeOK
<1>2. /\ [resolutions[k] EXCEPT !.reversed = TRUE].kind = resolutions[k].kind
      /\ [resolutions[k] EXCEPT !.reversed = TRUE].parts = resolutions[k].parts
  BY <1>1 DEF ResolutionType
<1>3. resolutions' = [resolutions EXCEPT ![k] = [resolutions[k] EXCEPT !.reversed = TRUE]]
  OBVIOUS
<1>4. /\ DOMAIN resolutions' = DOMAIN resolutions
      /\ \A l \in DOMAIN resolutions : /\ resolutions'[l].kind = resolutions[l].kind
                                       /\ resolutions'[l].parts = resolutions[l].parts
  BY <1>2, <1>3
<1>5. ASSUME NEW l \in DOMAIN resolutions
      PROVE  HasHalves(resolutions'[l])
  <2>1. HasHalves(resolutions[l])
    BY DEF OffsetsHaveHalves
  <2>2. /\ resolutions'[l].kind = resolutions[l].kind
        /\ resolutions'[l].parts = resolutions[l].parts
    BY <1>4
  <2> QED
    BY <2>1, <2>2 DEF HasHalves, TotalOf
<1>6. \A l \in DOMAIN resolutions' : HasHalves(resolutions'[l])
  BY <1>4, <1>5
<1> QED
  BY <1>6, Zenon DEF OffsetsHaveHalves, HasHalves, TotalOf

LEMMA HalvesOfOffset ==
    ASSUME Inv, OffsetsHaveHalves, NEW S \in SUBSET Ids, NEW amounts \in [S -> Amounts],
           Offset(amounts)
    PROVE  OffsetsHaveHalves'
<1> DEFINE parts == [i \in DOMAIN amounts |->
                        [amount |-> amounts[i], cycle |-> obligations[i].cycle]]
           r == [kind |-> "OFFSET", parts |-> parts, reversed |-> FALSE]
           g == [i \in DOMAIN amounts |-> Signed(obligations[i], amounts[i])]
           f == [i \in DOMAIN r.parts |-> r.parts[i].amount]
<1>1. resolutions' = Append(resolutions, r)
  BY DEF Offset, Resolve
<1>2. SumFunction(g) = 0
  BY DEF Offset
<1>3. IsFiniteSet(S)
  BY AmountsType, FS_Subset
<1>4. DOMAIN g = S /\ DOMAIN f = S /\ \A i \in S : f[i] = amounts[i]
  OBVIOUS
<1>5. \A i \in S : f[i] \in Int /\ (g[i] = f[i] \/ g[i] = -f[i])
  <2>1. \A n \in Amounts : n \in Int
    BY DEF Amounts
  <2> QED
    BY <1>4, <2>1 DEF Signed
<1>6. TotalOf(r) = SumFunction(f)
  BY Zenon DEF TotalOf
<1> HIDE DEF g, f, r, parts
<1>7. SumFunctionOnSet(g, S) = 0 /\ TotalOf(r) = SumFunctionOnSet(f, S)
  BY <1>2, <1>4, <1>6 DEF SumFunction
<1>8. TotalOf(r) \in Evens
  BY <1>3, <1>5, <1>7, BalancedIsEven
<1> QED
  BY <1>1, <1>8, HalvesOfNew DEF HasHalves

LEMMA HalvesStep ==
    ASSUME Inv, OffsetsHaveHalves, [Next]_vars
    PROVE  OffsetsHaveHalves'
<1>1. ASSUME UNCHANGED resolutions
      PROVE  OffsetsHaveHalves'
  BY <1>1, Zenon DEF OffsetsHaveHalves, HasHalves, TotalOf
<1>2. ASSUME NEW kind, kind # "OFFSET", NEW amounts, Resolve(kind, amounts)
      PROVE  OffsetsHaveHalves'
  <2> DEFINE r == [kind     |-> kind,
                   parts    |-> [i \in DOMAIN amounts |->
                                    [amount |-> amounts[i],
                                     cycle  |-> obligations[i].cycle]],
                   reversed |-> FALSE]
  <2>1. resolutions' = Append(resolutions, r) /\ r.kind # "OFFSET"
    BY <1>2 DEF Resolve
  <2> HIDE DEF r
  <2> QED
    BY <2>1, HalvesOfNew DEF HasHalves
<1>3. ASSUME NEW S \in SUBSET OpenIds(obligations, Ids), NEW amounts \in [S -> Amounts],
             Offset(amounts)
      PROVE  OffsetsHaveHalves'
  <2>1. S \in SUBSET Ids
    BY DEF OpenIds
  <2> QED
    BY <1>3, <2>1, HalvesOfOffset
<1>4. ASSUME NEW k \in DOMAIN resolutions, NEW c, ReverseSettlement(k, c)
      PROVE  OffsetsHaveHalves'
  <2>1. resolutions' = [resolutions EXCEPT ![k].reversed = TRUE]
    BY <1>4 DEF ReverseSettlement
  <2> QED
    BY <2>1, HalvesOfReversed
<1>5. ASSUME NEW s \in Origins, ExpenseStep(s)
      PROVE  UNCHANGED resolutions
  BY <1>5 DEF ExpenseStep, RecordFact, ReverseFact, Adjust
<1>6. ASSUME NEW s \in Agreements, NEW n, Agree(s, n)
      PROVE  UNCHANGED resolutions
  BY <1>6 DEF Agree
<1>7. ASSUME ResolutionStep
      PROVE  OffsetsHaveHalves'
  BY <1>2, <1>3, <1>7 DEF ResolutionStep, Transfer
<1>8. ASSUME NEW creditor, NEW i, NEW n, WaiveObligation(creditor, i, n)
      PROVE  OffsetsHaveHalves'
  BY <1>2, <1>8 DEF WaiveObligation
<1>9. ASSUME NEW i, NEW c, MoveObligation(i, c)
      PROVE  UNCHANGED resolutions
  BY <1>9 DEF MoveObligation
<1>10. ASSUME NEW c, FinalizeCycle(c)
       PROVE  UNCHANGED resolutions
  BY <1>10 DEF FinalizeCycle
<1>11. ASSUME UNCHANGED vars
       PROVE  UNCHANGED resolutions
  BY <1>11 DEF vars
<1> QED
  BY <1>1, <1>4, <1>5, <1>6, <1>7, <1>8, <1>9, <1>10, <1>11 DEF Next

-----------------------------------------------------------------------------
\* What the resolutions of a kind that stand come to is what the obligations show.
LEMMA EffectiveAddUp ==
    ASSUME Inv, NEW kind, NEW h, NEW e,
           \A k \in OfKind(kind) :
               h[k] = IF resolutions[k].reversed THEN 0 ELSE AppliedInFilter(k, NoCycle, 0),
           \A i \in Ids : e[i] = Applied(kind, i) - Reversed(kind, i)
    PROVE  SumFunctionOnSet(h, OfKind(kind)) = SumFunctionOnSet(e, Ids)
<1> DEFINE K == {k \in OfKind(kind) : ~ resolutions[k].reversed}
           row == [k \in K |-> [i \in Ids |-> AmountIn(resolutions[k], i)]]
           column == [i \in Ids |-> TakenBy(i)]
<1>1. IsFiniteSet(OfKind(kind)) /\ OfKind(kind) \subseteq DOMAIN resolutions
  <2>1. OfKind(kind) \subseteq DOMAIN resolutions
    BY DEF OfKind
  <2> QED
    BY <2>1, AmountInType, FS_Subset
<1>2. K \in SUBSET OfKind(kind) /\ K \subseteq DOMAIN resolutions /\ IsFiniteSet(K)
  <2>1. K \in SUBSET OfKind(kind)
    OBVIOUS
  <2> QED
    BY <1>1, <2>1, FS_Subset
<1>3. \A k \in K : \A i \in Ids : /\ row[k][i] = AmountIn(resolutions[k], i)
                                  /\ row[k][i] \in Int
                                  /\ column[i][k] = row[k][i]
  BY <1>2, AmountInType DEF TakenBy
<1>4. \A i \in Ids : column[i] = TakenBy(i)
  OBVIOUS
<1>5. \A k \in OfKind(kind) : ~ resolutions[k].reversed <=> k \in K
  OBVIOUS
<1>6. \A i \in Ids : /\ Standing(kind, i) \in SUBSET K
                     /\ \A k \in K \ Standing(kind, i) : TakenBy(i)[k] = 0
  BY <1>1 DEF Standing, Of, OfKind, TakenBy, AmountIn
<1> HIDE DEF K, row, column
<1>7. ASSUME NEW k \in K
      PROVE  h[k] = SumFunctionOnSet(row[k], Ids)
  <2> DEFINE S == DOMAIN resolutions[k].parts
  <2>1. k \in DOMAIN resolutions /\ S \in SUBSET Ids /\ IsFiniteSet(S) /\ IsFiniteSet(Ids)
    BY <1>2, AmountsInType, AmountsType
  <2>2. FilteredParts(k, NoCycle, 0) = S
    BY DEF FilteredParts
  <2>3. h[k] = SumFunctionOnSet(AmountsIn(k), S)
    BY <1>2, <1>5, <2>1, <2>2, FilteredAmount
  <2>4. /\ \A i \in S : row[k][i] = AmountsIn(k)[i]
        /\ \A i \in Ids \ S : row[k][i] = 0
        /\ \A i \in Ids : row[k][i] \in Int
    BY <1>3, <2>1 DEF AmountIn, AmountsIn
  <2> HIDE DEF S
  <2>5. SumFunctionOnSet(row[k], Ids) = SumFunctionOnSet(row[k], S)
    BY <2>1, <2>4, SumOverMore
  <2>6. SumFunctionOnSet(row[k], S) = SumFunctionOnSet(AmountsIn(k), S)
    BY <2>1, <2>4, SumOfSame
  <2> QED
    BY <2>3, <2>5, <2>6
<1>8. ASSUME NEW i \in Ids
      PROVE  e[i] = SumFunctionOnSet(column[i], K)
  <2>1. \A k \in K : TakenBy(i)[k] \in Int
    BY <1>2, AmountInType DEF TakenBy
  <2>2. SumFunctionOnSet(TakenBy(i), K) = SumFunctionOnSet(TakenBy(i), Standing(kind, i))
    BY <1>2, <1>6, <2>1, SumOverMore
  <2> QED
    BY <1>4, <2>2, AppliedStands
<1>9. IsFiniteSet(Ids)
  BY AmountsType
<1>10. SumFunctionOnSet(h, K) = SumFunctionOnSet(e, Ids)
  <2>1. IsTable(row, column, K, Ids)
    BY <1>2, <1>3, <1>9 DEF IsTable
  <2> QED
    BY <1>7, <1>8, <2>1, SumExchanged
<1>11. SumFunctionOnSet(h, OfKind(kind)) = SumFunctionOnSet(h, K)
  <2>1. \A k \in OfKind(kind) : h[k] \in Int
    BY <1>1, FilteredAmount
  <2>2. \A k \in OfKind(kind) \ K : h[k] = 0
    BY <1>5
  <2> QED
    BY <1>1, <1>2, <2>1, <2>2, SumOverMore
<1> QED
  BY <1>10, <1>11

LEMMA EffectiveOfView ==
    ASSUME NEW k
    PROVE  /\ TransferView(k).effective =
                  IF resolutions[k].reversed THEN 0 ELSE AppliedInFilter(k, NoCycle, 0)
           /\ OffsetView(k).effective =
                  IF resolutions[k].reversed THEN 0
                  ELSE AppliedInFilter(k, NoCycle, 0) \div 2
BY DEF TransferView, OffsetView, ViewOf

LEMMA ResolutionsOfEach ==
    ASSUME Inv, OffsetsHaveHalves
    PROVE  ResolutionsAddUp
<1> DEFINE T == OfKind("TRANSFER")
           O == OfKind("OFFSET")
           transfers == [k \in T |-> TransferView(k).effective]
           offsets   == [k \in O |-> OffsetView(k).effective]
           both      == [k \in O |-> IF resolutions[k].reversed THEN 0
                                     ELSE AppliedInFilter(k, NoCycle, 0)]
           transferred == [i \in Ids |-> ObligationView(i).transferred]
           compensated == [i \in Ids |-> ObligationView(i).compensated]
<1>1. /\ SumFunction(transfers) = SumFunctionOnSet(transfers, T)
      /\ SumFunction(offsets) = SumFunctionOnSet(offsets, O)
      /\ SumFunction(transferred) = SumFunctionOnSet(transferred, Ids)
      /\ SumFunction(compensated) = SumFunctionOnSet(compensated, Ids)
  BY Zenon DEF SumFunction
<1>2. \A i \in Ids : /\ transferred[i] = Applied("TRANSFER", i) - Reversed("TRANSFER", i)
                     /\ compensated[i] = Applied("OFFSET", i) - Reversed("OFFSET", i)
  BY DEF ObligationView
<1>3. \A k \in T : transfers[k] = IF resolutions[k].reversed THEN 0
                                  ELSE AppliedInFilter(k, NoCycle, 0)
  BY EffectiveOfView
<1>4. \A k \in O : both[k] = IF resolutions[k].reversed THEN 0
                             ELSE AppliedInFilter(k, NoCycle, 0)
  OBVIOUS
<1>5. ASSUME NEW k \in O
      PROVE  both[k] = offsets[k] + offsets[k] /\ offsets[k] \in Int
  <2> DEFINE total == AppliedInFilter(k, NoCycle, 0)
  <2>1. k \in DOMAIN resolutions /\ resolutions[k].kind = "OFFSET"
    BY DEF OfKind
  <2>2. total = TotalOf(resolutions[k])
    <3>1. FilteredParts(k, NoCycle, 0) = DOMAIN resolutions[k].parts
      BY DEF FilteredParts
    <3> QED
      BY <3>1, Zenon DEF AppliedInFilter, TotalOf
  <2>3. total \in Evens
    BY <2>1, <2>2 DEF OffsetsHaveHalves, HasHalves
  <2>4. offsets[k] = IF resolutions[k].reversed THEN 0 ELSE total \div 2
    BY EffectiveOfView
  <2>5. both[k] = IF resolutions[k].reversed THEN 0 ELSE total
    OBVIOUS
  <2> HIDE DEF total, both, offsets
  <2>6. total \in Int /\ 2 * (total \div 2) = total
    BY <2>3, EvensType
  <2> QED
    BY <2>4, <2>5, <2>6
<1> HIDE DEF T, O, transfers, offsets, both, transferred, compensated
<1>6. SumFunctionOnSet(transfers, T) = SumFunctionOnSet(transferred, Ids)
  BY <1>2, <1>3, EffectiveAddUp DEF T
<1>7. SumFunctionOnSet(both, O) = SumFunctionOnSet(compensated, Ids)
  BY <1>2, <1>4, EffectiveAddUp DEF O
<1>8. IsFiniteSet(O)
  <2>1. O \subseteq DOMAIN resolutions
    BY DEF O, OfKind
  <2> QED
    BY <2>1, AmountInType, FS_Subset
<1>9. /\ SumFunctionOnSet(both, O)
             = SumFunctionOnSet(offsets, O) + SumFunctionOnSet(offsets, O)
      /\ SumFunctionOnSet(offsets, O) \in Int
  BY <1>5, <1>8, SumOfSums, SumIsInt
<1>10. 2 * SumFunction(offsets) = SumFunction(compensated)
  BY <1>1, <1>7, <1>9
<1>11. SumFunction(transfers) = SumFunction(transferred)
  BY <1>1, <1>6
<1> QED
  BY <1>10, <1>11, Zenon DEF ResolutionsAddUp, transfers, transferred, offsets, compensated, T, O

-----------------------------------------------------------------------------
(***************************************************************************)
(* The pages that follow one another.                                      *)
(***************************************************************************)
KeysOf(g, pages, filters, n) ==
    g = [k \in 0 .. n |-> IF k = 0 THEN {Start} ELSE Following(pages, filters, g[k - 1])]

LEMMA KeysByStep ==
    ASSUME NEW g, NEW pages, NEW filters, NEW n, KeysOf(g, pages, filters, n)
    PROVE  \A k \in 0 .. n :
               g[k] = IF k = 0 THEN {Start} ELSE Following(pages, filters, g[k - 1])
<1> DEFINE S == 0 .. n
           f == [k \in S |-> IF k = 0 THEN {Start} ELSE Following(pages, filters, g[k - 1])]
<1>1. g = f
  BY Zenon DEF KeysOf
<1>2. \A k \in S :
          f[k] = IF k = 0 THEN {Start} ELSE Following(pages, filters, g[k - 1])
  BY Zenon
<1> HIDE DEF f, S
<1>3. \A k \in S :
          g[k] = IF k = 0 THEN {Start} ELSE Following(pages, filters, g[k - 1])
  BY <1>1, <1>2, Zenon
<1> QED
  BY <1>3, Zenon DEF S

LEMMA KeysExist ==
    ASSUME NEW pages, NEW filters
    PROVE  \A n \in Nat : \E g : KeysOf(g, pages, filters, n)
<1>1. PICK P : P = {n \in Nat : \E g : KeysOf(g, pages, filters, n)}
  OBVIOUS
<1>2. 0 \in P
  <2>1. PICK g : g = [k \in 0 .. 0 |-> {Start}]
    OBVIOUS
  <2>2. \A k \in 0 .. 0 : k = 0
    OBVIOUS
  <2>3. g = [k \in 0 .. 0 |-> IF k = 0 THEN {Start} ELSE Following(pages, filters, g[k - 1])]
    BY <2>1, <2>2
  <2> QED
    BY <1>1, <2>3 DEF KeysOf
<1>3. ASSUME NEW n \in Nat, n \in P
      PROVE  n + 1 \in P
  <2>1. PICK g : KeysOf(g, pages, filters, n)
    BY <1>1, <1>3
  <2>2. PICK h : h = [k \in 0 .. (n + 1) |->
                         IF k = 0 THEN {Start} ELSE Following(pages, filters, g[k - 1])]
    OBVIOUS
  <2>3. \A k \in 0 .. n : k \in 0 .. (n + 1) /\ h[k] = g[k]
    <3> TAKE k \in 0 .. n
    <3>1. k \in 0 .. (n + 1)
      OBVIOUS
    <3>2. g[k] = IF k = 0 THEN {Start} ELSE Following(pages, filters, g[k - 1])
      BY <2>1, KeysByStep
    <3>3. h[k] = IF k = 0 THEN {Start} ELSE Following(pages, filters, g[k - 1])
      BY <2>2, <3>1, Zenon
    <3> QED
      BY <3>1, <3>2, <3>3
  <2>4. \A k \in 0 .. (n + 1) : k = 0 \/ k - 1 \in 0 .. n
    OBVIOUS
  <2>5. h = [k \in 0 .. (n + 1) |->
                IF k = 0 THEN {Start} ELSE Following(pages, filters, h[k - 1])]
    BY <2>2, <2>3, <2>4
  <2> QED
    BY <1>1, <2>5 DEF KeysOf
<1>4. \A n \in Nat : n \in P
  BY <1>2, <1>3, FromZero
<1> QED
  BY <1>1, <1>4

LEMMA KeysAre ==
    ASSUME NEW pages, NEW filters, NEW n \in Nat
    PROVE  \E g : /\ g[0] = {Start}
                  /\ \A k \in 1 .. n : g[k] = Following(pages, filters, g[k - 1])
                  /\ Keys(pages, filters, n) = UNION {g[k] : k \in 0 .. n}
<1>1. \E g : KeysOf(g, pages, filters, n)
  BY KeysExist
<1>2. PICK g : /\ KeysOf(g, pages, filters, n)
               /\ Keys(pages, filters, n) = UNION {g[k] : k \in 0 .. n}
  BY <1>1, Zenon DEF KeysOf, Keys
<1>3. /\ g[0] = {Start}
      /\ \A k \in 1 .. n : g[k] = Following(pages, filters, g[k - 1])
  <2>1. \A k \in 0 .. n :
            g[k] = IF k = 0 THEN {Start} ELSE Following(pages, filters, g[k - 1])
    BY <1>2, KeysByStep
  <2>2. 0 \in 0 .. n /\ \A k \in 1 .. n : k \in 0 .. n /\ k # 0
    OBVIOUS
  <2> QED
    BY <2>1, <2>2
<1> QED
  BY <1>2, <1>3

\* A page has items of all, and what is left after its key is on it or after the key
\* of the next page, which is further.
Reaches(all, pages, filters, n, left, far) ==
    /\ left[Start] = all
    /\ far[Start] = 0
    /\ \A a \in 0 .. n : /\ far[a] \in Nat
                         /\ pages[a].items \subseteq all
                         /\ left[a] # {} => far[a] < n
    /\ \A a \in 0 .. n :
           IsAccepted(pages[a].next, filters) /\ (a = Start \/ left[a] # {}) =>
               pages[a].next.key \in 0 .. n /\ left[pages[a].next.key] # {}
    /\ \A a \in 0 .. n : \A i \in left[a] :
           \/ i \in pages[a].items
           \/ /\ IsAccepted(pages[a].next, filters)
              /\ i \in left[pages[a].next.key]
              /\ far[a] < far[pages[a].next.key]

LEMMA AllIsPaged ==
    ASSUME NEW all, NEW pages, NEW filters, NEW n \in Nat, NEW left, NEW far,
           Reaches(all, pages, filters, n, left, far)
    PROVE  ArePaged(all, pages, filters, n)
<1> DEFINE Good(a) == a \in 0 .. n /\ (a = Start \/ left[a] # {})
<1>1. PICK g : /\ g[0] = {Start}
               /\ \A k \in 1 .. n : g[k] = Following(pages, filters, g[k - 1])
               /\ Keys(pages, filters, n) = UNION {g[k] : k \in 0 .. n}
  BY KeysAre
<1>2. \A k \in 1 .. n : \A b : b \in g[k] <=>
          \E a \in g[k - 1] : /\ IsAccepted(pages[a].next, filters)
                              /\ b = pages[a].next.key
  BY <1>1 DEF Following
<1>3. Start \in 0 .. n /\ Start = 0
  BY DEF Start
<1>4. \A k \in Nat : k \in 0 .. n => \A b \in g[k] : Good(b)
  <2>1. PICK P : P = {k \in Nat : k \in 0 .. n => \A b \in g[k] : Good(b)}
    OBVIOUS
  <2>2. 0 \in P
    BY <1>1, <1>3, <2>1
  <2>3. ASSUME NEW k \in Nat, k \in P
        PROVE  k + 1 \in P
    <3>1. SUFFICES ASSUME k + 1 \in 0 .. n, NEW b \in g[k + 1]
                   PROVE  Good(b)
      BY <2>1
    <3>2. k + 1 \in 1 .. n /\ k \in 0 .. n /\ (k + 1) - 1 = k
      BY <3>1
    <3>3. PICK a \in g[k] : /\ IsAccepted(pages[a].next, filters)
                            /\ b = pages[a].next.key
      BY <1>2, <3>2
    <3>4. Good(a)
      BY <2>1, <2>3, <3>2
    <3> QED
      BY <3>3, <3>4 DEF Reaches
  <2> QED
    BY <2>1, <2>2, <2>3, FromZero
<1>5. ASSUME NEW i \in all, \A a \in Keys(pages, filters, n) : i \notin pages[a].items
      PROVE  FALSE
  <2>1. PICK P : P = {k \in Nat : k \in 0 .. n =>
                          \E a \in g[k] : i \in left[a] /\ far[a] >= k}
    OBVIOUS
  <2>2. 0 \in P
    BY <1>1, <1>3, <2>1 DEF Reaches
  <2>3. ASSUME NEW k \in Nat, k \in P
        PROVE  k + 1 \in P
    <3>1. SUFFICES ASSUME k + 1 \in 0 .. n
                   PROVE  \E a \in g[k + 1] : i \in left[a] /\ far[a] >= k + 1
      BY <2>1
    <3>2. k + 1 \in 1 .. n /\ k \in 0 .. n /\ (k + 1) - 1 = k
      BY <3>1
    <3>3. PICK a \in g[k] : i \in left[a] /\ far[a] >= k
      BY <2>1, <2>3, <3>2
    <3>4. Good(a) /\ a \in Keys(pages, filters, n)
      BY <1>1, <1>4, <3>2
    <3>5. i \notin pages[a].items
      BY <1>5, <3>4
    <3>6. /\ IsAccepted(pages[a].next, filters)
          /\ i \in left[pages[a].next.key]
          /\ far[a] < far[pages[a].next.key]
      BY <3>3, <3>4, <3>5 DEF Reaches
    <3>7. pages[a].next.key \in g[k + 1]
      BY <1>2, <3>2, <3>6
    <3>8. Good(pages[a].next.key)
      BY <1>4, <3>2, <3>7
    <3>9. far[a] \in Nat /\ far[pages[a].next.key] \in Nat
      BY <3>4, <3>8 DEF Reaches
    <3> QED
      BY <3>3, <3>6, <3>7, <3>9
  <2>4. \A k \in Nat : k \in P
    BY <2>1, <2>2, <2>3, FromZero
  <2>5. PICK a \in g[n] : i \in left[a] /\ far[a] >= n
    BY <2>1, <2>4
  <2>6. Good(a)
    BY <1>4
  <2> QED
    BY <2>5, <2>6 DEF Reaches
<1>6. ASSUME NEW a \in Keys(pages, filters, n)
      PROVE  pages[a].items \subseteq all
  <2>1. PICK k \in 0 .. n : a \in g[k]
    BY <1>1
  <2>2. Good(a)
    BY <1>4, <2>1
  <2> QED
    BY <2>2 DEF Reaches
<1> HIDE DEF Good
<1>7. all = UNION {pages[a].items : a \in Keys(pages, filters, n)}
  BY <1>5, <1>6
<1> QED
  BY <1>7, Zenon DEF ArePaged

-----------------------------------------------------------------------------
\* The first of a set by their weights: as many as a page has.
FirstOf(R, w) == {i \in R : Cardinality({j \in R : w[j] <= w[i]}) <= PageSize}

LEMMA FirstComeFirst ==
    ASSUME NEW R, IsFiniteSet(R), NEW w, \A i \in R : w[i] \in Nat,
           \A i, j \in R : w[i] = w[j] => i = j
    PROVE  /\ FirstOf(R, w) \subseteq R
           /\ \A i \in R \ FirstOf(R, w) : \A j \in FirstOf(R, w) : w[j] < w[i]
           /\ R # {} => FirstOf(R, w) # {}
<1> DEFINE UpTo(i) == {j \in R : w[j] <= w[i]}
<1>1. \A i \in R : UpTo(i) \subseteq R
  OBVIOUS
<1>2. \A i \in R : IsFiniteSet(UpTo(i)) /\ Cardinality(UpTo(i)) \in Nat
  <2> HIDE DEF UpTo
  <2> QED
    BY <1>1, FS_Subset, FS_CardinalityType
<1>3. \A i \in R : i \in FirstOf(R, w) <=> Cardinality(UpTo(i)) <= PageSize
  BY DEF FirstOf
<1>4. ASSUME NEW i \in R \ FirstOf(R, w), NEW j \in FirstOf(R, w), ~ w[j] < w[i]
      PROVE  FALSE
  <2>1. j \in R
    BY DEF FirstOf
  <2>2. w[i] <= w[j] /\ w[i] \in Nat /\ w[j] \in Nat
    BY <1>4, <2>1
  <2>3. UpTo(i) \subseteq UpTo(j)
    BY <2>1, <2>2
  <2> HIDE DEF UpTo
  <2>4. Cardinality(UpTo(i)) <= Cardinality(UpTo(j))
    BY <1>2, <2>1, <2>3, FS_Subset
  <2>5. Cardinality(UpTo(j)) <= PageSize /\ ~ Cardinality(UpTo(i)) <= PageSize
    BY <1>3, <2>1
  <2> QED
    BY <1>2, <2>1, <2>4, <2>5, PagesAssumption
<1>5. ASSUME R # {}
      PROVE  FirstOf(R, w) # {}
  <2>1. PICK W : W = {w[i] : i \in R}
    OBVIOUS
  <2>2. W \in SUBSET Nat /\ W # {}
    BY <1>5, <2>1
  <2>3. PICK m \in W : \A x \in W : m <= x
    BY <2>2, LeastNatural
  <2>4. PICK i \in R : m = w[i]
    BY <2>1
  <2>5. \A j \in R : w[i] <= w[j]
    BY <2>1, <2>3, <2>4
  <2>6. UpTo(i) = {i}
    <3>1. \A j \in R : w[j] <= w[i] => j = i
      BY <2>5
    <3> QED
      BY <3>1
  <2>7. Cardinality(UpTo(i)) = 1
    BY <2>6, FS_Singleton
  <2> HIDE DEF UpTo
  <2> QED
    BY <1>3, <2>7, PagesAssumption
<1>6. FirstOf(R, w) \subseteq R
  BY DEF FirstOf
<1> QED
  BY <1>4, <1>5, <1>6

\* A cursor that is accepted was given, and names the key after which to go on.
LEMMA CursorIsGiven ==
    ASSUME NEW filters, NEW key
    PROVE  /\ ~ IsAccepted(NoCursor, filters)
           /\ key # Start => IsAccepted([filters |-> filters, key |-> key], filters)
           /\ [filters |-> filters, key |-> key].key = key
BY DEF IsAccepted, NoCursor, Start

\* From the last registered down.
LEMMA PagesDescend ==
    ASSUME NEW n \in Nat, NEW ids \in SUBSET (1 .. n), NEW filters, NEW pages,
           \A a \in 0 .. n : /\ pages[a].items = PageOf(ids, a)
                             /\ pages[a].next = NextCursor(filters, ids, a)
    PROVE  ArePaged(ids, pages, filters, n)
<1> DEFINE left == [a \in 0 .. n |-> {i \in ids : a = Start \/ i < a}]
           far  == [a \in 0 .. n |-> IF a = Start THEN 0 ELSE n + 1 - a]
           w    == [i \in ids |-> n - i]
<1>1. Start \in 0 .. n /\ Start = 0 /\ 0 \in 0 .. n
  BY DEF Start
<1>2. \A a \in 0 .. n : \A i : i \in left[a] <=> (i \in ids /\ (a = Start \/ i < a))
  OBVIOUS
<1>3. \A a \in 0 .. n : far[a] = IF a = Start THEN 0 ELSE n + 1 - a
  OBVIOUS
<1>4. \A i \in ids : w[i] = n - i /\ i \in Nat /\ 1 <= i /\ i <= n
  OBVIOUS
<1>5. IsFiniteSet(ids)
  <2>1. IsFiniteSet(1 .. n)
    BY FS_Interval
  <2> QED
    BY <2>1, FS_Subset
<1>6. ASSUME NEW a \in 0 .. n
      PROVE  PageOf(ids, a) = FirstOf(left[a], w)
  <2> DEFINE R == left[a]
  <2>1. PageOf(ids, a) = {i \in R : Cardinality({j \in R : j >= i}) <= PageSize}
    BY Zenon DEF PageOf
  <2>2. \A i, j \in R : j >= i <=> w[j] <= w[i]
    BY <1>2, <1>4
  <2> HIDE DEF left, w
  <2>3. \A i \in R : {j \in R : j >= i} = {j \in R : w[j] <= w[i]}
    BY <2>2
  <2> HIDE DEF R
  <2> QED
    BY <2>1, <2>3 DEF FirstOf, R
<1> HIDE DEF left, far, w
<1>7. ASSUME NEW a \in 0 .. n
      PROVE  LET page == PageOf(ids, a)
             IN  /\ page \subseteq left[a]
                 /\ \A i \in left[a] \ page : \A j \in page : i < j
                 /\ left[a] # {} => page # {}
  <2>1. left[a] \subseteq ids
    BY <1>2
  <2>2. IsFiniteSet(left[a])
    BY <1>5, <2>1, FS_Subset
  <2>3. /\ \A i \in left[a] : w[i] \in Nat
        /\ \A i, j \in left[a] : w[i] = w[j] => i = j
    <3>1. \A i \in ids : w[i] \in Nat
      BY <1>4
    <3>2. ASSUME NEW i \in ids, NEW j \in ids, w[i] = w[j]
          PROVE  i = j
      <4>1. w[i] = n - i /\ w[j] = n - j /\ i \in Nat /\ j \in Nat
        BY <1>4
      <4>2. n - i = n - j
        BY <3>2, <4>1
      <4> QED
        BY <4>1, <4>2
    <3> QED
      BY <2>1, <3>1, <3>2
  <2>4. /\ FirstOf(left[a], w) \subseteq left[a]
        /\ \A i \in left[a] \ FirstOf(left[a], w) :
               \A j \in FirstOf(left[a], w) : w[j] < w[i]
        /\ left[a] # {} => FirstOf(left[a], w) # {}
    BY <2>2, <2>3, FirstComeFirst
  <2>5. PageOf(ids, a) = FirstOf(left[a], w)
    BY <1>6
  <2>6. ASSUME NEW i \in left[a], NEW j \in left[a], w[j] < w[i]
        PROVE  i < j
    <3>1. w[i] = n - i /\ w[j] = n - j /\ i \in Nat /\ j \in Nat
      BY <1>4, <2>1
    <3> QED
      BY <2>6, <3>1
  <2> QED
    BY <2>4, <2>5, <2>6
<1>8. ASSUME NEW a \in 0 .. n, NEW i \in ids, \A j \in PageOf(ids, a) : i < j,
             PageOf(ids, a) # {}
      PROVE  /\ IsAccepted(pages[a].next, filters)
             /\ pages[a].next.key \in 0 .. n
             /\ i \in left[pages[a].next.key]
             /\ far[a] < far[pages[a].next.key]
  <2> DEFINE page == PageOf(ids, a)
             b    == Min(page)
  <2>1. page \subseteq left[a] /\ left[a] \subseteq ids
    BY <1>2, <1>7
  <2>2. page \in SUBSET Nat
    <3>1. \A x \in ids : x \in Nat
      BY <1>4
    <3> QED
      BY <2>1, <3>1
  <2>3. b \in page
    BY <1>8, <2>2, MinIsLeast
  <2>4. b \in ids /\ i < b /\ (a = Start \/ b < a) /\ b \in 1 .. n
    BY <1>2, <1>8, <2>1, <2>3
  <2>5. pages[a].next = [filters |-> filters, key |-> b]
    BY <1>8 DEF NextCursor
  <2> HIDE DEF b, page
  <2>6. IsAccepted(pages[a].next, filters) /\ pages[a].next.key = b
    BY <1>1, <2>4, <2>5, CursorIsGiven
  <2>7. b \in 0 .. n /\ b # Start
    BY <1>1, <2>4
  <2>8. i \in left[b]
    BY <1>2, <2>4, <2>7
  <2>9. far[a] < far[b]
    BY <1>1, <1>3, <2>4, <2>7
  <2> QED
    BY <2>6, <2>7, <2>8, <2>9
<1>9. ASSUME NEW a \in 0 .. n
      PROVE  /\ far[a] \in Nat
             /\ pages[a].items \subseteq ids
             /\ left[a] # {} => far[a] < n
  <2>1. pages[a].items \subseteq ids
    BY <1>2, <1>7
  <2>2. far[a] \in Nat
    BY <1>1, <1>3
  <2>3. ASSUME NEW i \in left[a]
        PROVE  far[a] < n
    <3>1. i \in ids /\ (a = Start \/ i < a)
      BY <1>2
    <3>2. i \in Nat /\ 1 <= i /\ i <= n
      BY <1>4, <3>1
    <3>3. CASE a = Start
      BY <1>3, <3>2, <3>3
    <3>4. CASE a # Start
      <4>1. far[a] = n + 1 - a /\ i < a
        BY <1>3, <3>1, <3>4
      <4> QED
        BY <3>2, <4>1
    <3> QED
      BY <3>3, <3>4
  <2> QED
    BY <2>1, <2>2, <2>3
<1>10. ASSUME NEW a \in 0 .. n, IsAccepted(pages[a].next, filters),
              a = Start \/ left[a] # {}
       PROVE  pages[a].next.key \in 0 .. n /\ left[pages[a].next.key] # {}
  <2>1. PICK i \in ids : \A j \in PageOf(ids, a) : i < j
    <3>1. pages[a].next = NextCursor(filters, ids, a)
      OBVIOUS
    <3> QED
      BY <1>10, <3>1, CursorIsGiven DEF NextCursor
  <2>2. left[a] # {}
    BY <1>2, <1>10, <2>1
  <2>3. PageOf(ids, a) # {}
    BY <1>7, <2>2
  <2> QED
    BY <1>8, <2>1, <2>3
<1>11. ASSUME NEW a \in 0 .. n, NEW i \in left[a]
       PROVE  \/ i \in pages[a].items
              \/ /\ IsAccepted(pages[a].next, filters)
                 /\ i \in left[pages[a].next.key]
                 /\ far[a] < far[pages[a].next.key]
  <2>1. SUFFICES ASSUME i \notin PageOf(ids, a)
                 PROVE  /\ IsAccepted(pages[a].next, filters)
                        /\ i \in left[pages[a].next.key]
                        /\ far[a] < far[pages[a].next.key]
    OBVIOUS
  <2>2. i \in ids /\ \A j \in PageOf(ids, a) : i < j
    BY <1>2, <1>7, <2>1
  <2>3. PageOf(ids, a) # {}
    BY <1>7
  <2> QED
    BY <1>8, <2>2, <2>3
<1>12. left[Start] = ids /\ far[Start] = 0
  BY <1>1, <1>2, <1>3
<1>13. Reaches(ids, pages, filters, n, left, far)
  BY <1>9, <1>10, <1>11, <1>12 DEF Reaches
<1> QED
  BY <1>13, AllIsPaged

\* From the first date on.
LEMMA PagesAscend ==
    ASSUME NEW S \in SUBSET Cycles, NEW filters, NEW pages,
           \A a \in 0 .. MaxToday :
               /\ pages[a].items = PageOfCycles(S, a)
               /\ pages[a].next = NextCursorOfCycles(filters, S, a)
    PROVE  ArePaged(S, pages, filters, MaxToday)
<1> DEFINE n    == MaxToday
           left == [a \in 0 .. n |-> {c \in S : a = Start \/ TargetDate[c] > a}]
           far  == [a \in 0 .. n |-> a]
<1>1. n \in Nat /\ Start \in 0 .. n /\ Start = 0 /\ 0 \in 0 .. n
  BY DatesAssumption DEF Start
<1>2. \A a \in 0 .. n : \A c : c \in left[a] <=> (c \in S /\ (a = Start \/ TargetDate[c] > a))
  OBVIOUS
<1>3. \A a \in 0 .. n : far[a] = a
  OBVIOUS
<1>4. /\ \A c \in S : TargetDate[c] \in 1 .. n
      /\ \A c, d \in S : TargetDate[c] = TargetDate[d] => c = d
  BY DatesAssumption
<1>5. IsFiniteSet(S)
  BY CyclesFinite, FS_Subset
<1>6. ASSUME NEW a \in 0 .. n
      PROVE  PageOfCycles(S, a) = FirstOf(left[a], TargetDate)
  BY Zenon DEF PageOfCycles, FirstOf
<1> HIDE DEF left, far, n
<1>7. ASSUME NEW a \in 0 .. n
      PROVE  LET page == PageOfCycles(S, a)
             IN  /\ page \subseteq left[a]
                 /\ \A c \in left[a] \ page : \A d \in page : TargetDate[d] < TargetDate[c]
                 /\ left[a] # {} => page # {}
  <2>1. left[a] \subseteq S
    BY <1>2
  <2>2. IsFiniteSet(left[a])
    BY <1>5, <2>1, FS_Subset
  <2>3. /\ \A c \in left[a] : TargetDate[c] \in Nat
        /\ \A c, d \in left[a] : TargetDate[c] = TargetDate[d] => c = d
    BY <1>1, <1>4, <2>1
  <2> QED
    BY <1>6, <2>2, <2>3, FirstComeFirst
<1>8. ASSUME NEW a \in 0 .. n, NEW c \in S, PageOfCycles(S, a) # {},
             \A d \in PageOfCycles(S, a) : TargetDate[d] < TargetDate[c]
      PROVE  /\ IsAccepted(pages[a].next, filters)
             /\ pages[a].next.key \in 0 .. n
             /\ c \in left[pages[a].next.key]
             /\ far[a] < far[pages[a].next.key]
  <2> DEFINE page  == PageOfCycles(S, a)
             dates == {TargetDate[d] : d \in page}
             b     == Max(dates)
  <2>1. page \subseteq left[a] /\ left[a] \subseteq S
    BY <1>2, <1>7
  <2>2. \A d \in page : d \in S /\ TargetDate[d] \in 1 .. n
    BY <1>4, <2>1
  <2>3. dates \in SUBSET (0 .. n) /\ dates # {}
    BY <1>1, <1>8, <2>2
  <2>4. b \in dates
    <3> HIDE DEF dates
    <3> QED
      BY <1>1, <2>3, MaxIsGreatest
  <2>5. PICK d \in page : b = TargetDate[d]
    BY <2>4
  <2>6. b \in 1 .. n /\ TargetDate[c] > b /\ (a = Start \/ b > a) /\ TargetDate[c] \in 1 .. n
    BY <1>1, <1>2, <1>4, <1>8, <2>1, <2>2, <2>5
  <2>7. pages[a].next = [filters |-> filters, key |-> b]
    <3>1. \A x \in dates : TargetDate[c] > x
      <4> SUFFICES ASSUME NEW e \in page
                   PROVE  TargetDate[c] > TargetDate[e]
        OBVIOUS
      <4>1. TargetDate[e] < TargetDate[c]
        BY <1>8
      <4> QED
        BY <1>1, <1>4, <2>2, <4>1
    <3>2. pages[a].next = NextCursorOfCycles(filters, S, a)
      BY DEF n
    <3> QED
      BY <3>1, <3>2 DEF NextCursorOfCycles
  <2> HIDE DEF b, page, dates
  <2>8. IsAccepted(pages[a].next, filters) /\ pages[a].next.key = b
    BY <1>1, <2>6, <2>7, CursorIsGiven
  <2>9. b \in 0 .. n /\ b # Start
    BY <1>1, <2>6
  <2>10. c \in left[b]
    BY <1>2, <2>6, <2>9
  <2>11. far[a] < far[b]
    BY <1>1, <1>3, <2>6, <2>9
  <2> QED
    BY <2>8, <2>9, <2>10, <2>11
<1>9. ASSUME NEW a \in 0 .. n
      PROVE  /\ far[a] \in Nat
             /\ pages[a].items \subseteq S
             /\ left[a] # {} => far[a] < n
  <2>1. pages[a].items \subseteq S
    BY <1>2, <1>7 DEF n
  <2>2. far[a] \in Nat
    BY <1>1, <1>3
  <2>3. left[a] # {} => far[a] < n
    BY <1>1, <1>2, <1>3, <1>4
  <2> QED
    BY <2>1, <2>2, <2>3
<1>10. ASSUME NEW a \in 0 .. n, IsAccepted(pages[a].next, filters),
              a = Start \/ left[a] # {}
       PROVE  pages[a].next.key \in 0 .. n /\ left[pages[a].next.key] # {}
  <2>1. PICK c \in S : \A x \in {TargetDate[d] : d \in PageOfCycles(S, a)} :
                           TargetDate[c] > x
    <3>1. pages[a].next = NextCursorOfCycles(filters, S, a)
      BY DEF n
    <3> QED
      BY <1>10, <3>1, CursorIsGiven DEF NextCursorOfCycles
  <2>2. left[a] # {}
    BY <1>2, <1>10, <2>1
  <2>3. PageOfCycles(S, a) # {}
    BY <1>7, <2>2
  <2>4. \A d \in PageOfCycles(S, a) : TargetDate[d] < TargetDate[c]
    <3> TAKE d \in PageOfCycles(S, a)
    <3>1. TargetDate[c] > TargetDate[d]
      BY <2>1
    <3>2. d \in S
      BY <1>2, <1>7
    <3> QED
      BY <1>1, <1>4, <3>1, <3>2
  <2> QED
    BY <1>8, <2>3, <2>4
<1>11. ASSUME NEW a \in 0 .. n, NEW c \in left[a]
       PROVE  \/ c \in pages[a].items
              \/ /\ IsAccepted(pages[a].next, filters)
                 /\ c \in left[pages[a].next.key]
                 /\ far[a] < far[pages[a].next.key]
  <2>1. pages[a].items = PageOfCycles(S, a)
    BY DEF n
  <2>2. SUFFICES ASSUME c \notin PageOfCycles(S, a)
                 PROVE  /\ IsAccepted(pages[a].next, filters)
                        /\ c \in left[pages[a].next.key]
                        /\ far[a] < far[pages[a].next.key]
    BY <2>1
  <2>3. c \in S /\ \A d \in PageOfCycles(S, a) : TargetDate[d] < TargetDate[c]
    BY <1>2, <1>7, <2>2
  <2>4. PageOfCycles(S, a) # {}
    BY <1>7
  <2> QED
    BY <1>8, <2>3, <2>4
<1>12. left[Start] = S /\ far[Start] = 0
  BY <1>1, <1>2, <1>3
<1>13. Reaches(S, pages, filters, n, left, far)
  BY <1>9, <1>10, <1>11, <1>12 DEF Reaches
<1> QED
  BY <1>1, <1>13, AllIsPaged DEF n

LEMMA PagesOfEach ==
    ASSUME Inv
    PROVE  PagesListAll
<1> DEFINE n == Len(obligations)
           r == Len(resolutions)
<1>1. n \in Nat /\ Ids = 1 .. n
  BY ObligationsType DEF Inv
<1>2. r \in Nat /\ DOMAIN resolutions = 1 .. r
  <2>1. resolutions \in Seq(ResolutionType(Ids))
    BY DEF Inv, TypeOK
  <2> QED
    BY <2>1
<1>3. ASSUME NEW m \in Parties, NEW direction \in Directions
      PROVE  ArePaged(PositionRead(m, direction).items,
                      [a \in 0 .. n |-> Position(m, direction, a)],
                      <<m, direction>>, n)
  <2> DEFINE pages   == [a \in 0 .. n |-> Position(m, direction, a)]
             ids     == PositionRead(m, direction).items
             filters == <<m, direction>>
  <2>1. ids \subseteq Ids
    BY DEF PositionRead, SeenAs, OpenIds
  <2>2. \A a \in 0 .. n : /\ pages[a].items = PageOf(ids, a)
                          /\ pages[a].next = NextCursor(filters, ids, a)
    BY DEF Position
  <2> HIDE DEF pages, ids, filters, n
  <2>3. ArePaged(ids, pages, filters, n)
    BY <1>1, <2>1, <2>2, PagesDescend
  <2> QED
    BY <2>3 DEF pages, ids, filters
<1>4. ASSUME NEW view \in Views, NEW today \in 1 .. MaxToday
      PROVE  ArePaged(ListedIn(view, today),
                      [a \in 0 .. MaxToday |-> ListPage(view, today, a)],
                      ListFilters(view, today), MaxToday)
  <2> DEFINE pages   == [a \in 0 .. MaxToday |-> ListPage(view, today, a)]
             S       == ListedIn(view, today)
             filters == ListFilters(view, today)
  <2>1. S \subseteq Cycles
    <3>1. \A c : IsOverdue(c, today) /\ c \in Cycles => c \in Cycles
      OBVIOUS
    <3> QED
      BY DEF ListedIn, Views, Finalized
  <2>2. \A a \in 0 .. MaxToday :
            /\ pages[a].items = PageOfCycles(S, a)
            /\ pages[a].next = NextCursorOfCycles(filters, S, a)
    BY DEF ListPage
  <2> HIDE DEF pages, S, filters
  <2>3. ArePaged(S, pages, filters, MaxToday)
    BY <2>1, <2>2, PagesAscend
  <2> QED
    BY <2>3 DEF pages, S, filters
<1>5. ASSUME NEW kind, NEW c, NEW i
      PROVE  ArePaged(History(kind, c, i),
                      [a \in 0 .. r |-> HistoryPage(kind, c, i, a)],
                      <<kind, c, i>>, r)
  <2> DEFINE pages   == [a \in 0 .. r |-> HistoryPage(kind, c, i, a)]
             ids     == History(kind, c, i)
             filters == <<kind, c, i>>
  <2>1. ids \subseteq DOMAIN resolutions
    BY DEF History, OfKind
  <2>2. \A a \in 0 .. r : /\ pages[a].items = PageOf(ids, a)
                          /\ pages[a].next = NextCursor(filters, ids, a)
    BY DEF HistoryPage
  <2> HIDE DEF pages, ids, filters, r
  <2>3. ArePaged(ids, pages, filters, r)
    BY <1>2, <2>1, <2>2, PagesDescend
  <2> QED
    BY <2>3 DEF pages, ids, filters
<1>6. ASSUME NEW c, NEW i
      PROVE  /\ ArePaged(History("TRANSFER", c, i),
                         [a \in 0 .. r |-> TransferHistory(c, i, a)],
                         <<"TRANSFER", c, i>>, r)
             /\ ArePaged(History("OFFSET", c, i),
                         [a \in 0 .. r |-> OffsetHistory(c, i, a)],
                         <<"OFFSET", c, i>>, r)
  BY <1>5 DEF TransferHistory, OffsetHistory
<1>7. ASSUME NEW i
      PROVE  ArePaged(Waivers(i), [a \in 0 .. r |-> WaiverHistory(i, a)],
                      <<"WAIVER", NoCycle, i>>, r)
  <2>1. \A a : WaiverHistory(i, a) = HistoryPage("WAIVER", NoCycle, i, a)
    BY Zenon DEF WaiverHistory, HistoryPage, Waivers
  <2> QED
    BY <1>5, <2>1 DEF Waivers
<1>8. ASSUME NEW S \in SUBSET Existing, NEW m \in Parties, NEW direction \in Directions
      PROVE  ArePaged(SelectedObligations(S, m, direction),
                      [a \in 0 .. n |-> SelectedPage(S, m, direction, a)],
                      <<m, S, direction>>, n)
  <2> DEFINE pages   == [a \in 0 .. n |-> SelectedPage(S, m, direction, a)]
             ids     == SelectedObligations(S, m, direction)
             filters == <<m, S, direction>>
  <2>1. ids \subseteq Ids
    BY DEF SelectedObligations, SeenAs, InCycle
  <2>2. \A a \in 0 .. n : /\ pages[a].items = PageOf(ids, a)
                          /\ pages[a].next = NextCursor(filters, ids, a)
    BY DEF SelectedPage
  <2> HIDE DEF pages, ids, filters, n
  <2>3. ArePaged(ids, pages, filters, n)
    BY <1>1, <2>1, <2>2, PagesDescend
  <2> QED
    BY <2>3 DEF pages, ids, filters
<1> QED
  BY <1>3, <1>4, <1>6, <1>7, <1>8, Zenon DEF PagesListAll

\* The position, the lists of cycles, the obligations and the histories agree, each read
\* by queries of its own and page by page.
THEOREM ScreensAgree == Spec => []ViewsAgree
<1>1. Init => OffsetsHaveHalves
  BY HalvesInit
<1>2. Inv /\ OffsetsHaveHalves /\ [Next]_vars => OffsetsHaveHalves'
  BY HalvesStep
<1>3. Inv /\ DischargeInv /\ OffsetsHaveHalves => ViewsAgree
  BY PositionListed, BreakdownOfEach, HistoriesOfEach, ResolutionsOfEach,
     SelectionOfEach, PagesOfEach DEF ViewsAgree
<1>4. Spec => []OffsetsHaveHalves
  BY <1>1, <1>2, Invariant, PTL DEF Spec
<1> QED
  BY <1>3, <1>4, DischargesAreTold, Invariant, PTL
=============================================================================
