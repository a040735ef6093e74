----------------------- MODULE InstallmentPlansProofs -----------------------
(***************************************************************************)
(* Proofs about InstallmentPlans: for any installments, dates, amounts and *)
(* bounds at most one payoff stands, it was of what its installments had   *)
(* left, and what is left of a plan follows from the money.                *)
(***************************************************************************)
EXTENDS InstallmentPlans, SumTheorems

-----------------------------------------------------------------------------
(***************************************************************************)
(* What the tables hold.                                                   *)
(***************************************************************************)
TermType == [kind : {"VERSION", "ADJUSTMENT"}, from : Nat, amount : Int]

\* The first term of an installment is the version it was created with.
Terms == {terms \in Seq(TermType) :
             terms # <<>> /\ terms[1].kind = "VERSION" /\ terms[1].from = 0}

PaymentType == [amount : Int, reversed : Int]

FactType == [kind : Kinds \cup {"DISBURSEMENT"}, amount : Int, reversed : Int,
             remaining : Int, settled : Seq(PaymentType)]

AnticipationType == [expected : Int, paid : Int]

ResolutionType == [type : {"PAYOFF", "CANCELLED"}, payoff : Nat, expected : Int,
                   compensated : BOOLEAN]

PayoffType == [expected : Int, paid : Int, compensated : BOOLEAN]

Statuses == {"PENDING", "PARTIALLY_FULFILLED", "FULFILLED"}

ItemType ==
    [terms : Terms, first : Nat, facts : Seq(FactType), status : Statuses,
     anticipation : AnticipationType, resolutions : Seq(ResolutionType)]

PlanIsTyped ==
    /\ today \in Nat
    /\ installments \in [Positions -> ItemType]
    /\ payoffs \in Seq(PayoffType)

-----------------------------------------------------------------------------
(***************************************************************************)
(* What an installment costs, and what is left of it, are numbers.         *)
(***************************************************************************)
LEMMA GreatestIsIn ==
    ASSUME NEW n \in Nat, NEW S \in SUBSET (1 .. n), S # {}
    PROVE  Max(S) \in S
<1>1. PICK T : T = {n - x : x \in S}
  OBVIOUS
<1>2. T \in SUBSET Nat /\ T # {}
  <2>1. \A x \in S : n - x \in Nat
    OBVIOUS
  <2> QED
    BY <1>1, <2>1
<1>3. PICK k \in T : \A m \in T : k <= m
  BY <1>2, LeastNatural
<1>4. PICK x \in S : k = n - x
  BY <1>1, <1>3
<1>5. \A y \in S : x >= y
  <2> TAKE y \in S
  <2>1. n - y \in T
    BY <1>1
  <2>2. n - x <= n - y /\ x \in Int /\ y \in Int
    BY <1>3, <1>4, <2>1
  <2> QED
    BY <2>2
<1> QED
  BY <1>5 DEF Max

LEMMA TermsAreSequences ==
    ASSUME NEW terms \in Terms
    PROVE  /\ terms \in Seq(TermType) /\ Len(terms) \in Nat \ {0}
           /\ DOMAIN terms = 1 .. Len(terms)
           /\ \A t \in DOMAIN terms : terms[t].amount \in Int
<1>1. terms \in Seq(TermType) /\ terms # <<>>
  BY DEF Terms
<1>2. /\ Len(terms) \in Nat \ {0} /\ DOMAIN terms = 1 .. Len(terms)
      /\ \A t \in DOMAIN terms : terms[t] \in TermType
  BY <1>1
<1> QED
  BY <1>1, <1>2 DEF TermType

LEMMA ApplicableIsATerm ==
    ASSUME NEW item \in ItemType, NEW day \in Nat
    PROVE  Applicable(item, day) \in DOMAIN item.terms
<1>1. PICK terms, first : terms = item.terms /\ first = item.first
  OBVIOUS
<1>2. terms \in Terms /\ first \in Nat
  BY <1>1 DEF ItemType
<1>3. PICK S : S = {t \in DOMAIN terms : /\ terms[t].kind = "VERSION"
                                         /\ terms[t].from <= day
                                         /\ terms[t].from <= first}
  OBVIOUS
<1>4. Len(terms) \in Nat /\ DOMAIN terms = 1 .. Len(terms) /\ 1 \in DOMAIN terms
  BY <1>2, TermsAreSequences
<1>5. 1 \in S
  BY <1>2, <1>3, <1>4 DEF Terms
<1>6. S \in SUBSET (1 .. Len(terms)) /\ S # {}
  BY <1>3, <1>4, <1>5
<1>7. Max(S) \in S
  BY <1>4, <1>6, GreatestIsIn
<1>8. Applicable(item, day) = Max(S)
  BY <1>1, <1>3 DEF Applicable
<1> QED
  BY <1>1, <1>3, <1>7, <1>8

LEMMA AmountIsInt ==
    ASSUME NEW item \in ItemType, NEW day \in Nat
    PROVE  Amount(item, day) \in Int
<1>1. PICK terms, v : terms = item.terms /\ v = Applicable(item, day)
  OBVIOUS
<1>2. terms \in Terms /\ v \in DOMAIN terms
  BY <1>1, ApplicableIsATerm DEF ItemType
<1>3. /\ Len(terms) \in Nat /\ DOMAIN terms = 1 .. Len(terms)
      /\ \A t \in DOMAIN terms : terms[t].amount \in Int
  BY <1>2, TermsAreSequences
<1>4. PICK f : f = [t \in Later(terms, v) |-> terms[t].amount]
  OBVIOUS
<1>5. IsSummable(f)
  <2>1. DOMAIN f = Later(terms, v) /\ Later(terms, v) \subseteq 1 .. Len(terms)
    BY <1>3, <1>4 DEF Later
  <2>2. IsFiniteSet(1 .. Len(terms))
    BY <1>3, FS_Interval
  <2>3. IsFiniteSet(DOMAIN f)
    BY <2>1, <2>2, FS_Subset
  <2>4. \A t \in DOMAIN f : f[t] \in Int
    BY <1>3, <1>4, <2>1
  <2> QED
    BY <2>3, <2>4 DEF IsSummable
<1>6. SumFunction(f) \in Int
  BY <1>5, TotalIsInt
<1>7. Amount(item, day) = terms[v].amount + SumFunction(f)
  BY <1>1, <1>4 DEF Amount, AmountSince
<1> QED
  BY <1>2, <1>3, <1>6, <1>7

LEMMA FulfilledIsInt ==
    ASSUME NEW item, item.facts \in Seq(FactType)
    PROVE  Fulfilled(item) \in Int
<1>1. PICK facts : facts = item.facts
  OBVIOUS
<1>2. PICK f : f = [i \in DOMAIN facts |-> Valid(facts[i])]
  OBVIOUS
<1>3. Len(facts) \in Nat /\ DOMAIN f = 1 .. Len(facts) /\ \A i \in DOMAIN f : facts[i] \in FactType
  BY <1>1, <1>2
<1>4. IsSummable(f)
  <2>1. IsFiniteSet(DOMAIN f)
    BY <1>3, FS_Interval
  <2>2. \A i \in DOMAIN f : f[i] \in Int
    BY <1>2, <1>3 DEF Valid, FactType
  <2> QED
    BY <2>1, <2>2 DEF IsSummable
<1>5. Fulfilled(item) = SumFunction(f)
  BY <1>1, <1>2 DEF Fulfilled, AmountsOf, SumOf
<1> QED
  BY <1>4, <1>5, TotalIsInt

LEMMA LeftIsInt ==
    ASSUME NEW item \in ItemType, NEW day \in Nat
    PROVE  /\ Effective(item, day) \in Int
           /\ Fulfilled(item) \in Int
           /\ Left(item, day) \in Int
<1>1. item.anticipation.paid \in Int /\ item.anticipation.expected \in Int
  BY DEF ItemType, AnticipationType
<1>2. Amount(item, day) \in Int
  BY AmountIsInt
<1>3. Effective(item, day) \in Int
  BY <1>1, <1>2 DEF Effective
<1>4. item.facts \in Seq(FactType)
  BY DEF ItemType
<1>5. Fulfilled(item) \in Int
  BY <1>4, FulfilledIsInt
<1> QED
  BY <1>3, <1>5 DEF Left

-----------------------------------------------------------------------------
(***************************************************************************)
(* What a command makes of an installment is one, and was resolved as it   *)
(* was.                                                                    *)
(***************************************************************************)
Keeps(item, n) == n \in ItemType /\ n.resolutions = item.resolutions

LEMMA StatusIsOne ==
    ASSUME NEW row, NEW n
    PROVE  StatusOf(row) \in Statuses /\ ReversedStatus(row, n) \in Statuses
BY DEF StatusOf, ReversedStatus, Statuses

LEMMA PaidKeeps ==
    ASSUME NEW item \in ItemType, NEW facts \in Seq(FactType), NEW status \in Statuses,
           NEW n, n = [item EXCEPT !.facts = facts, !.status = status]
    PROVE  Keeps(item, n)
BY DEF Keeps, ItemType

LEMMA FactAppended ==
    ASSUME NEW facts \in Seq(FactType), NEW kind \in Kinds \cup {"DISBURSEMENT"},
           NEW amount \in Int
    PROVE  Append(facts, NewFact(kind, amount)) \in Seq(FactType)
<1>1. PICK fact : fact = NewFact(kind, amount)
  OBVIOUS
<1>2. fact \in FactType
  <2>1. <<>> \in Seq(PaymentType)
    OBVIOUS
  <2>2. (IF kind = "EXTERNAL_LIABILITY" THEN amount ELSE 0) \in Int
    OBVIOUS
  <2> QED
    BY <1>1, <2>1, <2>2 DEF NewFact, FactType
<1>3. Append(facts, fact) \in Seq(FactType)
  BY <1>2
<1> QED
  BY <1>1, <1>3

LEMMA FactReplaced ==
    ASSUME NEW facts \in Seq(FactType), NEW i \in DOMAIN facts, NEW fact \in FactType
    PROVE  [facts EXCEPT ![i] = fact] \in Seq(FactType)
OBVIOUS

LEMMA FirstIsADay ==
    ASSUME NEW a \in Nat, NEW b \in Nat
    PROVE  Min({a, b}) \in Nat
<1>1. {a, b} \in SUBSET Nat /\ {a, b} # {}
  OBVIOUS
<1> QED
  BY <1>1, MinIsLeast

\* A fact that is recorded, or that anticipates.
LEMMA TakesKeeps ==
    ASSUME NEW item \in ItemType, NEW day \in Nat, NEW on \in Nat,
           NEW kind \in Kinds \cup {"DISBURSEMENT"}, NEW amount \in Int,
           NEW n, n = Takes(item, WithFact(Row(item, day), kind, amount), on)
    PROVE  Keeps(item, n)
<1>1. PICK row : row = WithFact(Row(item, day), kind, amount)
  OBVIOUS
<1>2. PICK facts, status : facts = row.facts /\ status = row.status
  OBVIOUS
<1>3. facts = Append(item.facts, NewFact(kind, amount)) /\ status \in Statuses
  <2>1. PICK next : next = [Row(item, day) EXCEPT !.version = @ + 1,
                                !.facts = Append(@, NewFact(kind, amount))]
    OBVIOUS
  <2>2. row = [next EXCEPT !.status = StatusOf(next)]
    BY <1>1, <2>1 DEF WithFact
  <2>3. /\ next.facts = Append(item.facts, NewFact(kind, amount))
        /\ row.facts = next.facts /\ row.status = StatusOf(next)
    BY <2>1, <2>2 DEF Row
  <2> QED
    BY <1>2, <2>3, StatusIsOne
<1>4. facts \in Seq(FactType)
  BY <1>3, FactAppended DEF ItemType
<1>5. PICK first : first = Min({item.first, on})
  OBVIOUS
<1>6. first \in Nat
  BY <1>5, FirstIsADay DEF ItemType
<1>7. PICK paid : paid = [item EXCEPT !.facts = facts, !.status = status]
  OBVIOUS
<1>8. Keeps(item, paid)
  BY <1>3, <1>4, <1>7, PaidKeeps
<1>9. n = [paid EXCEPT !.first = first]
  BY <1>1, <1>2, <1>5, <1>7 DEF Takes, Bumped, ItemType
<1> QED
  BY <1>6, <1>8, <1>9 DEF Keeps, ItemType

LEMMA SettledKeeps ==
    ASSUME NEW item \in ItemType, NEW day \in Nat, NEW f, NEW amount \in Int,
           CanSettle(Row(item, day), f, amount),
           NEW n, n = [item EXCEPT !.facts = WithSettlement(Row(item, day), f, amount).facts]
    PROVE  Keeps(item, n)
<1>1. PICK facts : facts = item.facts
  OBVIOUS
<1>2. facts \in Seq(FactType) /\ f \in DOMAIN facts
  BY <1>1 DEF CanSettle, Row, ItemType
<1>3. PICK fact : fact = [facts[f] EXCEPT !.remaining = @ - amount,
                              !.settled = Append(@, [amount |-> amount, reversed |-> 0])]
  OBVIOUS
<1>4. fact \in FactType
  <2>1. facts[f] \in FactType
    BY <1>2
  <2>2. PICK settled : settled = Append(facts[f].settled, [amount |-> amount, reversed |-> 0])
    OBVIOUS
  <2>3. settled \in Seq(PaymentType)
    BY <2>1, <2>2 DEF FactType, PaymentType
  <2>4. facts[f].remaining - amount \in Int
    BY <2>1 DEF FactType
  <2> QED
    BY <1>3, <2>1, <2>2, <2>3, <2>4 DEF FactType
<1>5. WithSettlement(Row(item, day), f, amount).facts = [facts EXCEPT ![f] = fact]
  <2>1. WithSettlement(Row(item, day), f, amount).facts
            = [facts EXCEPT ![f].remaining = @ - amount,
                            ![f].settled = Append(@, [amount |-> amount, reversed |-> 0])]
    BY <1>1 DEF WithSettlement, Row
  <2> QED
    BY <1>2, <1>3, <2>1 DEF FactType
<1>6. [facts EXCEPT ![f] = fact] \in Seq(FactType)
  BY <1>2, <1>4, FactReplaced
<1> QED
  BY <1>5, <1>6 DEF Keeps, ItemType

LEMMA ReversedKeeps ==
    ASSUME NEW item \in ItemType, NEW day \in Nat, NEW f, NEW amount \in Int,
           CanReverse(Row(item, day), f, amount),
           NEW row, row = WithReversal(Row(item, day), f, amount),
           NEW n, n = [item EXCEPT !.facts = row.facts, !.status = row.status]
    PROVE  Keeps(item, n)
<1>1. PICK facts : facts = item.facts
  OBVIOUS
<1>2. facts \in Seq(FactType) /\ f \in DOMAIN facts
  BY <1>1 DEF CanReverse, Row, ItemType
<1>3. PICK remaining : remaining = IF facts[f].kind = "EXTERNAL_LIABILITY"
                                   THEN facts[f].remaining - amount ELSE facts[f].remaining
  OBVIOUS
<1>4. PICK fact : fact = [facts[f] EXCEPT !.reversed = @ + amount, !.remaining = remaining]
  OBVIOUS
<1>5. fact \in FactType
  <2>1. facts[f] \in FactType
    BY <1>2
  <2>2. remaining \in Int /\ facts[f].reversed + amount \in Int
    BY <1>3, <2>1 DEF FactType
  <2> QED
    BY <1>4, <2>1, <2>2 DEF FactType
<1>6. row.facts = [facts EXCEPT ![f] = fact] /\ row.status \in Statuses
  <2>1. row.facts
            = [facts EXCEPT ![f].reversed = @ + amount,
                            ![f].remaining = IF facts[f].kind = "EXTERNAL_LIABILITY"
                                             THEN @ - amount ELSE @]
    BY <1>1 DEF WithReversal, Row
  <2>2. row.facts = [facts EXCEPT ![f] = fact]
    BY <1>2, <1>3, <1>4, <2>1 DEF FactType
  <2>3. row.status = ReversedStatus(Row(item, day), Fulfilled(Row(item, day)) - amount)
    BY DEF WithReversal, Row
  <2> QED
    BY <2>2, <2>3, StatusIsOne
<1>7. [facts EXCEPT ![f] = fact] \in Seq(FactType)
  BY <1>2, <1>5, FactReplaced
<1> QED
  BY <1>6, <1>7, PaidKeeps

LEMMA SettlementReversedKeeps ==
    ASSUME NEW item \in ItemType, NEW day \in Nat, NEW f, NEW s, NEW amount \in Int,
           CanReverseSettlement(Row(item, day), f, s, amount),
           NEW row, row = WithSettlementReversal(Row(item, day), f, s, amount),
           NEW n, n = [item EXCEPT !.facts = row.facts, !.status = row.status]
    PROVE  Keeps(item, n)
<1>1. PICK facts, settled : facts = item.facts /\ settled = facts[f].settled
  OBVIOUS
<1>2. /\ facts \in Seq(FactType) /\ f \in DOMAIN facts /\ facts[f] \in FactType
      /\ settled \in Seq(PaymentType) /\ s \in DOMAIN settled
  <2>1. facts \in Seq(FactType) /\ f \in DOMAIN facts /\ s \in DOMAIN settled
    BY <1>1 DEF CanReverseSettlement, Row, ItemType
  <2>2. facts[f] \in FactType
    BY <2>1
  <2> QED
    BY <1>1, <2>1, <2>2 DEF FactType
<1>3. PICK payment : payment = [settled[s] EXCEPT !.reversed = @ + amount]
  OBVIOUS
<1>4. payment \in PaymentType
  <2>1. settled[s] \in PaymentType
    BY <1>2
  <2> QED
    BY <1>3, <2>1 DEF PaymentType
<1>5. PICK payments : payments = [settled EXCEPT ![s] = payment]
  OBVIOUS
<1>6. payments \in Seq(PaymentType)
  BY <1>2, <1>4, <1>5
<1>7. PICK fact : fact = [facts[f] EXCEPT !.remaining = @ + amount, !.settled = payments]
  OBVIOUS
<1>8. fact \in FactType
  <2>1. facts[f].remaining + amount \in Int
    BY <1>2 DEF FactType
  <2> QED
    BY <1>2, <1>6, <1>7, <2>1 DEF FactType
<1>9. row.facts = [facts EXCEPT ![f] = fact] /\ row.status \in Statuses
  <2>1. row.facts = [facts EXCEPT ![f].remaining = @ + amount,
                                  ![f].settled[s].reversed = @ + amount]
    BY <1>1 DEF WithSettlementReversal, Row
  <2>2. row.facts = [facts EXCEPT ![f] = fact]
    BY <1>1, <1>2, <1>3, <1>5, <1>7, <2>1 DEF FactType
  <2>3. row.status = ReversedStatus(Row(item, day), Fulfilled(Row(item, day)))
    BY DEF WithSettlementReversal, Row
  <2> QED
    BY <2>2, <2>3, StatusIsOne
<1>10. [facts EXCEPT ![f] = fact] \in Seq(FactType)
  BY <1>2, <1>8, FactReplaced
<1> QED
  BY <1>9, <1>10, PaidKeeps

\* A term more.
LEMMA TermAppended ==
    ASSUME NEW terms \in Terms, NEW term \in TermType
    PROVE  Append(terms, term) \in Terms
<1>1. terms \in Seq(TermType) /\ terms # <<>> /\ terms[1].kind = "VERSION" /\ terms[1].from = 0
  BY DEF Terms
<1>2. PICK more : more = Append(terms, term)
  OBVIOUS
<1>3. more \in Seq(TermType) /\ more # <<>> /\ more[1] = terms[1]
  BY <1>1, <1>2
<1>4. more \in Terms
  BY <1>1, <1>3 DEF Terms
<1> QED
  BY <1>2, <1>4

LEMMA TermKeeps ==
    ASSUME NEW item \in ItemType, NEW term \in TermType, NEW status \in Statuses,
           NEW n, n = [item EXCEPT !.terms = Append(item.terms, term), !.status = status]
    PROVE  Keeps(item, n)
<1>1. PICK terms : terms = Append(item.terms, term)
  OBVIOUS
<1>2. terms \in Terms
  BY <1>1, TermAppended DEF ItemType
<1> QED
  BY <1>1, <1>2 DEF Keeps, ItemType

-----------------------------------------------------------------------------
(***************************************************************************)
(* The commands that leave every installment resolved as it was.           *)
(***************************************************************************)
OnlyPays ==
    /\ today' \in Nat
    /\ installments' \in [Positions -> ItemType]
    /\ payoffs' = payoffs
    /\ \A i \in Positions : installments'[i].resolutions = installments[i].resolutions

LEMMA PositionsAreFinite ==
    /\ IsFiniteSet(Positions)
    /\ Positions \subseteq Nat
    /\ \A i \in Positions : Amounts[i] \in Nat \ {0}
<1>1. Len(Amounts) \in Nat /\ Positions = 1 .. Len(Amounts)
  BY InstallmentsAssumption DEF Positions
<1>2. IsFiniteSet(1 .. Len(Amounts))
  BY <1>1, FS_Interval
<1>3. \A i \in Positions : Amounts[i] \in Nat \ {0}
  BY InstallmentsAssumption DEF Positions
<1> QED
  BY <1>1, <1>2, <1>3

LEMMA EachItem ==
    ASSUME PlanIsTyped
    PROVE  /\ \A i \in Positions : Item(i) \in ItemType /\ LeftOf(i) \in Int
           /\ DOMAIN installments = Positions
<1>1. \A i \in Positions : installments[i] \in ItemType
  BY DEF PlanIsTyped
<1>2. \A i \in Positions : Left(installments[i], today) \in Int
  BY <1>1, LeftIsInt DEF PlanIsTyped
<1> QED
  BY <1>1, <1>2 DEF Item, LeftOf, PlanIsTyped

LEMMA OneItemChanges ==
    ASSUME PlanIsTyped, NEW i \in Positions, NEW n, Keeps(Item(i), n),
           installments' = [installments EXCEPT ![i] = n],
           UNCHANGED <<today, payoffs>>
    PROVE  OnlyPays
BY DEF PlanIsTyped, Keeps, OnlyPays, Item

LEMMA ItemsChange ==
    ASSUME PlanIsTyped, NEW selected \in SUBSET Positions, NEW changed,
           \A i \in selected : Keeps(Item(i), changed[i]),
           installments' = [i \in Positions |-> IF i \in selected THEN changed[i] ELSE Item(i)],
           UNCHANGED <<today, payoffs>>
    PROVE  OnlyPays
<1>1. \A i \in Positions :
          /\ installments'[i] \in ItemType
          /\ installments'[i].resolutions = installments[i].resolutions
  BY EachItem DEF Keeps, Item
<1> QED
  BY <1>1 DEF PlanIsTyped, OnlyPays

LEMMA RecordOnlyPays ==
    ASSUME PlanIsTyped, NEW i \in Positions, NEW kind \in Kinds, NEW amount \in Paid,
           NEW on \in 1 .. today, Record(i, kind, amount, on)
    PROVE  OnlyPays
<1>1. today \in Nat /\ on \in Nat /\ amount \in Int /\ Item(i) \in ItemType
  BY EachItem, InstallmentsAssumption DEF PlanIsTyped
<1>2. PICK n : n = Takes(Item(i), WithFact(Row(Item(i), today), kind, amount), on)
  OBVIOUS
<1>3. Keeps(Item(i), n)
  BY <1>1, <1>2, TakesKeeps
<1>4. installments' = [installments EXCEPT ![i] = n] /\ UNCHANGED <<today, payoffs>>
  BY <1>2 DEF Record, RowOf, Item
<1> QED
  BY <1>3, <1>4, OneItemChanges

LEMMA SettleOnlyPays ==
    ASSUME PlanIsTyped, NEW i \in Positions, NEW f, NEW amount \in Paid,
           SettleExternal(i, f, amount)
    PROVE  OnlyPays
<1>1. today \in Nat /\ amount \in Int /\ Item(i) \in ItemType
  BY EachItem, InstallmentsAssumption DEF PlanIsTyped
<1>2. PICK n : n = [Item(i) EXCEPT !.facts = WithSettlement(Row(Item(i), today), f, amount).facts]
  OBVIOUS
<1>3. CanSettle(Row(Item(i), today), f, amount)
  BY DEF SettleExternal, RowOf
<1>4. Keeps(Item(i), n)
  BY <1>1, <1>2, <1>3, SettledKeeps
<1>5. installments' = [installments EXCEPT ![i] = n] /\ UNCHANGED <<today, payoffs>>
  BY <1>2 DEF SettleExternal, WithSettled, RowOf
<1> QED
  BY <1>4, <1>5, OneItemChanges

LEMMA AnticipateOnlyPays ==
    ASSUME PlanIsTyped, NEW selected \in SUBSET Positions, NEW on \in 1 .. today,
           NEW paid \in [selected -> Paid], Anticipate(paid, on)
    PROVE  OnlyPays
<1>1. PICK changed : changed = [i \in selected |-> Anticipated(i, paid[i], on)]
  OBVIOUS
<1>2. ASSUME NEW i \in selected
      PROVE  Keeps(Item(i), changed[i])
  <2>1. /\ today \in Nat /\ on \in Nat /\ paid[i] \in Int
        /\ Item(i) \in ItemType /\ LeftOf(i) \in Int
    <3>1. paid[i] \in Paid /\ i \in Positions
      OBVIOUS
    <3>2. Paid \subseteq Int
      BY InstallmentsAssumption
    <3>3. today \in Nat /\ on \in Nat
      BY DEF PlanIsTyped
    <3>4. Item(i) \in ItemType /\ LeftOf(i) \in Int
      BY <3>1, EachItem
    <3> QED
      BY <3>1, <3>2, <3>3, <3>4
  <2>2. PICK n : n = Takes(Item(i), WithFact(Row(Item(i), today), "DISBURSEMENT", paid[i]), on)
    OBVIOUS
  <2>3. Keeps(Item(i), n)
    BY <2>1, <2>2, TakesKeeps
  <2>4. PICK ahead : ahead = [expected |-> LeftOf(i), paid |-> paid[i]]
    OBVIOUS
  <2>5. ahead \in AnticipationType
    BY <2>1, <2>4 DEF AnticipationType
  <2>6. changed[i] = [n EXCEPT !.status = "FULFILLED", !.anticipation = ahead]
    BY <1>1, <2>2, <2>4 DEF Anticipated, RowOf
  <2>7. "FULFILLED" \in Statuses
    BY DEF Statuses
  <2> QED
    BY <2>3, <2>5, <2>6, <2>7 DEF Keeps, ItemType
<1>3. /\ installments' = [i \in Positions |-> IF i \in selected THEN changed[i] ELSE Item(i)]
      /\ UNCHANGED <<today, payoffs>>
  BY <1>1 DEF Anticipate
<1> QED
  BY <1>2, <1>3, ItemsChange

LEMMA AdjustOnlyPays ==
    ASSUME PlanIsTyped, NEW i \in Positions, NEW by \in Deltas, Adjust(i, by)
    PROVE  OnlyPays
<1>1. Item(i) \in ItemType /\ by \in Int
  BY EachItem, InstallmentsAssumption
<1>2. PICK status : status = Adjusted(RowOf(i), by).status
  OBVIOUS
<1>3. status \in Statuses
  BY <1>2 DEF Adjusted, RowOf, Row, Statuses
<1>4. PICK term : term = Adjustment(by)
  OBVIOUS
<1>5. term \in TermType
  BY <1>1, <1>4 DEF Adjustment, TermType
<1>6. PICK n : n = [Item(i) EXCEPT !.terms = Append(Item(i).terms, term), !.status = status]
  OBVIOUS
<1>7. Keeps(Item(i), n)
  BY <1>1, <1>3, <1>5, <1>6, TermKeeps
<1>8. installments' = [installments EXCEPT ![i] = n] /\ UNCHANGED <<today, payoffs>>
  <2>1. installments' = [installments EXCEPT ![i].terms = Append(@, term), ![i].status = status]
    BY <1>2, <1>4 DEF Adjust
  <2>2. installments' = [installments EXCEPT ![i] = n]
    BY <1>1, <1>6, <2>1, EachItem DEF Item, ItemType
  <2> QED
    BY <2>2 DEF Adjust
<1> QED
  BY <1>7, <1>8, OneItemChanges

LEMMA ReverseOnlyPays ==
    ASSUME PlanIsTyped, NEW i \in Positions, NEW f, NEW amount \in Paid,
           ReverseFact(i, f, amount)
    PROVE  OnlyPays
<1>1. today \in Nat /\ amount \in Int /\ Item(i) \in ItemType
  BY EachItem, InstallmentsAssumption DEF PlanIsTyped
<1>2. PICK row : row = WithReversal(Row(Item(i), today), f, amount)
  OBVIOUS
<1>3. PICK n : n = [Item(i) EXCEPT !.facts = row.facts, !.status = row.status]
  OBVIOUS
<1>4. CanReverse(Row(Item(i), today), f, amount)
  BY DEF ReverseFact, RowOf
<1>5. Keeps(Item(i), n)
  BY <1>1, <1>2, <1>3, <1>4, ReversedKeeps
<1>6. installments' = [installments EXCEPT ![i] = n] /\ UNCHANGED <<today, payoffs>>
  <2>1. installments' = [installments EXCEPT ![i].facts = row.facts, ![i].status = row.status]
    BY <1>2 DEF ReverseFact, RowOf
  <2>2. installments' = [installments EXCEPT ![i] = n]
    BY <1>1, <1>3, <2>1, EachItem DEF Item, ItemType
  <2> QED
    BY <2>2 DEF ReverseFact
<1> QED
  BY <1>5, <1>6, OneItemChanges

LEMMA ReverseSettlementOnlyPays ==
    ASSUME PlanIsTyped, NEW i \in Positions, NEW f, NEW s, NEW amount \in Paid,
           ReverseSettlement(i, f, s, amount)
    PROVE  OnlyPays
<1>1. today \in Nat /\ amount \in Int /\ Item(i) \in ItemType
  BY EachItem, InstallmentsAssumption DEF PlanIsTyped
<1>2. PICK row : row = WithSettlementReversal(Row(Item(i), today), f, s, amount)
  OBVIOUS
<1>3. PICK n : n = [Item(i) EXCEPT !.facts = row.facts, !.status = row.status]
  OBVIOUS
<1>4. CanReverseSettlement(Row(Item(i), today), f, s, amount)
  BY DEF ReverseSettlement, RowOf
<1>5. Keeps(Item(i), n)
  BY <1>1, <1>2, <1>3, <1>4, SettlementReversedKeeps
<1>6. installments' = [installments EXCEPT ![i] = n] /\ UNCHANGED <<today, payoffs>>
  <2>1. installments' = [installments EXCEPT ![i].facts = row.facts, ![i].status = row.status]
    BY <1>2 DEF ReverseSettlement, RowOf
  <2>2. installments' = [installments EXCEPT ![i] = n]
    BY <1>1, <1>3, <2>1, EachItem DEF Item, ItemType
  <2> QED
    BY <2>2 DEF ReverseSettlement
<1> QED
  BY <1>5, <1>6, OneItemChanges

\* The portions of a new total are numbers.
LEMMA PortionIsInt ==
    ASSUME PlanIsTyped, NEW selected \in SUBSET Positions, NEW i \in Positions,
           NEW day \in Nat, NEW total \in Int,
           SumFunction([j \in selected |-> Amount(Item(j), day)]) >= 1
    PROVE  Portion(selected, i, day, total) \in Int
<1>1. \A S \in SUBSET selected : SumFunction([j \in S |-> Amount(Item(j), day)]) \in Int
  <2> TAKE S \in SUBSET selected
  <2>1. PICK f : f = [j \in S |-> Amount(Item(j), day)]
    OBVIOUS
  <2>2. IsFiniteSet(S)
    BY PositionsAreFinite, FS_Subset
  <2>3. \A j \in S : Amount(Item(j), day) \in Int
    BY EachItem, AmountIsInt
  <2>4. IsSummable(f)
    BY <2>1, <2>2, <2>3 DEF IsSummable
  <2> QED
    BY <2>1, <2>4, TotalIsInt
<1>2. \A k : Upto(selected, k, day) \in Int
  <2> TAKE k
  <2>1. {j \in selected : j <= k} \in SUBSET selected
    OBVIOUS
  <2> QED
    BY <1>1, <2>1 DEF Upto
<1>3. PICK all : all = SumFunction([j \in selected |-> Amount(Item(j), day)])
  OBVIOUS
<1>4. all \in Nat \ {0}
  BY <1>1, <1>3
<1>5. PICK u \in Int, v \in Int : u = total * Upto(selected, i, day)
                                  /\ v = total * Upto(selected, i - 1, day)
  BY <1>2
<1>6. Portion(selected, i, day, total) = (u \div all) - (v \div all)
  BY <1>3, <1>5 DEF Portion
<1> QED
  BY <1>4, <1>5, <1>6

LEMMA ChangeTermsOnlyPays ==
    ASSUME PlanIsTyped, NEW selected \in SUBSET Positions, NEW day \in 1 .. LastDay,
           NEW total \in Totals, ChangeTerms(selected, day, total)
    PROVE  OnlyPays
<1>1. PICK changed : changed = [i \in selected |->
          [Item(i) EXCEPT !.terms = Append(@, Version(day, Portion(selected, i, day, total)))]]
  OBVIOUS
<1>2. day \in Nat /\ total \in Int
  BY InstallmentsAssumption
<1>3. ASSUME NEW i \in selected
      PROVE  Keeps(Item(i), changed[i])
  <2>1. Item(i) \in ItemType /\ Item(i).status \in Statuses
    BY EachItem DEF ItemType
  <2>2. Portion(selected, i, day, total) \in Int
    BY <1>2, PortionIsInt DEF ChangeTerms
  <2>3. PICK term : term = Version(day, Portion(selected, i, day, total))
    OBVIOUS
  <2>4. term \in TermType
    BY <1>2, <2>2, <2>3 DEF Version, TermType
  <2>5. changed[i] = [Item(i) EXCEPT !.terms = Append(Item(i).terms, term),
                                     !.status = Item(i).status]
    BY <1>1, <2>1, <2>3 DEF ItemType
  <2> QED
    BY <2>1, <2>4, <2>5, TermKeeps
<1>4. /\ installments' = [i \in Positions |-> IF i \in selected THEN changed[i] ELSE Item(i)]
      /\ UNCHANGED <<today, payoffs>>
  BY <1>1 DEF ChangeTerms
<1> QED
  BY <1>3, <1>4, ItemsChange

LEMMA NothingOnlyPays ==
    ASSUME PlanIsTyped, Midnight \/ UNCHANGED vars
    PROVE  OnlyPays
<1>1. today' \in Nat
  BY DEF PlanIsTyped, Midnight, vars
<1> QED
  BY <1>1 DEF PlanIsTyped, OnlyPays, Midnight, vars

\* A step either does, or it is one of the three commands that resolve.
LEMMA Commands ==
    ASSUME PlanIsTyped, [Next]_vars
    PROVE  \/ OnlyPays
           \/ \E paid \in Paid : PayOff(paid)
           \/ ReversePayoff
           \/ \E selected \in SUBSET Positions : CancelFuture(selected)
<1>1. CASE \E i \in Positions, kind \in Kinds, amount \in Paid, on \in 1 .. today :
               Record(i, kind, amount, on)
  BY <1>1, RecordOnlyPays
<1>2. CASE \E i \in Positions, f \in 1 .. MaxFacts, amount \in Paid :
               SettleExternal(i, f, amount) \/ ReverseFact(i, f, amount)
  BY <1>2, SettleOnlyPays, ReverseOnlyPays
<1>3. CASE \E i \in Positions, f, s \in 1 .. MaxFacts, amount \in Paid :
               ReverseSettlement(i, f, s, amount)
  BY <1>3, ReverseSettlementOnlyPays
<1>4. CASE \E selected \in SUBSET Positions \ {{}}, on \in 1 .. today :
               \E paid \in [selected -> Paid] : Anticipate(paid, on)
  BY <1>4, AnticipateOnlyPays
<1>5. CASE \E i \in Positions, by \in Deltas : Adjust(i, by)
  BY <1>5, AdjustOnlyPays
<1>6. CASE \E selected \in SUBSET Positions, day \in 1 .. LastDay, total \in Totals :
               ChangeTerms(selected, day, total)
  BY <1>6, ChangeTermsOnlyPays
<1>7. CASE Midnight \/ UNCHANGED vars
  BY <1>7, NothingOnlyPays
<1> QED
  BY <1>1, <1>2, <1>3, <1>4, <1>5, <1>6, <1>7 DEF Next

-----------------------------------------------------------------------------
(***************************************************************************)
(* The invariant.                                                          *)
(***************************************************************************)
PaidOffPart(item) ==
    IF ResolvedAs(item, "PAYOFF") THEN Last(item.resolutions).expected ELSE 0

PaidOffParts(items) == [i \in Positions |-> PaidOffPart(items[i])]

\* A payoff that was followed by another has been reversed: at most the last one stands.
OnePayoffStands == \A p \in DOMAIN payoffs : p # Len(payoffs) => payoffs[p].compensated

\* The payoff that stands is of what the installments it resolved had left, with what
\* earlier ones were dearer or cheaper; without it no installment is resolved by one.
PayoffCoversItems ==
    IF Payoff(payoffs) = 0
    THEN \A i \in Positions : ~ ResolvedAs(installments[i], "PAYOFF")
    ELSE Last(payoffs).expected
             = SumFunction(PaidOffParts(installments)) + GlobalAdjustment(payoffs)

PlanInv == PlanIsTyped /\ OnePayoffStands /\ PayoffCoversItems

LEMMA ResolutionOf ==
    ASSUME NEW item \in ItemType, Resolved(item)
    PROVE  /\ Last(item.resolutions) \in ResolutionType
           /\ Last(item.resolutions).expected \in Int
<1>1. PICK s : s = item.resolutions
  OBVIOUS
<1>2. s \in Seq(ResolutionType) /\ s # <<>>
  BY <1>1 DEF ItemType, Resolved
<1>3. s[Len(s)] \in ResolutionType
  BY <1>2
<1> QED
  BY <1>1, <1>3 DEF Last, ResolutionType

LEMMA PartsAreSummable ==
    ASSUME NEW items \in [Positions -> ItemType]
    PROVE  IsSummable(PaidOffParts(items)) /\ SumFunction(PaidOffParts(items)) \in Int
<1>1. \A i \in Positions : PaidOffPart(items[i]) \in Int
  BY ResolutionOf DEF PaidOffPart, ResolvedAs
<1>2. IsSummable(PaidOffParts(items))
  BY <1>1, PositionsAreFinite DEF IsSummable, PaidOffParts
<1> QED
  BY <1>2, TotalIsInt

LEMMA AdjustmentIsSummable ==
    ASSUME NEW pays \in Seq(PayoffType)
    PROVE  /\ IsSummable([p \in Compensated(pays) |-> pays[p].paid - pays[p].expected])
           /\ GlobalAdjustment(pays) \in Int
<1>1. PICK f : f = [p \in Compensated(pays) |-> pays[p].paid - pays[p].expected]
  OBVIOUS
<1>2. /\ Len(pays) \in Nat /\ DOMAIN pays = 1 .. Len(pays)
      /\ \A p \in DOMAIN pays : pays[p] \in PayoffType
  OBVIOUS
<1>3. IsFiniteSet(1 .. Len(pays))
  BY <1>2, FS_Interval
<1>4. DOMAIN f \subseteq 1 .. Len(pays)
  BY <1>1, <1>2 DEF Compensated
<1>5. IsFiniteSet(DOMAIN f)
  BY <1>3, <1>4, FS_Subset
<1>6. \A p \in DOMAIN f : f[p] \in Int
  BY <1>1, <1>2, <1>4 DEF PayoffType
<1>7. IsSummable(f)
  BY <1>5, <1>6 DEF IsSummable
<1>8. SumFunction(f) \in Int
  BY <1>7, TotalIsInt
<1> QED
  BY <1>1, <1>7, <1>8 DEF GlobalAdjustment

LEMMA PlanInit ==
    ASSUME Init
    PROVE  PlanInv
<1>1. ASSUME NEW i \in Positions
      PROVE  installments[i] \in ItemType /\ ~ ResolvedAs(installments[i], "PAYOFF")
  <2>1. PICK item : item = installments[i]
    OBVIOUS
  <2>2. PICK terms : terms = <<Version(0, Amounts[i])>>
    OBVIOUS
  <2>3. item = [terms |-> terms, first |-> Never, facts |-> <<>>, status |-> "PENDING",
                anticipation |-> None, resolutions |-> <<>>]
    BY <2>1, <2>2 DEF Init, NewInstallment
  <2>4. terms \in Terms
    <3>1. Version(0, Amounts[i]) \in TermType
      BY PositionsAreFinite DEF Version, TermType
    <3>2. terms \in Seq(TermType) /\ terms # <<>> /\ terms[1] = Version(0, Amounts[i])
      BY <2>2, <3>1
    <3> QED
      BY <3>2 DEF Terms, Version
  <2>5. /\ <<>> \in Seq(FactType) /\ <<>> \in Seq(ResolutionType)
        /\ Never \in Nat /\ None \in AnticipationType /\ "PENDING" \in Statuses
    BY InstallmentsAssumption DEF Never, None, AnticipationType, Statuses
  <2>6. item \in ItemType
    BY <2>3, <2>4, <2>5 DEF ItemType
  <2>7. ~ ResolvedAs(item, "PAYOFF")
    BY <2>3 DEF ResolvedAs, Resolved
  <2> QED
    BY <2>1, <2>6, <2>7
<1>2. PlanIsTyped
  BY <1>1 DEF Init, PlanIsTyped
<1>3. Payoff(payoffs) = 0 /\ DOMAIN payoffs = {}
  BY DEF Init, Payoff
<1> QED
  BY <1>1, <1>2, <1>3 DEF PlanInv, OnePayoffStands, PayoffCoversItems

-----------------------------------------------------------------------------
(***************************************************************************)
(* The commands that resolve, and the step.                                *)
(***************************************************************************)
LEMMA OnlyPaysKeepsInv ==
    ASSUME PlanInv, OnlyPays
    PROVE  PlanInv'
<1>1. PlanIsTyped'
  BY DEF PlanInv, PlanIsTyped, OnlyPays
<1>2. \A i \in Positions :
          /\ ResolvedAs(installments'[i], "PAYOFF") <=> ResolvedAs(installments[i], "PAYOFF")
          /\ PaidOffPart(installments'[i]) = PaidOffPart(installments[i])
  BY DEF OnlyPays, ResolvedAs, Resolved, PaidOffPart
<1>3. PaidOffParts(installments') = PaidOffParts(installments)
  BY <1>2 DEF PaidOffParts
<1>4. OnePayoffStands'
  BY DEF PlanInv, OnlyPays, OnePayoffStands
<1>5. PayoffCoversItems'
  BY <1>2, <1>3 DEF PlanInv, OnlyPays, PayoffCoversItems
<1> QED
  BY <1>1, <1>4, <1>5 DEF PlanInv

LEMMA ResolvedItem ==
    ASSUME PlanIsTyped, NEW i \in Positions, NEW type \in {"PAYOFF", "CANCELLED"},
           NEW payoff \in Nat, NEW n, n = ResolvedWith(i, type, payoff)
    PROVE  /\ n \in ItemType
           /\ Resolved(n) /\ (\A as : ResolvedAs(n, as) <=> as = type)
           /\ Last(n.resolutions).expected = LeftOf(i)
<1>1. Item(i) \in ItemType /\ LeftOf(i) \in Int
  BY EachItem
<1>2. PICK s : s = Item(i).resolutions
  OBVIOUS
<1>3. PICK r : r = [type |-> type, payoff |-> payoff, expected |-> LeftOf(i),
                    compensated |-> FALSE]
  OBVIOUS
<1>4. s \in Seq(ResolutionType) /\ r \in ResolutionType
  BY <1>1, <1>2, <1>3 DEF ItemType, ResolutionType
<1>5. PICK more : more = Append(s, r)
  OBVIOUS
<1>6. more \in Seq(ResolutionType) /\ more # <<>> /\ more[Len(more)] = r
  BY <1>4, <1>5
<1>7. n = [Item(i) EXCEPT !.resolutions = more]
  BY <1>2, <1>3, <1>5 DEF ResolvedWith
<1>8. n \in ItemType /\ n.resolutions = more
  BY <1>1, <1>6, <1>7 DEF ItemType
<1>9. Last(n.resolutions) = r
  BY <1>6, <1>8 DEF Last
<1>10. Resolved(n) /\ \A as : ResolvedAs(n, as) <=> as = type
  BY <1>3, <1>6, <1>8, <1>9 DEF Resolved, ResolvedAs
<1> QED
  BY <1>3, <1>8, <1>9, <1>10

LEMMA OpenIsUnresolved ==
    ASSUME NEW i \in Open
    PROVE  i \in Positions /\ ~ Resolved(Item(i))
BY DEF Open, LeftOf, Left

LEMMA CancelKeepsInv ==
    ASSUME PlanInv, NEW selected \in SUBSET Positions, CancelFuture(selected)
    PROVE  PlanInv'
<1>1. PlanIsTyped /\ OnePayoffStands /\ PayoffCoversItems
  BY DEF PlanInv
<1>2. /\ installments' = WithCancelled(selected) /\ selected \subseteq Open
      /\ today' = today /\ payoffs' = payoffs
  BY DEF CancelFuture
<1>3. ASSUME NEW i \in Positions
      PROVE  /\ installments'[i] \in ItemType
             /\ ResolvedAs(installments'[i], "PAYOFF") <=> ResolvedAs(installments[i], "PAYOFF")
             /\ PaidOffPart(installments'[i]) = PaidOffPart(installments[i])
  <2>1. CASE i \in selected
    <3>1. installments'[i] = ResolvedWith(i, "CANCELLED", 0)
      BY <1>2, <2>1 DEF WithCancelled
    <3>2. installments'[i] \in ItemType /\ ~ ResolvedAs(installments'[i], "PAYOFF")
      BY <1>1, <3>1, ResolvedItem
    <3>3. ~ ResolvedAs(installments[i], "PAYOFF")
      BY <1>2, <2>1, OpenIsUnresolved DEF ResolvedAs, Item
    <3> QED
      BY <3>2, <3>3 DEF PaidOffPart
  <2>2. CASE i \notin selected
    <3>1. installments'[i] = installments[i]
      BY <1>2, <2>2 DEF WithCancelled, Item
    <3> QED
      BY <1>1, <3>1 DEF PlanIsTyped
  <2> QED
    BY <2>1, <2>2
<1>4. PlanIsTyped'
  <2>1. installments' \in [Positions -> ItemType]
    BY <1>2, <1>3 DEF WithCancelled
  <2> QED
    BY <1>1, <1>2, <2>1 DEF PlanIsTyped
<1>5. PaidOffParts(installments') = PaidOffParts(installments)
  BY <1>3 DEF PaidOffParts
<1>6. OnePayoffStands'
  BY <1>1, <1>2 DEF OnePayoffStands
<1>7. PayoffCoversItems'
  BY <1>1, <1>2, <1>3, <1>5 DEF PayoffCoversItems
<1> QED
  BY <1>4, <1>6, <1>7 DEF PlanInv

LEMMA ReversePayoffKeepsInv ==
    ASSUME PlanInv, ReversePayoff
    PROVE  PlanInv'
<1>1. PlanIsTyped /\ OnePayoffStands /\ PayoffCoversItems
  BY DEF PlanInv
<1>2. PICK pays, n : pays = payoffs /\ n = Payoff(payoffs)
  OBVIOUS
<1>3. pays \in Seq(PayoffType) /\ pays # <<>> /\ n = Len(pays) /\ n \in DOMAIN pays
  <2>1. pays \in Seq(PayoffType) /\ n # 0
    BY <1>1, <1>2 DEF PlanIsTyped, ReversePayoff
  <2>2. pays # <<>> /\ n = Len(pays)
    BY <1>2, <2>1 DEF Payoff
  <2> QED
    BY <2>1, <2>2
<1>4. PICK pay : pay = [pays[n] EXCEPT !.compensated = TRUE]
  OBVIOUS
<1>5. pay \in PayoffType /\ pay.compensated
  <2>1. pays[n] \in PayoffType
    BY <1>3
  <2> QED
    BY <1>4, <2>1 DEF PayoffType
<1>6. payoffs' = [pays EXCEPT ![n] = pay]
  BY <1>2, <1>4 DEF ReversePayoff
<1>7. /\ payoffs' \in Seq(PayoffType) /\ Len(payoffs') = n /\ payoffs' # <<>>
      /\ DOMAIN payoffs' = DOMAIN pays /\ payoffs'[n] = pay
      /\ \A p \in DOMAIN pays : p # n => payoffs'[p] = pays[p]
  BY <1>3, <1>5, <1>6
<1>8. OnePayoffStands'
  BY <1>1, <1>2, <1>3, <1>7 DEF OnePayoffStands
<1>9. Payoff(payoffs)' = 0
  BY <1>5, <1>7 DEF Payoff, Last
<1>10. ASSUME NEW i \in Positions
       PROVE  /\ installments'[i] \in ItemType
              /\ ~ ResolvedAs(installments'[i], "PAYOFF")
  <2>1. PICK item : item = installments[i]
    OBVIOUS
  <2>2. item \in ItemType /\ installments'[i] = Reopened(item)
    BY <1>1, <2>1 DEF PlanIsTyped, ReversePayoff, Item
  <2>3. CASE ResolvedAs(item, "PAYOFF")
    <3>1. PICK s, k : s = item.resolutions /\ k = Len(s)
      OBVIOUS
    <3>2. s \in Seq(ResolutionType) /\ s # <<>> /\ k \in DOMAIN s
      <4>1. s \in Seq(ResolutionType) /\ s # <<>>
        BY <2>2, <2>3, <3>1 DEF ItemType, ResolvedAs, Resolved
      <4> QED
        BY <3>1, <4>1
    <3>3. PICK r : r = [s[k] EXCEPT !.compensated = TRUE]
      OBVIOUS
    <3>4. r \in ResolutionType /\ r.compensated
      <4>1. s[k] \in ResolutionType
        BY <3>2
      <4> QED
        BY <3>3, <4>1 DEF ResolutionType
    <3>5. PICK again : again = [s EXCEPT ![k] = r]
      OBVIOUS
    <3>6. again \in Seq(ResolutionType) /\ Len(again) = k /\ again[k] = r
      BY <3>1, <3>2, <3>4, <3>5
    <3>7. Reopened(item) = [item EXCEPT !.resolutions = again]
      <4>1. Reopened(item) = [item EXCEPT !.resolutions[k].compensated = TRUE]
        BY <2>3, <3>1 DEF Reopened
      <4> QED
        BY <2>2, <3>1, <3>3, <3>5, <4>1 DEF ItemType
    <3>8. Reopened(item) \in ItemType /\ Reopened(item).resolutions = again
      BY <2>2, <3>6, <3>7 DEF ItemType
    <3>9. ~ ResolvedAs(Reopened(item), "PAYOFF")
      BY <3>4, <3>6, <3>8 DEF ResolvedAs, Resolved, Last
    <3> QED
      BY <2>2, <3>8, <3>9
  <2>4. CASE ~ ResolvedAs(item, "PAYOFF")
    BY <2>2, <2>4 DEF Reopened
  <2> QED
    BY <2>3, <2>4
<1>11. PlanIsTyped'
  <2>1. installments' \in [Positions -> ItemType]
    BY <1>10 DEF ReversePayoff
  <2> QED
    BY <1>1, <1>7, <2>1 DEF PlanIsTyped, ReversePayoff
<1>12. PayoffCoversItems'
  BY <1>9, <1>10 DEF PayoffCoversItems
<1> QED
  BY <1>8, <1>11, <1>12 DEF PlanInv

\* What a payoff resolves is what is open, and it is of what that has left.
LEMMA PaidOffIsWhatWasOpen ==
    ASSUME PlanIsTyped, \A i \in Positions : ~ ResolvedAs(installments[i], "PAYOFF"),
           installments' = PaidOff
    PROVE  /\ installments' \in [Positions -> ItemType]
           /\ SumFunction(PaidOffParts(installments')) = SumFunction([i \in Open |-> LeftOf(i)])
<1>1. Len(payoffs) + 1 \in Nat
  BY DEF PlanIsTyped
<1>2. ASSUME NEW i \in Positions
      PROVE  /\ installments'[i] \in ItemType
             /\ i \in Open => PaidOffPart(installments'[i]) = LeftOf(i)
             /\ i \notin Open => PaidOffPart(installments'[i]) = 0
  <2>1. CASE i \in Open
    <3>1. installments'[i] = ResolvedWith(i, "PAYOFF", Len(payoffs) + 1)
      BY <2>1 DEF PaidOff
    <3> QED
      BY <1>1, <2>1, <3>1, ResolvedItem DEF PaidOffPart
  <2>2. CASE i \notin Open
    <3>1. installments'[i] = installments[i]
      BY <2>2 DEF PaidOff, Item
    <3> QED
      BY <2>2, <3>1 DEF PlanIsTyped, PaidOffPart
  <2> QED
    BY <2>1, <2>2
<1>3. installments' \in [Positions -> ItemType]
  BY <1>2 DEF PaidOff
<1>4. PICK e, f : e = [i \in Open |-> LeftOf(i)] /\ f = PaidOffParts(installments')
  OBVIOUS
<1>5. IsFiniteSet(Positions) /\ Open \in SUBSET Positions /\ IsFiniteSet(Open)
  BY PositionsAreFinite, FS_Subset DEF Open
<1>6. /\ DOMAIN e = Open /\ DOMAIN f = Positions
      /\ \A i \in Open : f[i] = e[i]
      /\ \A i \in Positions \ Open : f[i] = 0
      /\ \A i \in Positions : f[i] \in Int
  <2>1. IsSummable(f)
    BY <1>3, <1>4, PartsAreSummable
  <2> QED
    BY <1>2, <1>4, <1>5, <2>1 DEF PaidOffParts, IsSummable
<1>7. SumFunctionOnSet(f, Positions) = SumFunctionOnSet(f, Open)
  BY <1>5, <1>6, SumOverMore
<1>8. SumFunctionOnSet(f, Open) = SumFunctionOnSet(e, Open)
  BY <1>5, <1>6, SumOfSame
<1>9. SumFunction(f) = SumFunction(e)
  BY <1>6, <1>7, <1>8 DEF SumFunction
<1> QED
  BY <1>3, <1>4, <1>9

LEMMA PayOffKeepsInv ==
    ASSUME PlanInv, NEW paid \in Paid, PayOff(paid)
    PROVE  PlanInv'
<1>1. PlanIsTyped /\ OnePayoffStands /\ PayoffCoversItems
  BY DEF PlanInv
<1>2. Payoff(payoffs) = 0 /\ installments' = PaidOff /\ today' = today
  BY DEF PayOff, CanPayOff
<1>3. \A i \in Positions : ~ ResolvedAs(installments[i], "PAYOFF")
  BY <1>1, <1>2 DEF PayoffCoversItems
<1>4. PICK pays, new : pays = payoffs /\ new = NewPayoff(paid)
  OBVIOUS
<1>5. PICK open : open = [i \in Open |-> LeftOf(i)]
  OBVIOUS
<1>6. SumFunction(open) \in Int /\ GlobalAdjustment(pays) \in Int
  <2>1. IsFiniteSet(Open)
    BY PositionsAreFinite, FS_Subset DEF Open
  <2>2. \A i \in Open : LeftOf(i) \in Int
    BY <1>1, EachItem DEF Open
  <2>3. IsSummable(open)
    BY <1>5, <2>1, <2>2 DEF IsSummable
  <2> QED
    BY <1>1, <1>4, <2>3, TotalIsInt, AdjustmentIsSummable DEF PlanIsTyped
<1>7. /\ new \in PayoffType /\ ~ new.compensated
      /\ new.expected = SumFunction(open) + GlobalAdjustment(pays)
  <2>1. paid \in Int
    BY InstallmentsAssumption
  <2>2. Expected = SumFunction(open) + GlobalAdjustment(pays)
    BY <1>4, <1>5 DEF Expected
  <2> QED
    BY <1>4, <1>6, <2>1, <2>2 DEF NewPayoff, PayoffType
<1>8. pays \in Seq(PayoffType) /\ payoffs' = Append(pays, new)
  BY <1>1, <1>4 DEF PlanIsTyped, PayOff
<1>9. PICK n : n = Len(pays) + 1
  OBVIOUS
<1>10. /\ payoffs' \in Seq(PayoffType) /\ Len(payoffs') = n /\ payoffs' # <<>>
       /\ DOMAIN payoffs' = DOMAIN pays \cup {n} /\ n \notin DOMAIN pays
       /\ payoffs'[n] = new /\ \A p \in DOMAIN pays : payoffs'[p] = pays[p]
  BY <1>7, <1>8, <1>9
<1>11. n # 0
  BY <1>8, <1>9
<1>12. OnePayoffStands'
  <2>1. \A p \in DOMAIN pays : pays[p].compensated
    <3>1. \A p \in DOMAIN pays : p # Len(pays) => pays[p].compensated
      BY <1>1, <1>4 DEF OnePayoffStands
    <3>2. pays # <<>> => pays[Len(pays)].compensated
      BY <1>2, <1>4, <1>8 DEF Payoff, Last
    <3> QED
      BY <1>8, <3>1, <3>2
  <2> QED
    BY <1>10, <2>1 DEF OnePayoffStands
<1>13. /\ installments' \in [Positions -> ItemType]
       /\ SumFunction(PaidOffParts(installments')) = SumFunction(open)
  BY <1>1, <1>2, <1>3, <1>5, PaidOffIsWhatWasOpen
<1>14. GlobalAdjustment(payoffs') = GlobalAdjustment(pays)
  <2>1. Compensated(payoffs') = Compensated(pays)
    BY <1>7, <1>10 DEF Compensated
  <2>2. \A p \in Compensated(pays) : payoffs'[p] = pays[p]
    BY <1>10 DEF Compensated
  <2>3. [p \in Compensated(payoffs') |-> payoffs'[p].paid - payoffs'[p].expected]
            = [p \in Compensated(pays) |-> pays[p].paid - pays[p].expected]
    BY <2>1, <2>2
  <2> QED
    BY <2>3 DEF GlobalAdjustment
<1>15. PayoffCoversItems'
  <2>1. Payoff(payoffs)' # 0 /\ Last(payoffs)' = new
    BY <1>7, <1>10, <1>11 DEF Payoff, Last
  <2>2. new.expected = SumFunction(PaidOffParts(installments')) + GlobalAdjustment(payoffs')
    BY <1>7, <1>13, <1>14
  <2> QED
    BY <2>1, <2>2 DEF PayoffCoversItems
<1>16. PlanIsTyped'
  BY <1>1, <1>2, <1>10, <1>13 DEF PlanIsTyped
<1> QED
  BY <1>12, <1>15, <1>16 DEF PlanInv

LEMMA PlanStep ==
    ASSUME PlanInv, [Next]_vars
    PROVE  PlanInv'
<1>1. PlanIsTyped
  BY DEF PlanInv
<1>2. CASE OnlyPays
  BY <1>2, OnlyPaysKeepsInv
<1>3. CASE \E paid \in Paid : PayOff(paid)
  BY <1>3, PayOffKeepsInv
<1>4. CASE ReversePayoff
  BY <1>4, ReversePayoffKeepsInv
<1>5. CASE \E selected \in SUBSET Positions : CancelFuture(selected)
  BY <1>5, CancelKeepsInv
<1> QED
  BY <1>1, <1>2, <1>3, <1>4, <1>5, Commands

\* Whatever is paid, anticipated, paid off, cancelled, adjusted and reversed, at most
\* one payoff stands, and it is of what its installments had left.
THEOREM PlanIsSound == Spec => []PlanInv
<1>1. Init => PlanInv
  BY PlanInit
<1>2. PlanInv /\ [Next]_vars => PlanInv'
  BY PlanStep
<1> QED
  BY <1>1, <1>2, PTL DEF Spec

-----------------------------------------------------------------------------
(***************************************************************************)
(* What is left and the money.                                             *)
(***************************************************************************)
\* What an installment contributes: what it costs, less what was paid and cancelled.
Contribution(item) ==
    Effective(item, today) - Fulfilled(item)
        - IF ResolvedAs(item, "CANCELLED") THEN Last(item.resolutions).expected ELSE 0

LEMMA ContributionIsLeft ==
    ASSUME NEW item \in ItemType, today \in Nat, InstallmentCanBeRead(item, today)
    PROVE  /\ Contribution(item) = Left(item, today) + PaidOffPart(item)
           /\ Left(item, today) \in Int /\ PaidOffPart(item) \in Int
<1>1. /\ Effective(item, today) \in Int /\ Fulfilled(item) \in Int
      /\ Left(item, today) \in Int /\ Amount(item, today) \in Int
  BY LeftIsInt, AmountIsInt
<1>2. CASE ~ Resolved(item)
  BY <1>1, <1>2 DEF Contribution, Left, ResolvedAs, PaidOffPart
<1>3. CASE Resolved(item)
  <2>1. /\ Last(item.resolutions).expected = Amount(item, today) - Fulfilled(item)
        /\ item.anticipation = None
    BY <1>3 DEF InstallmentCanBeRead
  <2>2. PICK r : r = Last(item.resolutions)
    OBVIOUS
  <2>3. r.type \in {"PAYOFF", "CANCELLED"} /\ r.expected \in Int
    BY <1>3, <2>2, ResolutionOf DEF ResolutionType
  <2>4. Effective(item, today) = Amount(item, today)
    BY <1>1, <2>1 DEF Effective, None
  <2>5. Left(item, today) = 0
    BY <1>3 DEF Left
  <2>6. CASE r.type = "PAYOFF"
    BY <1>1, <1>3, <2>1, <2>2, <2>3, <2>4, <2>5, <2>6 DEF Contribution, ResolvedAs, PaidOffPart
  <2>7. CASE r.type = "CANCELLED"
    BY <1>1, <1>3, <2>1, <2>2, <2>3, <2>4, <2>5, <2>7 DEF Contribution, ResolvedAs, PaidOffPart
  <2> QED
    BY <2>3, <2>6, <2>7
<1> QED
  BY <1>2, <1>3

\* What a payoff contributes: what it was dearer or cheaper, or what it is of.
PayoffContribution(pay) ==
    pay.paid - pay.expected - IF pay.compensated THEN 0 ELSE pay.paid

LEMMA PayoffsContribute ==
    ASSUME PlanInv, NEW h, h = [p \in DOMAIN payoffs |-> PayoffContribution(payoffs[p])]
    PROVE  /\ Payoff(payoffs) = 0 => SumFunction(h) = GlobalAdjustment(payoffs)
           /\ Payoff(payoffs) # 0 =>
                  SumFunction(h) = GlobalAdjustment(payoffs) - Last(payoffs).expected
<1>1. PICK pays, n : pays = payoffs /\ n = Len(pays)
  OBVIOUS
<1>2. /\ pays \in Seq(PayoffType) /\ n \in Nat /\ DOMAIN pays = 1 .. n
      /\ \A p \in DOMAIN pays : p # n => pays[p].compensated
  BY <1>1 DEF PlanInv, PlanIsTyped, OnePayoffStands
<1>3. \A p \in DOMAIN pays : pays[p] \in PayoffType
  BY <1>2
<1>4. PICK f : f = [p \in Compensated(pays) |-> pays[p].paid - pays[p].expected]
  OBVIOUS
<1>5. IsSummable(f) /\ GlobalAdjustment(pays) = SumFunction(f) /\ SumFunction(f) \in Int
  BY <1>2, <1>4, AdjustmentIsSummable DEF GlobalAdjustment
<1>6. \A p \in Compensated(pays) : p \in DOMAIN pays /\ h[p] = f[p]
  BY <1>1, <1>3, <1>4 DEF Compensated, PayoffContribution, PayoffType
<1>7. CASE Payoff(pays) = 0
  <2>1. pays # <<>> => pays[n].compensated
    BY <1>1, <1>2, <1>7 DEF Payoff, Last
  <2>2. Compensated(pays) = DOMAIN pays
    BY <1>2, <2>1 DEF Compensated
  <2>3. h = f
    BY <1>1, <1>4, <1>6, <2>2
  <2> QED
    BY <1>1, <1>5, <1>7, <2>3
<1>8. CASE Payoff(pays) # 0
  <2>1. pays # <<>> /\ ~ pays[n].compensated /\ n \in DOMAIN pays
    BY <1>1, <1>2, <1>8 DEF Payoff, Last
  <2>2. DOMAIN pays = Compensated(pays) \cup {n} /\ n \notin Compensated(pays)
    BY <1>2, <2>1 DEF Compensated
  <2>3. h[n] = - pays[n].expected /\ h[n] \in Int
    BY <1>1, <1>3, <2>1 DEF PayoffContribution, PayoffType
  <2>4. DOMAIN f = Compensated(pays) /\ DOMAIN h = DOMAIN pays
    BY <1>1, <1>4
  <2>5. SumFunction(h) = SumFunction(f) + h[n]
    BY <1>5, <1>6, <2>2, <2>3, <2>4, TotalOfMore
  <2>6. pays[n].expected \in Int /\ Last(pays) = pays[n]
    BY <1>1, <1>3, <2>1 DEF PayoffType, Last
  <2>7. SumFunction(h) = SumFunction(f) - pays[n].expected
    BY <1>5, <2>3, <2>5, <2>6
  <2> QED
    BY <1>1, <1>5, <1>8, <2>6, <2>7
<1> QED
  BY <1>1, <1>7, <1>8

LEMMA RemainingOfThePlan ==
    ASSUME PlanInv
    PROVE  RemainingFollowsMoney
<1> SUFFICES ASSUME Reads
             PROVE  RemainingFollowsMoney
  BY DEF RemainingFollowsMoney
<1>1. PlanIsTyped /\ PayoffCoversItems /\ today \in Nat
  BY DEF PlanInv, PlanIsTyped
<1>2. PICK f, e, g : /\ f = [i \in Positions |-> Left(installments[i], today)]
                     /\ e = PaidOffParts(installments)
                     /\ g = [i \in Positions |-> Contribution(installments[i])]
  OBVIOUS
<1>3. \A i \in Positions : f[i] \in Int /\ e[i] \in Int /\ g[i] = f[i] + e[i]
  <2> TAKE i \in Positions
  <2>1. installments[i] \in ItemType
    BY <1>1 DEF PlanIsTyped
  <2>2. installments[i] \in ToSet(installments)
    BY <1>1 DEF PlanIsTyped, ToSet
  <2>3. InstallmentCanBeRead(installments[i], today)
    BY <2>2 DEF Reads, CanBeReadWith
  <2> QED
    BY <1>1, <1>2, <2>1, <2>3, ContributionIsLeft DEF PaidOffParts
<1>4. SumFunction(g) = SumFunction(f) + SumFunction(e)
  <2>1. DOMAIN f = Positions /\ DOMAIN e = Positions /\ DOMAIN g = Positions
    BY <1>2 DEF PaidOffParts
  <2>2. SumFunctionOnSet(g, Positions)
            = SumFunctionOnSet(f, Positions) + SumFunctionOnSet(e, Positions)
    BY <1>3, PositionsAreFinite, SumOfSums
  <2> QED
    BY <2>1, <2>2 DEF SumFunction
<1>5. SumFunction(f) \in Int /\ SumFunction(e) \in Int /\ GlobalAdjustment(payoffs) \in Int
  <2>1. IsSummable(f) /\ IsSummable(e)
    BY <1>2, <1>3, PositionsAreFinite DEF IsSummable, PaidOffParts
  <2> QED
    BY <1>1, <2>1, TotalIsInt, AdjustmentIsSummable DEF PlanIsTyped
<1>6. PICK h : h = [p \in DOMAIN payoffs |-> PayoffContribution(payoffs[p])]
  OBVIOUS
<1>7. PlanLeft = SumFunction(g) + SumFunction(h)
  <2>1. PlanLeft = SumFunction(f) + IF Payoff(payoffs) # 0 THEN 0 ELSE GlobalAdjustment(payoffs)
    BY <1>2 DEF PlanLeft, PlanRemaining
  <2>2. CASE Payoff(payoffs) = 0
    <3>1. \A i \in Positions : e[i] = 0
      BY <1>1, <1>2, <2>2 DEF PayoffCoversItems, PaidOffParts, PaidOffPart
    <3>2. SumFunction(e) = 0
      <4>1. DOMAIN e = Positions
        BY <1>2 DEF PaidOffParts
      <4>2. {} \in SUBSET Positions /\ \A i \in Positions : e[i] \in Int
        BY <1>3
      <4>3. SumFunctionOnSet(e, Positions) = SumFunctionOnSet(e, {})
        BY <3>1, <4>2, PositionsAreFinite, SumOverMore
      <4> QED
        BY <4>1, <4>3, SumOfNone DEF SumFunction
    <3>3. SumFunction(h) = GlobalAdjustment(payoffs)
      BY <1>6, <2>2, PayoffsContribute
    <3> QED
      BY <1>4, <1>5, <2>1, <2>2, <3>2, <3>3
  <2>3. CASE Payoff(payoffs) # 0
    <3>1. SumFunction(h) = GlobalAdjustment(payoffs) - Last(payoffs).expected
      BY <1>6, <2>3, PayoffsContribute
    <3>2. Last(payoffs).expected = SumFunction(e) + GlobalAdjustment(payoffs)
      BY <1>1, <1>2, <2>3 DEF PayoffCoversItems
    <3> QED
      BY <1>4, <1>5, <2>1, <2>3, <3>1, <3>2
  <2> QED
    BY <2>2, <2>3
<1>8. /\ g = [i \in Positions |-> Effective(Item(i), today) - Fulfilled(Item(i))
                     - IF ResolvedAs(Item(i), "CANCELLED")
                       THEN Last(Item(i).resolutions).expected ELSE 0]
      /\ h = [p \in DOMAIN payoffs |->
                  payoffs[p].paid - payoffs[p].expected
                      - IF payoffs[p].compensated THEN 0 ELSE payoffs[p].paid]
  BY <1>2, <1>6 DEF Contribution, PayoffContribution, Item
<1> QED
  BY <1>7, <1>8 DEF RemainingFollowsMoney, SumOf

\* What is left to be paid of a plan that can be read follows from the money.
THEOREM RemainingFollows == Spec => []RemainingFollowsMoney
<1>1. PlanInv => RemainingFollowsMoney
  BY RemainingOfThePlan
<1> QED
  BY <1>1, PlanIsSound, PTL
=============================================================================
