---------------------- MODULE RecurringCommitmentsProofs ----------------------
(***************************************************************************)
(* Proofs about RecurringCommitments: whatever is recorded, paid, valued,  *)
(* adjusted, cancelled and reversed, every row can be read and is priced   *)
(* by its own terms, no month has two occurrences, and a command sent on   *)
(* what was read earlier finds it as it was; and about RecurringViews: the *)
(* listing of a month, its totals, the projection of the series, its next  *)
(* occurrence and the screen of the day agree, what is listed can be paid, *)
(* and a change of the terms or a termination does what its preview said.  *)
(***************************************************************************)
EXTENDS RecurringViews, SumTheorems

-----------------------------------------------------------------------------
(***************************************************************************)
(* What is valid of a sequence of facts, or of payments.                   *)
(***************************************************************************)
ValidOf(s) == [i \in DOMAIN s |-> Valid(s[i])]
IsList(s)  == \E n \in Nat : DOMAIN s = 1 .. n
AreMoney(s) == IsList(s) /\ \A i \in DOMAIN s : s[i].amount \in Nat /\ s[i].reversed \in Nat

LEMMA EntryIsIn ==
    ASSUME NEW S, NEW s \in Seq(S)
    PROVE  /\ \A i \in DOMAIN s : s[i] \in S
           /\ IsList(s) /\ Len(s) \in Nat /\ DOMAIN s = 1 .. Len(s)
BY DEF IsList

LEMMA FulfilledIs ==
    ASSUME NEW row
    PROVE  Fulfilled(row) = SumFunction(ValidOf(row.facts))
BY DEF Fulfilled, AmountsOf, SumOf, ValidOf

LEMMA SettledIs ==
    ASSUME NEW fact
    PROVE  Settled(fact) = SumFunction(ValidOf(fact.settled))
BY DEF Settled, AmountsOf, SumOf, ValidOf

LEMMA MoneyIsSummable ==
    ASSUME NEW s, AreMoney(s)
    PROVE  IsSummable(ValidOf(s)) /\ SumFunction(ValidOf(s)) \in Int
<1>1. DOMAIN ValidOf(s) = DOMAIN s /\ \A i \in DOMAIN s : ValidOf(s)[i] \in Int
  BY DEF ValidOf, AreMoney, Valid
<1>2. IsFiniteSet(DOMAIN s)
  BY FS_Interval DEF AreMoney, IsList
<1>3. IsSummable(ValidOf(s))
  BY <1>1, <1>2 DEF IsSummable
<1> QED
  BY <1>3, TotalIsInt

LEMMA ValidAppended ==
    ASSUME NEW S, NEW s \in Seq(S), AreMoney(s), NEW e \in S,
           e.amount \in Nat, e.reversed \in Nat
    PROVE  SumFunction(ValidOf(Append(s, e))) = SumFunction(ValidOf(s)) + Valid(e)
<1> DEFINE t == Append(s, e)
           n == Len(s) + 1
           v == ValidOf(s)
           w == ValidOf(t)
<1>1. /\ n \notin DOMAIN s
      /\ DOMAIN t = DOMAIN s \cup {n}
      /\ t[n] = e
      /\ \A i \in DOMAIN s : t[i] = s[i]
  OBVIOUS
<1> HIDE DEF t, n
<1>2. /\ n \notin DOMAIN v
      /\ DOMAIN w = DOMAIN v \cup {n}
      /\ w[n] = Valid(e)
      /\ \A i \in DOMAIN v : w[i] = v[i]
  BY <1>1 DEF ValidOf
<1>3. Valid(e) \in Int
  BY DEF Valid
<1>4. IsSummable(v)
  BY MoneyIsSummable
<1> HIDE DEF v, w
<1>5. SumFunction(w) = SumFunction(v) + w[n]
  BY <1>2, <1>3, <1>4, TotalOfMore
<1> QED
  BY <1>2, <1>5 DEF v, w, t

LEMMA ValidReplaced ==
    ASSUME NEW s, AreMoney(s), NEW t, DOMAIN t = DOMAIN s, NEW i \in DOMAIN s,
           Valid(t[i]) \in Int, \A j \in DOMAIN s : j # i => t[j] = s[j]
    PROVE  SumFunction(ValidOf(t)) = SumFunction(ValidOf(s)) - Valid(s[i]) + Valid(t[i])
<1> DEFINE v == ValidOf(s)
           w == ValidOf(t)
<1>1. /\ i \in DOMAIN v
      /\ DOMAIN w = DOMAIN v
      /\ w[i] = Valid(t[i])
      /\ v[i] = Valid(s[i])
      /\ \A j \in DOMAIN v : j # i => w[j] = v[j]
  BY DEF ValidOf
<1>2. IsSummable(v)
  BY MoneyIsSummable
<1> HIDE DEF v, w
<1>3. SumFunction(w) = SumFunction(v) - v[i] + w[i]
  BY <1>1, <1>2, TotalOfReplaced
<1> QED
  BY <1>1, <1>3 DEF v, w

LEMMA ValidSame ==
    ASSUME NEW s, AreMoney(s), NEW t, DOMAIN t = DOMAIN s,
           \A j \in DOMAIN s : Valid(t[j]) = Valid(s[j])
    PROVE  SumFunction(ValidOf(t)) = SumFunction(ValidOf(s))
<1>1. ValidOf(t) = ValidOf(s)
  BY DEF ValidOf
<1> QED
  BY <1>1

LEMMA ValidAtLeast ==
    ASSUME NEW s, AreMoney(s), \A i \in DOMAIN s : Valid(s[i]) >= 0
    PROVE  /\ SumFunction(ValidOf(s)) \in Nat
           /\ \A i \in DOMAIN s : Valid(s[i]) <= SumFunction(ValidOf(s))
<1> DEFINE v == ValidOf(s)
<1>1. DOMAIN v = DOMAIN s /\ \A i \in DOMAIN s : v[i] = Valid(s[i]) /\ v[i] \in Nat
  BY DEF ValidOf, AreMoney, Valid
<1>2. IsFiniteSet(DOMAIN v)
  BY MoneyIsSummable DEF IsSummable
<1> HIDE DEF v
<1>3. SumFunction(v) \in Nat /\ \A i \in DOMAIN v : v[i] <= SumFunction(v)
  BY <1>1, <1>2, TotalIsAtLeast
<1> QED
  BY <1>1, <1>3 DEF v

LEMMA ValidOfNone == SumFunction(ValidOf(<<>>)) = 0
<1>1. ValidOf(<<>>) = <<>>
  BY DEF ValidOf
<1> QED
  BY <1>1, TotalOfNone

-----------------------------------------------------------------------------
(***************************************************************************)
(* A row that is kept: it has its type, it can be read, it is priced by    *)
(* its terms, and as long as nothing was recorded or adjusted of it, or    *)
(* cancelled, its versions are those of its values.                        *)
(***************************************************************************)
Statuses == {"PENDING", "PARTIALLY_FULFILLED", "FULFILLED", "CANCELLED"}

IsPriced(row, terms) ==
    IF terms.mode = "FIXED" THEN row.amount = terms.amount + SumOf(row.adjusted)
    ELSE row.amount # Unknown <=> row.values # <<>>

IsUntouched(row) == row.facts = <<>> /\ row.adjusted = <<>> /\ row.status # "CANCELLED"

IsKept(row, terms) ==
    /\ row \in Rows
    /\ CanBeRead(row)
    /\ IsPriced(row, terms)
    /\ IsUntouched(row) => row.version = Len(row.values) + 1

LEMMA StatusOfSame ==
    ASSUME NEW row, NEW other, row.amount = other.amount,
           row.adjusted = other.adjusted, row.facts = other.facts
    PROVE  StatusOf(row) = StatusOf(other)
BY DEF StatusOf, Remaining, Fulfilled, AmountsOf

LEMMA StatusIsOne ==
    ASSUME NEW row
    PROVE  StatusOf(row) \in Statuses \ {"CANCELLED"}
BY DEF StatusOf, Statuses

LEMMA RowsHaveMoney ==
    ASSUME NEW row \in Rows
    PROVE  /\ AreMoney(row.facts)
           /\ Fulfilled(row) \in Int
           /\ \A i \in DOMAIN row.facts :
                  /\ row.facts[i] \in Facts
                  /\ AreMoney(row.facts[i].settled)
                  /\ Settled(row.facts[i]) \in Int
<1>1. row.facts \in Seq(Facts)
  BY DEF Rows
<1>2. \A i \in DOMAIN row.facts : row.facts[i] \in Facts
  BY <1>1
<1>3. IsList(row.facts)
  BY <1>1 DEF IsList
<1>4. AreMoney(row.facts)
  BY <1>2, <1>3 DEF AreMoney, Facts
<1>5. ASSUME NEW fact \in Facts
      PROVE  AreMoney(fact.settled)
  <2>1. fact.settled \in Seq([amount : Nat, reversed : Nat])
    BY DEF Facts
  <2>2. PICK s : s = fact.settled
    OBVIOUS
  <2>3. IsList(s) /\ \A j \in DOMAIN s : s[j] \in [amount : Nat, reversed : Nat]
    BY <2>1, <2>2, EntryIsIn
  <2> QED
    BY <2>2, <2>3 DEF AreMoney
<1> QED
  BY <1>2, <1>4, <1>5, MoneyIsSummable, FulfilledIs, SettledIs

LEMMA RowsHaveValues ==
    ASSUME NEW row \in Rows
    PROVE  /\ row.version \in Nat /\ Len(row.values) \in Nat
           /\ \A i \in 1 .. Len(row.values) :
                  /\ row.values[i].version \in Nat
                  /\ row.values[i].previous \in Amounts
                  /\ row.values[i].amount \in Nat
           /\ row.amount \in Amounts /\ row.adjusted \in Seq(Int)
           /\ SumOf(row.adjusted) \in Int
<1>1. PICK s : s = row.values
  OBVIOUS
<1>2. s \in Seq(Values)
  BY <1>1 DEF Rows
<1>3. Len(s) \in Nat /\ \A i \in 1 .. Len(s) : s[i] \in Values
  BY <1>2, EntryIsIn
<1>4. row.adjusted \in Seq(Int) /\ row.amount \in Amounts /\ row.version \in Nat
  BY DEF Rows
<1>5. SumOf(row.adjusted) \in Int
  BY <1>4, SequenceIsSummable, TotalIsInt DEF SumOf
<1> QED
  BY <1>1, <1>3, <1>4, <1>5 DEF Values

\* What every fact that can be read says of what is valid of it and of its payments.
LEMMA ReadFacts ==
    ASSUME NEW row \in Rows, CanBeRead(row)
    PROVE  /\ Fulfilled(row) \in Nat
           /\ \A i \in DOMAIN row.facts :
                  /\ Valid(row.facts[i]) \in Nat
                  /\ Valid(row.facts[i]) <= Fulfilled(row)
                  /\ Settled(row.facts[i]) \in Nat
                  /\ \A j \in DOMAIN row.facts[i].settled :
                         /\ Valid(row.facts[i].settled[j]) \in Nat
                         /\ Valid(row.facts[i].settled[j]) <= Settled(row.facts[i])
<1>1. AreMoney(row.facts) /\ \A i \in DOMAIN row.facts :
          row.facts[i] \in Facts /\ AreMoney(row.facts[i].settled)
  BY RowsHaveMoney
<1>2. \A i \in DOMAIN row.facts : FactCanBeRead(row.facts[i])
  BY DEF CanBeRead
<1>3. \A i \in DOMAIN row.facts : Valid(row.facts[i]) \in Nat
  BY <1>1, <1>2 DEF FactCanBeRead, Valid, Facts
<1>4. /\ SumFunction(ValidOf(row.facts)) \in Nat
      /\ \A i \in DOMAIN row.facts : Valid(row.facts[i]) <= SumFunction(ValidOf(row.facts))
  BY <1>1, <1>3, ValidAtLeast
<1>5. ASSUME NEW i \in DOMAIN row.facts
      PROVE  /\ Settled(row.facts[i]) \in Nat
             /\ \A j \in DOMAIN row.facts[i].settled :
                    /\ Valid(row.facts[i].settled[j]) \in Nat
                    /\ Valid(row.facts[i].settled[j]) <= Settled(row.facts[i])
  <2>1. PICK s : s = row.facts[i].settled
    OBVIOUS
  <2>2. AreMoney(s) /\ \A j \in DOMAIN s : Valid(s[j]) >= 0
    BY <1>1, <1>2, <2>1 DEF FactCanBeRead
  <2>3. \A j \in DOMAIN s : Valid(s[j]) \in Nat
    BY <2>2 DEF AreMoney, Valid
  <2>4. /\ SumFunction(ValidOf(s)) \in Nat
        /\ \A j \in DOMAIN s : Valid(s[j]) <= SumFunction(ValidOf(s))
    BY <2>2, ValidAtLeast
  <2> QED
    BY <2>1, <2>3, <2>4, SettledIs
<1> QED
  BY <1>3, <1>4, <1>5, FulfilledIs

-----------------------------------------------------------------------------
(***************************************************************************)
(* The row a command works on when there is none.                          *)
(***************************************************************************)
LEMMA ProjectedIsKept ==
    ASSUME NEW v \in Nat, NEW terms, terms.mode \in {"FIXED", "VARIABLE"},
           terms.amount \in Nat \ {0}
    PROVE  IsKept(Projected(v, terms), terms) /\ Projected(v, terms).terms = v
<1> DEFINE n == Projected(v, terms)
<1>1. /\ n.terms = v /\ n.version = 1 /\ n.status = "PENDING"
      /\ n.values = <<>> /\ n.adjusted = <<>> /\ n.facts = <<>>
      /\ n.amount = IF terms.mode = "FIXED" THEN terms.amount ELSE Unknown
  BY DEF Projected
<1>2. n \in Rows
  BY DEF Projected, Rows, Amounts, Unknown
<1> HIDE DEF n
<1>3. Fulfilled(n) = 0
  BY <1>1, FulfilledIs, ValidOfNone
<1>4. StatusOf(n) = "PENDING"
  BY <1>1, <1>3 DEF StatusOf
<1>5. SumOf(n.adjusted) = 0
  BY <1>1, TotalOfNone DEF SumOf
<1>6. ValuesCanBeRead(n)
  BY <1>1 DEF ValuesCanBeRead
<1>7. CanBeRead(n)
  BY <1>1, <1>3, <1>4, <1>6 DEF CanBeRead, Unknown
<1>8. IsPriced(n, terms)
  BY <1>1, <1>5 DEF IsPriced
<1> QED
  BY <1>1, <1>2, <1>7, <1>8 DEF IsKept, n

-----------------------------------------------------------------------------
(***************************************************************************)
(* What the commands leave of a row.                                       *)
(***************************************************************************)
\* Nothing but its version and its facts changed, and its status is what it should be.
LEMMA FactsChangeOnly ==
    ASSUME NEW terms, NEW row, IsKept(row, terms), NEW n \in Rows,
           n.terms = row.terms, n.amount = row.amount, n.values = row.values,
           n.adjusted = row.adjusted, n.version = row.version + 1, n.facts # <<>>,
           row.status # "CANCELLED", n.status = StatusOf(n),
           \A i \in DOMAIN n.facts : FactCanBeRead(n.facts[i]),
           IF n.amount = Unknown THEN Fulfilled(n) = 0 ELSE Fulfilled(n) <= n.amount
    PROVE  IsKept(n, terms)
<1>1. row \in Rows /\ CanBeRead(row)
  BY DEF IsKept
<1>2. /\ row.version \in Nat /\ Len(row.values) \in Nat
      /\ \A i \in 1 .. Len(row.values) : row.values[i].version \in Nat
  BY <1>1, RowsHaveValues
<1>3. ValuesCanBeRead(row) /\ row.version >= 1
  BY <1>1 DEF CanBeRead
<1>4. ValuesCanBeRead(n)
  BY <1>1, <1>2, <1>3 DEF ValuesCanBeRead, Rows
<1>5. n.amount # Unknown => n.amount >= IF n.adjusted = <<>> THEN 1 ELSE 0
  BY <1>1 DEF CanBeRead
<1>6. n.status # "CANCELLED"
  BY StatusIsOne
<1>7. n.version >= 1
  BY <1>2, <1>3
<1>8. CanBeRead(n)
  BY <1>4, <1>5, <1>6, <1>7 DEF CanBeRead
<1>9. IsPriced(n, terms)
  BY DEF IsKept, IsPriced
<1> QED
  BY <1>8, <1>9 DEF IsKept, IsUntouched

FactKinds == {"DISBURSEMENT", "EXTERNAL_LIABILITY"}

LEMMA NewFactCanBeRead ==
    ASSUME NEW kind \in FactKinds, NEW amount \in Nat \ {0}
    PROVE  /\ NewFact(kind, amount) \in Facts
           /\ FactCanBeRead(NewFact(kind, amount))
           /\ Valid(NewFact(kind, amount)) = amount
<1> DEFINE f == NewFact(kind, amount)
<1>1. /\ f.kind = kind /\ f.amount = amount /\ f.reversed = 0 /\ f.settled = <<>>
      /\ f.remaining = IF kind = "EXTERNAL_LIABILITY" THEN amount ELSE 0
  BY DEF NewFact
<1>2. f \in Facts
  BY DEF NewFact, Facts, FactKinds
<1> HIDE DEF f
<1>3. Settled(f) = 0
  BY <1>1, SettledIs, ValidOfNone
<1>4. Valid(f) = amount
  BY <1>1 DEF Valid
<1>5. FactCanBeRead(f)
  BY <1>1, <1>3, <1>4 DEF FactCanBeRead
<1> QED
  BY <1>2, <1>4, <1>5 DEF f

\* A row that takes a fact, and the status it then has.
TakesFact(row, n, f) ==
    /\ n \in Rows /\ n.terms = row.terms /\ n.amount = row.amount
    /\ n.values = row.values /\ n.adjusted = row.adjusted
    /\ n.version = row.version + 1
    /\ n.facts = Append(row.facts, f)
    /\ n.status = StatusOf(n)

LEMMA WithFactTakesIt ==
    ASSUME NEW row \in Rows, NEW kind \in FactKinds, NEW amount \in Nat \ {0}
    PROVE  TakesFact(row, WithFact(row, kind, amount), NewFact(kind, amount))
<1>1. PICK n : n = WithFact(row, kind, amount)
  OBVIOUS
<1>2. PICK facts : facts = Append(row.facts, NewFact(kind, amount))
  OBVIOUS
<1>3. PICK next : next = [row EXCEPT !.version = @ + 1, !.facts = facts]
  OBVIOUS
<1>4. n = [next EXCEPT !.status = StatusOf(next)]
  BY <1>1, <1>2, <1>3 DEF WithFact
<1>5. row.facts \in Seq(Facts) /\ facts \in Seq(Facts)
  BY <1>2, NewFactCanBeRead DEF Rows
<1>6. next \in Rows
  <2>1. next = [terms |-> row.terms, version |-> row.version + 1, amount |-> row.amount,
                status |-> row.status, values |-> row.values, adjusted |-> row.adjusted,
                facts |-> facts]
    BY <1>3 DEF Rows
  <2>2. row.version \in Nat
    BY DEF Rows
  <2> QED
    BY <1>5, <2>1, <2>2 DEF Rows
<1>7. StatusOf(next) \in Statuses
  BY StatusIsOne
<1>8. n \in Rows /\ n.status = StatusOf(next)
  BY <1>4, <1>6, <1>7 DEF Rows, Statuses
<1>9. n.amount = next.amount /\ n.adjusted = next.adjusted /\ n.facts = next.facts
  BY <1>4, <1>6 DEF Rows
<1>10. StatusOf(n) = StatusOf(next)
  BY <1>9, StatusOfSame
<1> QED
  BY <1>1, <1>2, <1>3, <1>4, <1>8, <1>10 DEF Rows, TakesFact

LEMMA RecordKeeps ==
    ASSUME NEW terms, NEW row, IsKept(row, terms),
           NEW kind \in FactKinds, NEW amount \in Nat \ {0}, CanRecord(row, amount),
           NEW n, n = WithFact(row, kind, amount)
    PROVE  IsKept(n, terms) /\ n.terms = row.terms
<1>1. row \in Rows /\ CanBeRead(row)
  BY DEF IsKept
<1>2. /\ n \in Rows /\ n.terms = row.terms /\ n.amount = row.amount
      /\ n.values = row.values /\ n.adjusted = row.adjusted
      /\ n.version = row.version + 1
      /\ n.facts = Append(row.facts, NewFact(kind, amount))
      /\ n.status = StatusOf(n)
  <2>1. TakesFact(row, n, NewFact(kind, amount))
    BY <1>1, WithFactTakesIt
  <2> QED
    BY <2>1 DEF TakesFact
<1>3. PICK f : f = NewFact(kind, amount)
  OBVIOUS
<1>4. f \in Facts /\ FactCanBeRead(f) /\ Valid(f) = amount
  BY <1>3, NewFactCanBeRead
<1>5. AreMoney(row.facts) /\ row.facts \in Seq(Facts) /\ Fulfilled(row) \in Int
  BY <1>1, RowsHaveMoney DEF Rows
<1>6. f.amount \in Nat /\ f.reversed \in Nat
  BY <1>4 DEF Facts
<1>7. Fulfilled(n) = Fulfilled(row) + amount
  BY <1>2, <1>3, <1>4, <1>5, <1>6, FulfilledIs, ValidAppended
<1>8. n.facts # <<>> /\ \A i \in DOMAIN n.facts : FactCanBeRead(n.facts[i])
  <2>1. \A i \in DOMAIN row.facts : FactCanBeRead(row.facts[i])
    BY <1>1 DEF CanBeRead
  <2> QED
    BY <1>2, <1>3, <1>4, <1>5, <2>1
<1>9. row.status # "CANCELLED" /\ row.amount # Unknown
  BY DEF CanRecord
<1>10. Fulfilled(n) <= n.amount
  BY <1>1, <1>2, <1>5, <1>7, <1>9, RowsHaveValues DEF CanRecord, Remaining, Amounts
<1> QED
  BY <1>2, <1>8, <1>9, <1>10, FactsChangeOnly

-----------------------------------------------------------------------------
\* What is kept of a row that has facts: it was not cancelled.
LEMMA FactsAreOfOpenRows ==
    ASSUME NEW row \in Rows, CanBeRead(row), NEW i \in DOMAIN row.facts
    PROVE  row.status # "CANCELLED" /\ row.status = StatusOf(row)
<1>1. row.facts # <<>>
  OBVIOUS
<1> QED
  BY <1>1 DEF CanBeRead

\* A row whose fact i becomes f, and no other.
FactBecomes(row, n, i, f) ==
    /\ n \in Rows /\ n.terms = row.terms /\ n.amount = row.amount
    /\ n.values = row.values /\ n.adjusted = row.adjusted
    /\ n.version = row.version + 1
    /\ DOMAIN n.facts = DOMAIN row.facts
    /\ n.facts[i] = f
    /\ \A j \in DOMAIN row.facts : j # i => n.facts[j] = row.facts[j]

LEMMA FactBecomesKept ==
    ASSUME NEW terms, NEW row, IsKept(row, terms), NEW i \in DOMAIN row.facts,
           NEW f, FactCanBeRead(f), Valid(f) \in Int, NEW n, FactBecomes(row, n, i, f),
           n.status = StatusOf(n), Valid(f) <= Valid(row.facts[i])
    PROVE  IsKept(n, terms) /\ Fulfilled(n) = Fulfilled(row) - Valid(row.facts[i]) + Valid(f)
<1>1. row \in Rows /\ CanBeRead(row)
  BY DEF IsKept
<1>2. /\ n \in Rows /\ n.terms = row.terms /\ n.amount = row.amount
      /\ n.values = row.values /\ n.adjusted = row.adjusted
      /\ n.version = row.version + 1 /\ n.facts[i] = f
  BY DEF FactBecomes
<1>3. AreMoney(row.facts) /\ Fulfilled(row) \in Int
  BY <1>1, RowsHaveMoney
<1>4. Fulfilled(n) = Fulfilled(row) - Valid(row.facts[i]) + Valid(f)
  BY <1>2, <1>3, FulfilledIs, ValidReplaced DEF FactBecomes
<1>5. n.facts # <<>> /\ \A j \in DOMAIN n.facts : FactCanBeRead(n.facts[j])
  <2>1. \A j \in DOMAIN row.facts : FactCanBeRead(row.facts[j])
    BY <1>1 DEF CanBeRead
  <2> QED
    BY <1>2, <2>1 DEF FactBecomes
<1>6. Valid(row.facts[i]) \in Int
  BY <1>3 DEF AreMoney, Valid
<1>7. Fulfilled(n) <= Fulfilled(row) /\ Fulfilled(n) \in Int /\ row.amount \in Int
  BY <1>1, <1>3, <1>4, <1>6, RowsHaveValues DEF Amounts, Unknown
<1>8. Fulfilled(n) \in Nat
  <2>1. \A j \in DOMAIN n.facts : Valid(n.facts[j]) >= 0
    <3> TAKE j \in DOMAIN n.facts
    <3>1. n.facts[j] \in Facts
      BY <1>2, RowsHaveMoney
    <3> QED
      BY <1>5, <3>1 DEF FactCanBeRead, Valid, Facts
  <2> QED
    BY <1>2, <2>1, RowsHaveMoney, ValidAtLeast, FulfilledIs
<1>9. IF n.amount = Unknown THEN Fulfilled(n) = 0 ELSE Fulfilled(n) <= n.amount
  <2>1. IF row.amount = Unknown THEN Fulfilled(row) = 0 ELSE Fulfilled(row) <= row.amount
    BY <1>1 DEF CanBeRead
  <2> QED
    BY <1>2, <1>3, <1>7, <1>8, <2>1 DEF Unknown
<1> QED
  BY <1>1, <1>2, <1>4, <1>5, <1>9, FactsAreOfOpenRows, FactsChangeOnly

-----------------------------------------------------------------------------
(***************************************************************************)
(* A payment of a liability.                                               *)
(***************************************************************************)
Payment(amount) == [amount |-> amount, reversed |-> 0]

PaidFact(fact, amount) ==
    [fact EXCEPT !.remaining = @ - amount, !.settled = Append(@, Payment(amount))]

\* The row as a record, with the facts it has now.
WithFacts(row, version, facts, status) ==
    [terms |-> row.terms, version |-> version, amount |-> row.amount, status |-> status,
     values |-> row.values, adjusted |-> row.adjusted, facts |-> facts]

LEMMA ReplacedFact ==
    ASSUME NEW row \in Rows, NEW i \in DOMAIN row.facts, NEW f \in Facts,
           NEW status \in Statuses
    PROVE  LET n == WithFacts(row, row.version + 1, [row.facts EXCEPT ![i] = f], status)
           IN  FactBecomes(row, n, i, f) /\ n.status = status
<1>1. PICK facts : facts = [row.facts EXCEPT ![i] = f]
  OBVIOUS
<1>2. row.facts \in Seq(Facts) /\ row.version \in Nat
  BY DEF Rows
<1>3. facts \in Seq(Facts)
  BY <1>1, <1>2
<1>4. /\ DOMAIN facts = DOMAIN row.facts /\ facts[i] = f
      /\ \A j \in DOMAIN row.facts : j # i => facts[j] = row.facts[j]
  BY <1>1
<1>5. PICK n : n = WithFacts(row, row.version + 1, facts, status)
  OBVIOUS
<1>6. n \in Rows
  BY <1>2, <1>3, <1>5 DEF Rows, Statuses, WithFacts
<1>7. /\ n.terms = row.terms /\ n.amount = row.amount
      /\ n.values = row.values /\ n.adjusted = row.adjusted
      /\ n.version = row.version + 1 /\ n.facts = facts /\ n.status = status
  BY <1>5 DEF WithFacts
<1> QED
  BY <1>1, <1>4, <1>5, <1>6, <1>7 DEF FactBecomes

LEMMA PaidFactCanBeRead ==
    ASSUME NEW fact \in Facts, FactCanBeRead(fact), fact.kind = "EXTERNAL_LIABILITY",
           NEW amount \in Nat \ {0}, amount <= fact.remaining,
           NEW f, f = PaidFact(fact, amount)
    PROVE  /\ f \in Facts /\ FactCanBeRead(f) /\ Valid(f) = Valid(fact)
           /\ f.kind = fact.kind /\ Valid(f) \in Int
<1>1. PICK settled : settled = Append(fact.settled, Payment(amount))
  OBVIOUS
<1>2. fact.settled \in Seq([amount : Nat, reversed : Nat])
  BY DEF Facts
<1>3. /\ Payment(amount) \in [amount : Nat, reversed : Nat]
      /\ Payment(amount).amount = amount /\ Payment(amount).reversed = 0
      /\ Valid(Payment(amount)) = amount
  BY DEF Payment, Valid
<1>4. settled \in Seq([amount : Nat, reversed : Nat])
  BY <1>1, <1>2, <1>3
<1>5. /\ fact.kind \in FactKinds /\ fact.amount \in Nat /\ fact.reversed \in Nat
      /\ fact.remaining \in Nat
  BY DEF Facts, FactKinds
<1>6. f = [kind |-> fact.kind, amount |-> fact.amount, reversed |-> fact.reversed,
           remaining |-> fact.remaining - amount, settled |-> settled]
  BY <1>1 DEF PaidFact, Facts
<1>7. fact.remaining - amount \in Nat
  BY <1>5
<1>8. f \in Facts
  BY <1>4, <1>5, <1>6, <1>7 DEF Facts, FactKinds
<1>9. /\ f.kind = fact.kind /\ f.amount = fact.amount /\ f.reversed = fact.reversed
      /\ f.remaining = fact.remaining - amount /\ f.settled = settled
  BY <1>6
<1>10. Valid(f) = Valid(fact) /\ Valid(f) \in Int
  BY <1>5, <1>9 DEF Valid
<1>11. AreMoney(fact.settled)
  <2>1. PICK s : s = fact.settled
    OBVIOUS
  <2>2. IsList(s) /\ \A j \in DOMAIN s : s[j] \in [amount : Nat, reversed : Nat]
    BY <1>2, <2>1, EntryIsIn
  <2> QED
    BY <2>1, <2>2 DEF AreMoney
<1>12. Settled(f) = Settled(fact) + amount /\ Settled(fact) \in Int
  <2>1. PICK s, e : s = fact.settled /\ e = Payment(amount)
    OBVIOUS
  <2>2. /\ s \in Seq([amount : Nat, reversed : Nat]) /\ AreMoney(s)
        /\ e \in [amount : Nat, reversed : Nat]
        /\ e.amount \in Nat /\ e.reversed \in Nat /\ Valid(e) = amount
    BY <1>2, <1>3, <1>11, <2>1
  <2>3. SumFunction(ValidOf(Append(s, e))) = SumFunction(ValidOf(s)) + amount
    BY <2>2, ValidAppended
  <2>4. SumFunction(ValidOf(s)) \in Int
    BY <2>2, MoneyIsSummable
  <2>5. Settled(fact) = SumFunction(ValidOf(s)) /\ Settled(f) = SumFunction(ValidOf(Append(s, e)))
    BY <1>1, <1>9, <2>1, SettledIs
  <2> QED
    BY <2>3, <2>4, <2>5
<1>13. \A j \in DOMAIN settled : settled[j].amount >= 1 /\ Valid(settled[j]) >= 0
  <2>1. PICK s, e : s = fact.settled /\ e = Payment(amount)
    OBVIOUS
  <2>2. \A j \in DOMAIN s : s[j].amount >= 1 /\ Valid(s[j]) >= 0
    BY <2>1 DEF FactCanBeRead
  <2>3. e.amount >= 1 /\ Valid(e) >= 0
    BY <1>3, <2>1
  <2>4. settled = Append(s, e) /\ s \in Seq([amount : Nat, reversed : Nat])
    BY <1>1, <1>2, <2>1
  <2>5. \A j \in DOMAIN settled : (j \in DOMAIN s /\ settled[j] = s[j]) \/ settled[j] = e
    BY <2>4
  <2> QED
    BY <2>2, <2>3, <2>5
<1>14. /\ fact.amount >= 1 /\ fact.reversed \in 0 .. fact.amount
       /\ fact.remaining \in 0 .. fact.amount
       /\ Settled(fact) = Valid(fact) - fact.remaining
  BY DEF FactCanBeRead
<1>15. Settled(f) = Valid(f) - f.remaining /\ f.remaining \in 0 .. f.amount
  <2>1. Valid(fact) \in Int
    BY <1>10
  <2> QED
    BY <1>5, <1>7, <1>9, <1>10, <1>12, <1>14, <2>1
<1>16. FactCanBeRead(f)
  BY <1>9, <1>13, <1>14, <1>15 DEF FactCanBeRead
<1> QED
  BY <1>8, <1>9, <1>10, <1>16

LEMMA PaymentKeeps ==
    ASSUME NEW terms, NEW row, IsKept(row, terms), NEW i, NEW amount \in Nat \ {0},
           CanSettle(row, i, amount), NEW n, n = WithSettlement(row, i, amount)
    PROVE  /\ IsKept(n, terms) /\ n.status = row.status
           /\ FactBecomes(row, n, i, PaidFact(row.facts[i], amount))
           /\ Fulfilled(n) = Fulfilled(row)
<1>1. row \in Rows /\ CanBeRead(row)
  BY DEF IsKept
<1>2. i \in DOMAIN row.facts /\ row.facts[i].kind = "EXTERNAL_LIABILITY"
      /\ amount <= row.facts[i].remaining
  BY DEF CanSettle
<1>3. PICK fact, f : fact = row.facts[i] /\ f = PaidFact(fact, amount)
  OBVIOUS
<1>4. fact \in Facts /\ FactCanBeRead(fact) /\ Valid(fact) \in Int /\ Fulfilled(row) \in Int
  BY <1>1, <1>2, <1>3, RowsHaveMoney DEF CanBeRead, Valid, Facts
<1>5. f \in Facts /\ FactCanBeRead(f) /\ Valid(f) = Valid(fact) /\ Valid(f) \in Int
  BY <1>2, <1>3, <1>4, PaidFactCanBeRead
<1>6. n = WithFacts(row, row.version + 1, [row.facts EXCEPT ![i] = f], row.status)
  BY <1>1, <1>3 DEF WithSettlement, WithFacts, PaidFact, Payment, Rows
<1>7. row.status \in Statuses
  BY <1>1 DEF Rows, Statuses
<1>8. FactBecomes(row, n, i, f) /\ n.status = row.status
  BY <1>1, <1>2, <1>5, <1>6, <1>7, ReplacedFact
<1>9. AreMoney(row.facts)
  BY <1>1, RowsHaveMoney
<1>10. Fulfilled(n) = Fulfilled(row)
  <2>1. /\ DOMAIN n.facts = DOMAIN row.facts
        /\ \A j \in DOMAIN row.facts : Valid(n.facts[j]) = Valid(row.facts[j])
    BY <1>3, <1>5, <1>8 DEF FactBecomes
  <2> QED
    BY <1>9, <2>1, ValidSame, FulfilledIs
<1>11. n.status = StatusOf(n)
  <2>1. row.status = StatusOf(row)
    BY <1>1, <1>2, FactsAreOfOpenRows
  <2>2. n.amount = row.amount /\ n.adjusted = row.adjusted
    BY <1>8 DEF FactBecomes
  <2> QED
    BY <1>8, <1>10, <2>1, <2>2 DEF StatusOf, Remaining
<1>12. Valid(f) <= Valid(fact)
  BY <1>5
<1>13. IsKept(n, terms)
  BY <1>2, <1>3, <1>5, <1>8, <1>11, <1>12, FactBecomesKept
<1> QED
  BY <1>3, <1>8, <1>10, <1>13

-----------------------------------------------------------------------------
(***************************************************************************)
(* The reversal of a fact, and of a payment of a liability.                *)
(***************************************************************************)
ReversedFact(fact, amount) ==
    [fact EXCEPT !.reversed = @ + amount,
                 !.remaining = IF fact.kind = "EXTERNAL_LIABILITY" THEN @ - amount ELSE @]

LEMMA ReversedFactCanBeRead ==
    ASSUME NEW fact \in Facts, FactCanBeRead(fact), NEW amount \in Nat \ {0},
           amount <= Valid(fact),
           fact.kind = "EXTERNAL_LIABILITY" => Valid(fact) - amount >= Settled(fact),
           NEW f, f = ReversedFact(fact, amount)
    PROVE  /\ f \in Facts /\ FactCanBeRead(f)
           /\ Valid(f) = Valid(fact) - amount /\ Valid(f) \in Int
           /\ f.kind = fact.kind /\ f.settled = fact.settled
           /\ f.reversed = fact.reversed + amount
           /\ f.remaining = fact.remaining
                  - IF fact.kind = "EXTERNAL_LIABILITY" THEN amount ELSE 0
<1>1. /\ fact.kind \in FactKinds /\ fact.amount \in Nat /\ fact.reversed \in Nat
      /\ fact.remaining \in Nat /\ fact.settled \in Seq([amount : Nat, reversed : Nat])
  BY DEF Facts, FactKinds
<1>2. PICK remaining : remaining = fact.remaining
                           - IF fact.kind = "EXTERNAL_LIABILITY" THEN amount ELSE 0
  OBVIOUS
<1>3. f = [kind |-> fact.kind, amount |-> fact.amount, reversed |-> fact.reversed + amount,
           remaining |-> remaining, settled |-> fact.settled]
  <2>1. remaining = IF fact.kind = "EXTERNAL_LIABILITY" THEN fact.remaining - amount
                    ELSE fact.remaining
    BY <1>1, <1>2
  <2>2. f = [fact EXCEPT !.reversed = @ + amount, !.remaining = remaining]
    BY <2>1 DEF ReversedFact
  <2> QED
    BY <2>2 DEF Facts
<1>4. /\ fact.kind = "EXTERNAL_LIABILITY" =>
             /\ fact.remaining \in 0 .. fact.amount
             /\ Settled(fact) = Valid(fact) - fact.remaining
      /\ fact.kind # "EXTERNAL_LIABILITY" => fact.settled = <<>>
      /\ fact.amount >= 1 /\ fact.reversed \in 0 .. fact.amount
      /\ \A j \in DOMAIN fact.settled : fact.settled[j].amount >= 1
                                        /\ Valid(fact.settled[j]) >= 0
  BY DEF FactCanBeRead
<1>5. Valid(fact) = fact.amount - fact.reversed
  BY DEF Valid
<1>6. remaining \in Nat /\ (fact.kind = "EXTERNAL_LIABILITY" => remaining \in 0 .. fact.amount)
  BY <1>1, <1>2, <1>4, <1>5
<1>7. f \in Facts
  BY <1>1, <1>3, <1>6 DEF Facts, FactKinds
<1>8. /\ f.kind = fact.kind /\ f.amount = fact.amount /\ f.reversed = fact.reversed + amount
      /\ f.remaining = remaining /\ f.settled = fact.settled
  BY <1>3
<1>9. Valid(f) = Valid(fact) - amount /\ Valid(f) \in Int
  BY <1>1, <1>8 DEF Valid
<1>10. Settled(f) = Settled(fact)
  BY <1>8, SettledIs
<1>11. f.reversed \in 0 .. f.amount
  BY <1>1, <1>5, <1>8
<1>12. f.kind = "EXTERNAL_LIABILITY" => Settled(f) = Valid(f) - f.remaining
  BY <1>1, <1>2, <1>4, <1>5, <1>8, <1>9, <1>10
<1>13. FactCanBeRead(f)
  BY <1>4, <1>6, <1>8, <1>11, <1>12 DEF FactCanBeRead
<1> QED
  BY <1>2, <1>7, <1>8, <1>9, <1>13

\* The status a reversal writes is the one its row is read with.
LEMMA ReversedStatusIsRight ==
    ASSUME NEW row \in Rows, CanBeRead(row), NEW n, n.amount = row.amount,
           n.adjusted = row.adjusted, Fulfilled(row) # 0, Fulfilled(n) \in Nat,
           Fulfilled(n) <= Fulfilled(row)
    PROVE  ReversedStatus(row, Fulfilled(n)) = StatusOf(n)
<1>1. Fulfilled(row) \in Nat /\ row.amount \in Amounts
  BY ReadFacts, RowsHaveValues
<1>2. row.amount # Unknown /\ row.amount \in Nat /\ row.amount # 0
  BY <1>1 DEF CanBeRead, Amounts, Unknown
<1> QED
  BY <1>1, <1>2 DEF ReversedStatus, StatusOf, Remaining

LEMMA ReversalKeeps ==
    ASSUME NEW terms, NEW row, IsKept(row, terms), NEW i, NEW amount \in Nat \ {0},
           CanReverse(row, i, amount), NEW n, n = WithReversal(row, i, amount)
    PROVE  /\ IsKept(n, terms)
           /\ FactBecomes(row, n, i, ReversedFact(row.facts[i], amount))
           /\ Fulfilled(n) = Fulfilled(row) - amount
<1>1. row \in Rows /\ CanBeRead(row)
  BY DEF IsKept
<1>2. PICK fact, f : fact = row.facts[i] /\ f = ReversedFact(fact, amount)
  OBVIOUS
<1>3. /\ i \in DOMAIN row.facts /\ amount <= Valid(fact)
      /\ fact.kind = "EXTERNAL_LIABILITY" => Valid(fact) - amount >= Settled(fact)
  BY <1>2 DEF CanReverse
<1>4. fact \in Facts /\ FactCanBeRead(fact) /\ Valid(fact) \in Nat /\ Fulfilled(row) \in Nat
      /\ Valid(fact) <= Fulfilled(row)
  BY <1>1, <1>2, <1>3, RowsHaveMoney, ReadFacts DEF CanBeRead
<1>5. /\ f \in Facts /\ FactCanBeRead(f)
      /\ Valid(f) = Valid(fact) - amount /\ Valid(f) \in Int
  BY <1>2, <1>3, <1>4, ReversedFactCanBeRead
<1>6. PICK status : status = ReversedStatus(row, Fulfilled(row) - amount)
  OBVIOUS
<1>7. status \in Statuses
  BY <1>6 DEF ReversedStatus, Statuses
<1>8. n = WithFacts(row, row.version + 1, [row.facts EXCEPT ![i] = f], status)
  BY <1>1, <1>2, <1>3, <1>6 DEF WithReversal, WithFacts, ReversedFact, Rows
<1>9. FactBecomes(row, n, i, f) /\ n.status = status
  BY <1>1, <1>3, <1>5, <1>7, <1>8, ReplacedFact
<1>10. /\ DOMAIN n.facts = DOMAIN row.facts /\ n.facts[i] = f
       /\ \A j \in DOMAIN row.facts : j # i => n.facts[j] = row.facts[j]
       /\ n.amount = row.amount /\ n.adjusted = row.adjusted
  BY <1>9 DEF FactBecomes
<1>11. Fulfilled(n) = Fulfilled(row) - amount
  <2>1. AreMoney(row.facts)
    BY <1>1, RowsHaveMoney
  <2>2. SumFunction(ValidOf(n.facts))
            = SumFunction(ValidOf(row.facts)) - Valid(row.facts[i]) + Valid(n.facts[i])
    BY <1>3, <1>5, <1>10, <2>1, ValidReplaced
  <2> QED
    BY <1>2, <1>4, <1>5, <1>10, <2>2, FulfilledIs
<1>12. n.status = StatusOf(n)
  <2>1. Fulfilled(n) \in Nat /\ Fulfilled(n) <= Fulfilled(row) /\ Fulfilled(row) # 0
    BY <1>3, <1>4, <1>11
  <2>2. ReversedStatus(row, Fulfilled(n)) = StatusOf(n)
    BY <1>1, <1>10, <2>1, ReversedStatusIsRight
  <2> QED
    BY <1>6, <1>9, <1>11, <2>2
<1>13. Valid(f) <= Valid(fact)
  BY <1>4, <1>5
<1>14. IsKept(n, terms)
  BY <1>2, <1>3, <1>5, <1>9, <1>12, <1>13, FactBecomesKept
<1> QED
  BY <1>2, <1>9, <1>11, <1>14

ReversedPayment(fact, j, amount) ==
    [fact EXCEPT !.remaining = @ + amount, !.settled[j].reversed = @ + amount]

LEMMA ReversedPaymentCanBeRead ==
    ASSUME NEW fact \in Facts, FactCanBeRead(fact), NEW amount \in Nat \ {0},
           NEW j \in DOMAIN fact.settled, amount <= Valid(fact.settled[j]),
           Valid(fact.settled[j]) <= Settled(fact), Settled(fact) \in Nat,
           NEW f, f = ReversedPayment(fact, j, amount)
    PROVE  /\ f \in Facts /\ FactCanBeRead(f) /\ fact.kind = "EXTERNAL_LIABILITY"
           /\ Valid(f) = Valid(fact) /\ Valid(f) \in Int
           /\ f.kind = fact.kind /\ f.reversed = fact.reversed
           /\ f.remaining = fact.remaining + amount
           /\ Settled(f) = Settled(fact) - amount
           /\ DOMAIN f.settled = DOMAIN fact.settled
           /\ \A k \in DOMAIN fact.settled :
                  f.settled[k].reversed =
                      fact.settled[k].reversed + IF k = j THEN amount ELSE 0
<1>1. PICK s : s = fact.settled
  OBVIOUS
<1>2. s \in Seq([amount : Nat, reversed : Nat]) /\ j \in DOMAIN s
  BY <1>1 DEF Facts
<1>3. \A k \in DOMAIN s : s[k] \in [amount : Nat, reversed : Nat]
  BY <1>2, EntryIsIn
<1>4. AreMoney(s)
  BY <1>2, <1>3, EntryIsIn DEF AreMoney
<1>5. PICK e : e = [amount |-> s[j].amount, reversed |-> s[j].reversed + amount]
  OBVIOUS
<1>6. e \in [amount : Nat, reversed : Nat] /\ e.amount = s[j].amount
      /\ e.reversed = s[j].reversed + amount
  BY <1>2, <1>3, <1>5
<1>7. PICK t : t = [s EXCEPT ![j] = e]
  OBVIOUS
<1>8. /\ t \in Seq([amount : Nat, reversed : Nat])
      /\ DOMAIN t = DOMAIN s /\ t[j] = e
      /\ \A k \in DOMAIN s : k # j => t[k] = s[k]
  BY <1>2, <1>6, <1>7
<1>9. Valid(s[j]) \in Int /\ Valid(e) = Valid(s[j]) - amount
  BY <1>2, <1>3, <1>6 DEF Valid
<1>10. SumFunction(ValidOf(t)) = SumFunction(ValidOf(s)) - amount
  <2>1. SumFunction(ValidOf(t)) = SumFunction(ValidOf(s)) - Valid(s[j]) + Valid(t[j])
    <3>1. Valid(t[j]) \in Int /\ DOMAIN t = DOMAIN s
      BY <1>8, <1>9
    <3>2. \A k \in DOMAIN s : k # j => t[k] = s[k]
      BY <1>8
    <3> QED
      BY <1>2, <1>4, <3>1, <3>2, ValidReplaced
  <2>2. SumFunction(ValidOf(s)) \in Int
    BY <1>4, MoneyIsSummable
  <2> QED
    BY <1>8, <1>9, <2>1, <2>2
<1>11. /\ fact.kind \in FactKinds /\ fact.amount \in Nat /\ fact.reversed \in Nat
       /\ fact.remaining \in Nat
  BY DEF Facts, FactKinds
<1>12. f = [kind |-> fact.kind, amount |-> fact.amount, reversed |-> fact.reversed,
            remaining |-> fact.remaining + amount, settled |-> t]
  <2>1. t = [s EXCEPT ![j].reversed = @ + amount]
    BY <1>2, <1>3, <1>5, <1>7
  <2> QED
    BY <1>1, <2>1 DEF ReversedPayment, Facts
<1>13. f \in Facts
  <2>1. t \in Seq([amount : Nat, reversed : Nat]) /\ fact.remaining + amount \in Nat
    BY <1>8, <1>11
  <2> QED
    BY <1>11, <1>12, <2>1 DEF Facts, FactKinds
<1>14. /\ f.kind = fact.kind /\ f.amount = fact.amount /\ f.reversed = fact.reversed
       /\ f.remaining = fact.remaining + amount /\ f.settled = t
  BY <1>12
<1>15. Settled(f) = Settled(fact) - amount
  BY <1>1, <1>10, <1>14, SettledIs
<1>16. Valid(f) = Valid(fact) /\ Valid(f) \in Int
  BY <1>11, <1>14 DEF Valid
<1>17. fact.kind = "EXTERNAL_LIABILITY"
  <2>1. fact.settled # <<>>
    OBVIOUS
  <2> QED
    BY <2>1 DEF FactCanBeRead
<1>18. /\ fact.amount >= 1 /\ fact.reversed \in 0 .. fact.amount
       /\ fact.remaining \in 0 .. fact.amount
       /\ Settled(fact) = Valid(fact) - fact.remaining
       /\ \A k \in DOMAIN s : s[k].amount >= 1 /\ Valid(s[k]) >= 0
  BY <1>1, <1>17 DEF FactCanBeRead
<1>19. amount <= Settled(fact) /\ amount <= Valid(s[j])
  BY <1>1, <1>9
<1>20. f.remaining \in 0 .. f.amount
  <2>1. Valid(fact) = fact.amount - fact.reversed
    BY DEF Valid
  <2> QED
    BY <1>11, <1>14, <1>18, <1>19, <2>1
<1>21. Settled(f) = Valid(f) - f.remaining
  BY <1>11, <1>14, <1>15, <1>16, <1>18
<1>22. \A k \in DOMAIN t : t[k].amount >= 1 /\ Valid(t[k]) >= 0
  <2>1. e.amount >= 1 /\ Valid(e) >= 0
    BY <1>2, <1>6, <1>9, <1>18, <1>19
  <2> QED
    BY <1>8, <1>18, <2>1
<1>23. FactCanBeRead(f)
  BY <1>14, <1>17, <1>18, <1>20, <1>21, <1>22 DEF FactCanBeRead
<1>24. \A k \in DOMAIN s : t[k].reversed = s[k].reversed + IF k = j THEN amount ELSE 0
  BY <1>3, <1>6, <1>8
<1> QED
  BY <1>1, <1>8, <1>13, <1>14, <1>15, <1>16, <1>17, <1>23, <1>24

LEMMA PaymentReversalKeeps ==
    ASSUME NEW terms, NEW row, IsKept(row, terms), NEW i, NEW j, NEW amount \in Nat \ {0},
           CanReverseSettlement(row, i, j, amount),
           NEW n, n = WithSettlementReversal(row, i, j, amount)
    PROVE  /\ IsKept(n, terms) /\ n.status = row.status
           /\ FactBecomes(row, n, i, ReversedPayment(row.facts[i], j, amount))
           /\ Fulfilled(n) = Fulfilled(row)
<1>1. row \in Rows /\ CanBeRead(row)
  BY DEF IsKept
<1>2. PICK fact, f : fact = row.facts[i] /\ f = ReversedPayment(fact, j, amount)
  OBVIOUS
<1>3. i \in DOMAIN row.facts /\ j \in DOMAIN fact.settled /\ amount <= Valid(fact.settled[j])
  BY <1>2 DEF CanReverseSettlement
<1>4. /\ fact \in Facts /\ FactCanBeRead(fact) /\ Valid(fact) \in Nat
      /\ Fulfilled(row) \in Nat /\ Valid(fact) <= Fulfilled(row)
      /\ Settled(fact) \in Nat /\ Valid(fact.settled[j]) \in Nat
      /\ Valid(fact.settled[j]) <= Settled(fact)
  BY <1>1, <1>2, <1>3, RowsHaveMoney, ReadFacts DEF CanBeRead
<1>5. /\ f \in Facts /\ FactCanBeRead(f) /\ fact.kind = "EXTERNAL_LIABILITY"
      /\ Valid(f) = Valid(fact) /\ Valid(f) \in Int
  BY <1>2, <1>3, <1>4, ReversedPaymentCanBeRead
<1>6. PICK status : status = ReversedStatus(row, Fulfilled(row))
  OBVIOUS
<1>7. status \in Statuses
  BY <1>6 DEF ReversedStatus, Statuses
<1>8. n = WithFacts(row, row.version + 1, [row.facts EXCEPT ![i] = f], status)
  <2>1. PICK facts : facts = [row.facts EXCEPT ![i].remaining = @ + amount,
                                               ![i].settled[j].reversed = @ + amount]
    OBVIOUS
  <2>2. n = WithFacts(row, row.version + 1, facts, status)
    BY <1>1, <1>2, <1>3, <1>6, <2>1 DEF WithSettlementReversal, WithFacts, Rows
  <2>3. facts = [row.facts EXCEPT ![i] = f]
    BY <1>2, <1>3, <1>4, <2>1 DEF ReversedPayment, Facts
  <2> QED
    BY <2>2, <2>3
<1>9. FactBecomes(row, n, i, f) /\ n.status = status
  BY <1>1, <1>3, <1>5, <1>7, <1>8, ReplacedFact
<1>10. Fulfilled(n) = Fulfilled(row)
  <2>1. /\ DOMAIN n.facts = DOMAIN row.facts
        /\ \A k \in DOMAIN row.facts : Valid(n.facts[k]) = Valid(row.facts[k])
    BY <1>2, <1>5, <1>9 DEF FactBecomes
  <2>2. AreMoney(row.facts)
    BY <1>1, RowsHaveMoney
  <2> QED
    BY <2>1, <2>2, ValidSame, FulfilledIs
<1>11. Fulfilled(row) # 0
  <2>1. Settled(fact) <= Valid(fact)
    BY <1>4, <1>5 DEF FactCanBeRead, Facts
  <2> QED
    BY <1>3, <1>4, <2>1
<1>12. n.status = StatusOf(n) /\ n.status = row.status
  <2>1. n.amount = row.amount /\ n.adjusted = row.adjusted
    BY <1>9 DEF FactBecomes
  <2>2. ReversedStatus(row, Fulfilled(n)) = StatusOf(n)
    BY <1>1, <1>4, <1>10, <1>11, <2>1, ReversedStatusIsRight
  <2>3. row.status = StatusOf(row)
    BY <1>1, <1>3, FactsAreOfOpenRows
  <2>4. StatusOf(n) = StatusOf(row)
    BY <1>10, <2>1 DEF StatusOf, Remaining
  <2> QED
    BY <1>6, <1>9, <1>10, <2>2, <2>3, <2>4
<1>13. Valid(f) <= Valid(fact)
  BY <1>4, <1>5
<1>14. IsKept(n, terms)
  BY <1>2, <1>3, <1>5, <1>9, <1>12, <1>13, FactBecomesKept
<1> QED
  BY <1>2, <1>9, <1>10, <1>12, <1>14

-----------------------------------------------------------------------------
(***************************************************************************)
(* An adjustment, a value and a cancellation.                              *)
(***************************************************************************)
AreTerms(terms) == terms.mode \in {"FIXED", "VARIABLE"} /\ terms.amount \in Nat \ {0}

LEMMA AdjustmentKeeps ==
    ASSUME NEW terms, AreTerms(terms), NEW row, IsKept(row, terms), NEW by \in Int,
           CanAdjust(row, by), NEW n, n = Adjusted(row, by)
    PROVE  IsKept(n, terms) /\ n.terms = row.terms /\ n.version = row.version + 1
<1>1. row \in Rows /\ CanBeRead(row)
  BY DEF IsKept
<1>2. /\ row.amount \in Int /\ row.amount # Unknown /\ row.version \in Nat
      /\ row.adjusted \in Seq(Int) /\ SumOf(row.adjusted) \in Int
      /\ row.status # "CANCELLED" /\ row.amount + by >= 0
      /\ row.amount + by >= Fulfilled(row)
  BY <1>1, RowsHaveValues DEF CanAdjust, Amounts, Unknown
<1>3. Fulfilled(row) \in Nat
  BY <1>1, ReadFacts
<1>4. PICK status : status = IF Fulfilled(row) = row.amount + by THEN "FULFILLED"
                             ELSE IF Fulfilled(row) = 0 THEN "PENDING"
                             ELSE "PARTIALLY_FULFILLED"
  OBVIOUS
<1>5. status \in Statuses
  BY <1>4 DEF Statuses
<1>6. PICK adjusted : adjusted = Append(row.adjusted, by)
  OBVIOUS
<1>7. adjusted \in Seq(Int) /\ adjusted # <<>>
  BY <1>2, <1>6
<1>8. SumOf(adjusted) = SumOf(row.adjusted) + by
  BY <1>2, <1>6, TotalOfAppended DEF SumOf
<1>9. n = [terms |-> row.terms, version |-> row.version + 1, amount |-> row.amount + by,
           status |-> status, values |-> row.values, adjusted |-> adjusted,
           facts |-> row.facts]
  BY <1>1, <1>4, <1>6 DEF Adjusted, Rows
<1>10. /\ n.terms = row.terms /\ n.version = row.version + 1 /\ n.amount = row.amount + by
       /\ n.status = status /\ n.values = row.values /\ n.adjusted = adjusted
       /\ n.facts = row.facts
  BY <1>9
<1>11. n.amount \in Nat /\ n.amount # Unknown
  BY <1>2, <1>10 DEF Unknown
<1>12. n \in Rows
  BY <1>1, <1>2, <1>5, <1>7, <1>9, <1>10, <1>11 DEF Rows, Statuses, Amounts
<1>13. Fulfilled(n) = Fulfilled(row)
  BY <1>10, FulfilledIs
<1>14. n.status = StatusOf(n)
  BY <1>2, <1>3, <1>4, <1>7, <1>10, <1>11, <1>13 DEF StatusOf, Remaining
<1>15. ValuesCanBeRead(n)
  <2>1. PICK v, k : v = row.values /\ k = Len(v)
    OBVIOUS
  <2>2. k \in Nat /\ \A i \in 1 .. k : v[i].version \in Nat /\ v[i].amount \in Nat
    BY <1>1, <2>1, RowsHaveValues
  <2>3. k > 0 => /\ \A i \in 1 .. k : /\ v[i].version = i + 1
                                      /\ v[i].previous = IF i = 1 THEN Unknown
                                                         ELSE v[i - 1].amount
                 /\ v[k].amount = row.amount - SumOf(row.adjusted)
                 /\ row.version >= v[k].version
    BY <1>1, <2>1 DEF CanBeRead, ValuesCanBeRead
  <2>4. k > 0 => v[k].amount = n.amount - SumOf(n.adjusted) /\ n.version >= v[k].version
    BY <1>2, <1>8, <1>10, <2>2, <2>3
  <2> QED
    BY <1>10, <2>1, <2>3, <2>4 DEF ValuesCanBeRead
<1>16. CanBeRead(n)
  <2>1. \A i \in DOMAIN n.facts : FactCanBeRead(n.facts[i])
    BY <1>1, <1>10 DEF CanBeRead
  <2>2. n.status # "CANCELLED" /\ n.version >= 1
    BY <1>2, <1>4, <1>10
  <2> QED
    BY <1>2, <1>7, <1>10, <1>11, <1>13, <1>14, <1>15, <2>1, <2>2 DEF CanBeRead
<1>17. IsPriced(n, terms)
  <2>1. IsPriced(row, terms)
    BY DEF IsKept
  <2> QED
    BY <1>2, <1>8, <1>10, <1>11, <2>1 DEF IsPriced, AreTerms
<1> QED
  BY <1>7, <1>10, <1>12, <1>16, <1>17 DEF IsKept, IsUntouched

LEMMA ValueKeeps ==
    ASSUME NEW terms, terms.mode = "VARIABLE", NEW row, IsKept(row, terms),
           NEW amount \in Nat \ {0}, CanDefineValue(row),
           NEW n, n = WithValue(row, amount)
    PROVE  IsKept(n, terms) /\ n.terms = row.terms /\ n.version = row.version + 1
<1>1. row \in Rows /\ CanBeRead(row) /\ IsPriced(row, terms)
  BY DEF IsKept
<1>2. /\ row.status # "CANCELLED" /\ row.adjusted = <<>> /\ row.facts = <<>>
      /\ row.version = Len(row.values) + 1
  BY DEF CanDefineValue, IsKept, IsUntouched
<1>3. row.amount \in Amounts /\ row.version \in Nat
  BY <1>1, RowsHaveValues
<1>4. PICK e : e = [version |-> row.version + 1, previous |-> row.amount, amount |-> amount]
  OBVIOUS
<1>5. PICK v, w : v = row.values /\ w = Append(v, e)
  OBVIOUS
<1>6. e \in Values /\ v \in Seq(Values)
  BY <1>1, <1>3, <1>4, <1>5 DEF Values, Rows
<1>7. w \in Seq(Values)
  BY <1>5, <1>6
<1>8. n = [terms |-> row.terms, version |-> row.version + 1, amount |-> amount,
           status |-> row.status, values |-> w, adjusted |-> row.adjusted,
           facts |-> row.facts]
  BY <1>1, <1>4, <1>5 DEF WithValue, Rows
<1>9. /\ n.terms = row.terms /\ n.version = row.version + 1 /\ n.amount = amount
      /\ n.status = row.status /\ n.values = w /\ n.adjusted = row.adjusted
      /\ n.facts = row.facts
  BY <1>8
<1>10. amount \in Amounts /\ amount # Unknown /\ row.version + 1 \in Nat
  BY <1>3 DEF Amounts, Unknown
<1>11. n \in Rows
  BY <1>1, <1>7, <1>8, <1>10 DEF Rows
<1>12. Fulfilled(n) = 0 /\ Fulfilled(row) = 0
  BY <1>2, <1>9, FulfilledIs, ValidOfNone
<1>13. n.status = StatusOf(n)
  <2>1. row.status = StatusOf(row)
    BY <1>1, <1>2 DEF CanBeRead
  <2> QED
    BY <1>2, <1>9, <1>12, <2>1 DEF StatusOf
<1>14. SumOf(n.adjusted) = 0 /\ SumOf(row.adjusted) = 0
  BY <1>2, <1>9, TotalOfNone DEF SumOf
<1>15. /\ Len(v) \in Nat /\ Len(w) = Len(v) + 1 /\ w[Len(w)] = e
       /\ \A i \in 1 .. Len(v) : w[i] = v[i] /\ v[i] \in Values
  BY <1>5, <1>6
<1>16. ValuesCanBeRead(n)
  <2>1. PICK k : k = Len(v)
    OBVIOUS
  <2>2. k > 0 => /\ \A i \in 1 .. k : /\ v[i].version = i + 1
                                      /\ v[i].previous = IF i = 1 THEN Unknown
                                                         ELSE v[i - 1].amount
                 /\ v[k].amount = row.amount
    BY <1>1, <1>3, <1>5, <1>14, <2>1 DEF CanBeRead, ValuesCanBeRead, Amounts, Unknown
  <2>3. e.version = k + 2 /\ e.previous = row.amount /\ e.amount = amount
    BY <1>2, <1>4, <1>5, <1>15, <2>1
  <2>4. k = 0 => row.amount = Unknown
    <3>1. ASSUME NEW S, NEW s \in Seq(S), Len(s) = 0
          PROVE  s = <<>>
      BY <3>1
    <3>2. k = 0 => row.values = <<>>
      BY <1>5, <1>6, <2>1, <3>1
    <3> QED
      BY <1>1, <3>2 DEF IsPriced
  <2>5. ASSUME NEW i \in 1 .. k + 1
        PROVE  /\ w[i].version = i + 1
               /\ w[i].previous = IF i = 1 THEN Unknown ELSE w[i - 1].amount
    <3>1. k \in Nat /\ w[k + 1] = e /\ \A j \in 1 .. k : w[j] = v[j]
      BY <1>15, <2>1
    <3>2. CASE i \in 1 .. k
      <4>1. k > 0 /\ w[i] = v[i]
        BY <3>1, <3>2
      <4>2. i # 1 => i - 1 \in 1 .. k /\ w[i - 1] = v[i - 1]
        BY <3>1, <3>2
      <4> QED
        BY <2>2, <3>2, <4>1, <4>2
    <3>3. CASE i = k + 1 /\ k = 0
      BY <2>3, <2>4, <3>1, <3>3
    <3>4. CASE i = k + 1 /\ k > 0
      <4>1. w[i - 1] = v[k] /\ i # 1
        BY <3>1, <3>4
      <4> QED
        BY <2>2, <2>3, <3>1, <3>4, <4>1
    <3> QED
      BY <3>1, <3>2, <3>3, <3>4
  <2>6. n.version >= w[k + 1].version /\ w[k + 1].amount = n.amount - SumOf(n.adjusted)
    BY <1>2, <1>3, <1>5, <1>9, <1>14, <1>15, <2>1, <2>3
  <2> QED
    BY <1>9, <1>15, <2>1, <2>5, <2>6 DEF ValuesCanBeRead
<1>17. CanBeRead(n)
  <2>1. \A i \in DOMAIN n.facts : FactCanBeRead(n.facts[i])
    BY <1>1, <1>9 DEF CanBeRead
  <2>2. n.status # "CANCELLED" /\ n.version >= 1 /\ n.amount >= 1
    BY <1>2, <1>3, <1>9
  <2> QED
    BY <1>2, <1>9, <1>10, <1>12, <1>13, <1>16, <2>1, <2>2 DEF CanBeRead
<1>18. IsPriced(n, terms)
  <2>1. n.values # <<>>
    BY <1>9, <1>15
  <2> QED
    BY <1>9, <1>10, <2>1 DEF IsPriced
<1>19. n.version = Len(n.values) + 1
  BY <1>2, <1>5, <1>9, <1>15
<1> QED
  BY <1>9, <1>11, <1>17, <1>18, <1>19 DEF IsKept

LEMMA CancellationKeeps ==
    ASSUME NEW terms, NEW row, IsKept(row, terms), CanCancel(row),
           NEW n, n = Cancelled(row)
    PROVE  IsKept(n, terms) /\ n.terms = row.terms /\ n.version = row.version + 1
<1>1. row \in Rows /\ CanBeRead(row) /\ IsPriced(row, terms)
  BY DEF IsKept
<1>2. row.facts = <<>> /\ row.version \in Nat
  BY <1>1, RowsHaveValues DEF CanCancel
<1>3. n = [terms |-> row.terms, version |-> row.version + 1, amount |-> row.amount,
           status |-> "CANCELLED", values |-> row.values, adjusted |-> row.adjusted,
           facts |-> row.facts]
  BY <1>1 DEF Cancelled, Rows
<1>4. /\ n.terms = row.terms /\ n.version = row.version + 1 /\ n.amount = row.amount
      /\ n.status = "CANCELLED" /\ n.values = row.values /\ n.adjusted = row.adjusted
      /\ n.facts = row.facts
  BY <1>3
<1>5. n \in Rows
  BY <1>1, <1>2, <1>3 DEF Rows
<1>6. Fulfilled(n) = Fulfilled(row)
  BY <1>4, FulfilledIs
<1>7. ValuesCanBeRead(n)
  <2>1. ValuesCanBeRead(row)
    BY <1>1 DEF CanBeRead
  <2>2. Len(row.values) \in Nat /\ \A i \in 1 .. Len(row.values) : row.values[i].version \in Nat
    BY <1>1, RowsHaveValues
  <2> QED
    BY <1>2, <1>4, <2>1, <2>2 DEF ValuesCanBeRead
<1>8. CanBeRead(n)
  BY <1>1, <1>2, <1>4, <1>6, <1>7 DEF CanBeRead
<1>9. IsPriced(n, terms)
  BY <1>1, <1>4 DEF IsPriced
<1> QED
  BY <1>4, <1>5, <1>8, <1>9 DEF IsKept, IsUntouched

-----------------------------------------------------------------------------
(***************************************************************************)
(* The calendar: what is projected on a date is a version of the series.   *)
(***************************************************************************)
Agreed == Created \cup Configurations

LEMMA AgreedAreTerms ==
    ASSUME NEW terms \in Agreed
    PROVE  AreTerms(terms) /\ terms.rule.day \in 1 .. 31 /\ IsRule(terms.rule)
BY RecurringAssumption DEF Agreed, AreTerms, IsRule

LEMMA DatesAreNumbers ==
    ASSUME NEW rule, rule.day \in 1 .. 31, NEW month \in Nat
    PROVE  DateInMonth(rule, month) \in Nat
<1>1. DaysIn(month) \in 28 .. 31
  BY DEF DaysIn
<1>2. ScheduledDate(month, rule.day) \in Nat
  BY <1>1 DEF ScheduledDate
<1> QED
  BY <1>2 DEF DateInMonth, NoDate

LEMMA EarliestIsOne ==
    ASSUME NEW P, P # {}, \A p \in P : p.on \in Nat
    PROVE  Earliest(P) \in P
<1>1. PICK S : S = {p.on : p \in P}
  OBVIOUS
<1>2. S \in SUBSET Nat /\ S # {}
  BY <1>1
<1>3. PICK n \in S : \A m \in S : n <= m
  BY <1>2, LeastNatural
<1>4. \E p \in P : \A q \in P : p.on <= q.on
  BY <1>1, <1>3
<1> QED
  BY <1>4 DEF Earliest

LEMMA ProjectionIsAVersion ==
    ASSUME NEW root, root.versions \in Seq(Agreed), NEW month \in Nat
    PROVE  /\ Projection(root, month).on \in Nat
           /\ Projection(root, month).terms \in DOMAIN root.versions \cup {0}
<1>1. PICK v : v = root.versions
  OBVIOUS
<1>2. \A i \in DOMAIN v : v[i] \in Agreed
  BY <1>1, EntryIsIn
<1>3. \A i \in DOMAIN v : DateInMonth(v[i].rule, month) \in Nat
  BY <1>2, AgreedAreTerms, DatesAreNumbers
<1>4. PICK P : P = {p \in {[on |-> DateInMonth(v[i].rule, month), terms |-> i] : i \in DOMAIN v} :
                       p.on # NoDate /\ ConfigurationAt(root, p.on) = p.terms}
  OBVIOUS
<1>5. Projection(root, month) = Earliest(P)
  BY <1>1, <1>4 DEF Projection
<1>6. \A p \in P : p.on \in Nat /\ p.terms \in DOMAIN v
  BY <1>3, <1>4
<1>7. CASE P = {}
  BY <1>5, <1>7 DEF Earliest, NoProjection, NoDate
<1>8. CASE P # {}
  <2>1. Earliest(P) \in P
    BY <1>6, <1>8, EarliestIsOne
  <2> QED
    BY <1>1, <1>5, <1>6, <2>1
<1> QED
  BY <1>7, <1>8

LEMMA MonthsAreNumbers ==
    ASSUME NEW date \in Nat
    PROVE  MonthOf(date) \in Nat
BY DEF MonthOf

-----------------------------------------------------------------------------
(***************************************************************************)
(* The invariant.                                                          *)
(***************************************************************************)
Statement == [version : 1 .. MaxChanges, versions : Seq(Agreed), ends : Int]
Effects   == [cutoff : Int, items : SUBSET Nat]
Spaces    == [status : {"ACTIVE", "CLOSING"}, version : Nat, cutoff : Int, effect : Effects]
Views     == [date : Nat, space : Nat, root : Nat, occurrence : Rows]

SeriesIsTyped ==
    /\ series \in Statement
    /\ Len(series.versions) \in 1 .. series.version

\* What was moved was materialized.
SpaceIsTyped == space \in Spaces /\ space.effect.items \subseteq DOMAIN rows

IsKeptRow(row, versions) == row.terms \in DOMAIN versions /\ IsKept(row, versions[row.terms])

RowsAreSound ==
    /\ DOMAIN rows \subseteq Nat
    /\ \A date \in DOMAIN rows : IsKeptRow(rows[date], series.versions)

\* What was seen of a row is the row still while it has the version that was seen, and
\* what was projected is projected still while the series and the space have theirs.
SeenIsTrue ==
    seen # NoView =>
        /\ seen \in Views
        /\ seen.root <= series.version /\ seen.space <= space.version
        /\ seen.date \in DOMAIN rows =>
               /\ seen.occurrence.version <= rows[seen.date].version
               /\ seen.occurrence.version = rows[seen.date].version =>
                      rows[seen.date] = seen.occurrence
        /\ seen.date \notin DOMAIN rows =>
               /\ seen.occurrence.version = 1
               /\ (seen.root = series.version /\ seen.space = space.version
                   /\ ProjectedConfigurationAt(Root, seen.date) # 0) =>
                      seen.occurrence = ProjectedUnder(ProjectedConfigurationAt(Root, seen.date))

CommitmentInv ==
    /\ today \in Days
    /\ SeriesIsTyped
    /\ SpaceIsTyped
    /\ RowsAreSound
    /\ OneOccurrencePerMonth
    /\ SeenIsTrue

LEMMA VersionsAreAgreed ==
    ASSUME SeriesIsTyped
    PROVE  /\ series.versions \in Seq(Agreed) /\ Root.versions = series.versions
           /\ \A v \in DOMAIN series.versions : v \in Nat /\ v # 0
                                                /\ series.versions[v] \in Agreed
<1>1. PICK v : v = series.versions
  OBVIOUS
<1>2. v \in Seq(Agreed)
  BY <1>1 DEF SeriesIsTyped, Statement
<1>3. \A i \in DOMAIN v : i \in Nat /\ i # 0 /\ v[i] \in Agreed
  BY <1>2, EntryIsIn
<1> QED
  BY <1>1, <1>2, <1>3 DEF Root

LEMMA FoundIsAVersion ==
    ASSUME SeriesIsTyped, RowsAreSound, NEW date \in Nat, Found(date) # 0
    PROVE  /\ Found(date) \in DOMAIN series.versions
           /\ date \notin DOMAIN rows => /\ Found(date) = ProjectedConfigurationAt(Root, date)
                                         /\ RowsIn(MonthOf(date)) = {}
<1>1. CASE date \in DOMAIN rows
  BY <1>1 DEF Found, RowsAreSound, IsKeptRow
<1>2. CASE date \notin DOMAIN rows
  <2>1. Found(date) = ProjectedConfigurationAt(Root, date) /\ RowsIn(MonthOf(date)) = {}
    BY <1>2 DEF Found
  <2>2. Projection(Root, MonthOf(date)).terms \in DOMAIN series.versions \cup {0}
    BY VersionsAreAgreed, MonthsAreNumbers, ProjectionIsAVersion
  <2> QED
    BY <2>1, <2>2 DEF ProjectedConfigurationAt, TermsOn
<1> QED
  BY <1>1, <1>2

LEMMA ShownIsKept ==
    ASSUME SeriesIsTyped, RowsAreSound, NEW date \in Nat, Found(date) # 0
    PROVE  /\ IsKeptRow(Shown(date), series.versions)
           /\ date \notin DOMAIN rows => Shown(date).version = 1
<1>1. CASE date \in DOMAIN rows
  BY <1>1 DEF Shown, RowsAreSound
<1>2. CASE date \notin DOMAIN rows
  <2>1. PICK v : v = Found(date)
    OBVIOUS
  <2>2. v \in DOMAIN series.versions /\ v \in Nat /\ series.versions[v] \in Agreed
    BY <2>1, FoundIsAVersion, VersionsAreAgreed
  <2>3. Shown(date) = Projected(v, series.versions[v])
    BY <1>2, <2>1 DEF Shown, ProjectedUnder
  <2>4. /\ IsKept(Projected(v, series.versions[v]), series.versions[v])
        /\ Projected(v, series.versions[v]).terms = v
    BY <2>2, AgreedAreTerms, ProjectedIsKept DEF AreTerms
  <2>5. Projected(v, series.versions[v]).version = 1
    BY DEF Projected
  <2> QED
    BY <2>2, <2>3, <2>4, <2>5 DEF IsKeptRow
<1> QED
  BY <1>1, <1>2

-----------------------------------------------------------------------------
(***************************************************************************)
(* The money that a command moves, against what its preview says.          *)
(***************************************************************************)
Cash(fact) == IF fact.kind = "DISBURSEMENT" THEN Valid(fact) ELSE Settled(fact)

CashOf(s) == [i \in DOMAIN s |-> Cash(s[i])]
OwedOf(s) == [i \in DOMAIN s |-> s[i].remaining]

LEMMA CashOutIs ==
    ASSUME NEW row
    PROVE  /\ CashOut(row) = SumFunction(CashOf(row.facts))
           /\ ExternalOutstanding(row) = SumFunction(OwedOf(row.facts))
BY DEF CashOut, ExternalOutstanding, AmountsOf, SumOf, CashOf, OwedOf, Cash

LEMMA CashIsInt ==
    ASSUME NEW fact \in Facts
    PROVE  Cash(fact) \in Int /\ fact.remaining \in Int
<1>1. PICK s : s = fact.settled
  OBVIOUS
<1>2. s \in Seq([amount : Nat, reversed : Nat])
  BY <1>1 DEF Facts
<1>3. IsList(s) /\ \A j \in DOMAIN s : s[j] \in [amount : Nat, reversed : Nat]
  BY <1>2, EntryIsIn
<1>4. AreMoney(s)
  BY <1>3 DEF AreMoney
<1>5. Settled(fact) \in Int
  BY <1>1, <1>4, MoneyIsSummable, SettledIs
<1> QED
  BY <1>5 DEF Cash, Valid, Facts

LEMMA MoneyReplaced ==
    ASSUME NEW row \in Rows, NEW i \in DOMAIN row.facts, NEW f \in Facts, NEW n,
           FactBecomes(row, n, i, f)
    PROVE  /\ CashOut(row) - CashOut(n) = Cash(row.facts[i]) - Cash(f)
           /\ ExternalOutstanding(n) - ExternalOutstanding(row)
                  = f.remaining - row.facts[i].remaining
<1>1. PICK s, t : s = row.facts /\ t = n.facts
  OBVIOUS
<1>2. /\ DOMAIN t = DOMAIN s /\ t[i] = f /\ i \in DOMAIN s
      /\ \A j \in DOMAIN s : j # i => t[j] = s[j]
  BY <1>1 DEF FactBecomes
<1>3. s \in Seq(Facts)
  BY <1>1 DEF Rows
<1>4. IsList(s) /\ \A j \in DOMAIN s : s[j] \in Facts
  BY <1>3, EntryIsIn
<1>5. IsFiniteSet(DOMAIN s)
  BY <1>4, FS_Interval DEF IsList
<1>6. \A j \in DOMAIN s : Cash(s[j]) \in Int /\ s[j].remaining \in Int
  BY <1>4, CashIsInt
<1>7. Cash(f) \in Int /\ f.remaining \in Int
  BY CashIsInt
<1>8. SumFunction(CashOf(t)) = SumFunction(CashOf(s)) - Cash(s[i]) + Cash(f)
      /\ SumFunction(CashOf(s)) \in Int
  <2> DEFINE v == CashOf(s)
             w == CashOf(t)
  <2>1. /\ DOMAIN v = DOMAIN s /\ DOMAIN w = DOMAIN v
        /\ w[i] = Cash(f) /\ v[i] = Cash(s[i])
        /\ \A j \in DOMAIN v : j # i => w[j] = v[j]
        /\ \A j \in DOMAIN v : v[j] \in Int
    BY <1>2, <1>6 DEF CashOf
  <2> HIDE DEF v, w
  <2>2. IsSummable(v) /\ w[i] \in Int /\ i \in DOMAIN v
    BY <1>2, <1>5, <1>7, <2>1 DEF IsSummable
  <2>3. SumFunction(w) = SumFunction(v) - v[i] + w[i] /\ SumFunction(v) \in Int
    BY <2>1, <2>2, TotalOfReplaced, TotalIsInt
  <2> QED
    BY <2>1, <2>3 DEF v, w
<1>9. SumFunction(OwedOf(t)) = SumFunction(OwedOf(s)) - s[i].remaining + f.remaining
      /\ SumFunction(OwedOf(s)) \in Int
  <2> DEFINE v == OwedOf(s)
             w == OwedOf(t)
  <2>1. /\ DOMAIN v = DOMAIN s /\ DOMAIN w = DOMAIN v
        /\ w[i] = f.remaining /\ v[i] = s[i].remaining
        /\ \A j \in DOMAIN v : j # i => w[j] = v[j]
        /\ \A j \in DOMAIN v : v[j] \in Int
    BY <1>2, <1>6 DEF OwedOf
  <2> HIDE DEF v, w
  <2>2. IsSummable(v) /\ w[i] \in Int /\ i \in DOMAIN v
    BY <1>2, <1>5, <1>7, <2>1 DEF IsSummable
  <2>3. SumFunction(w) = SumFunction(v) - v[i] + w[i] /\ SumFunction(v) \in Int
    BY <2>1, <2>2, TotalOfReplaced, TotalIsInt
  <2> QED
    BY <2>1, <2>3 DEF v, w
<1>10. Cash(s[i]) \in Int /\ s[i].remaining \in Int
  BY <1>2, <1>6
<1> QED
  BY <1>1, <1>7, <1>8, <1>9, <1>10, CashOutIs

\* What a reversal of a fact, and of a payment, does to the row.
ReversesFact(row, n, i, amount) ==
    /\ amount \in Nat \ {0} /\ CanReverse(row, i, amount)
    /\ n.amount = row.amount
    /\ Fulfilled(n) = Fulfilled(row) - amount
    /\ CashOut(row) - CashOut(n) = IF row.facts[i].kind = "DISBURSEMENT" THEN amount ELSE 0
    /\ ExternalOutstanding(n) - ExternalOutstanding(row)
           = IF row.facts[i].kind = "EXTERNAL_LIABILITY" THEN -amount ELSE 0

ReversesPayment(row, n, i, j, amount) ==
    /\ amount \in Nat \ {0} /\ CanReverseSettlement(row, i, j, amount)
    /\ n.amount = row.amount
    /\ Fulfilled(n) = Fulfilled(row)
    /\ CashOut(row) - CashOut(n) = amount
    /\ ExternalOutstanding(n) - ExternalOutstanding(row) = amount

\* Whatever the command, what it reverses is reversed so.
IsPreviewed(row, n) ==
    \A i \in DOMAIN row.facts :
        LET amount  == n.facts[i].reversed - row.facts[i].reversed
            paid(j) == n.facts[i].settled[j].reversed - row.facts[i].settled[j].reversed
        IN  /\ amount > 0 => ReversesFact(row, n, i, amount)
            /\ \A j \in DOMAIN row.facts[i].settled :
                   paid(j) > 0 => ReversesPayment(row, n, i, j, paid(j))

\* Nothing is reversed by a command that leaves the facts, or appends one.
FactsStand(row, n) ==
    \A i \in DOMAIN row.facts :
        /\ n.facts[i].reversed = row.facts[i].reversed
        /\ \A j \in DOMAIN row.facts[i].settled :
               n.facts[i].settled[j].reversed = row.facts[i].settled[j].reversed

LEMMA ReversedAreNumbers ==
    ASSUME NEW row \in Rows
    PROVE  \A i \in DOMAIN row.facts :
               /\ row.facts[i].reversed \in Nat
               /\ \A j \in DOMAIN row.facts[i].settled :
                      row.facts[i].settled[j].reversed \in Nat
<1>1. ASSUME NEW i \in DOMAIN row.facts
      PROVE  /\ row.facts[i].reversed \in Nat
             /\ AreMoney(row.facts[i].settled)
  BY <1>1, RowsHaveMoney DEF Facts
<1> QED
  BY <1>1 DEF AreMoney

LEMMA StandingIsPreviewed ==
    ASSUME NEW row \in Rows, NEW n, FactsStand(row, n)
    PROVE  IsPreviewed(row, n)
<1> SUFFICES ASSUME NEW i \in DOMAIN row.facts
             PROVE  /\ n.facts[i].reversed - row.facts[i].reversed = 0
                    /\ \A j \in DOMAIN row.facts[i].settled :
                           n.facts[i].settled[j].reversed
                               - row.facts[i].settled[j].reversed = 0
  BY DEF IsPreviewed
<1> QED
  BY ReversedAreNumbers DEF FactsStand

LEMMA SameFactsArePreviewed ==
    ASSUME NEW row \in Rows, NEW n, n.facts = row.facts
    PROVE  IsPreviewed(row, n)
BY StandingIsPreviewed DEF FactsStand

LEMMA RecordIsPreviewed ==
    ASSUME NEW row \in Rows, NEW n, NEW f, TakesFact(row, n, f)
    PROVE  IsPreviewed(row, n)
<1>1. PICK s : s = row.facts
  OBVIOUS
<1>2. s \in Seq(Facts) /\ n.facts = Append(s, f)
  BY <1>1 DEF Rows, TakesFact
<1>3. \A i \in DOMAIN s : n.facts[i] = s[i]
  BY <1>2
<1> QED
  BY <1>1, <1>3, StandingIsPreviewed DEF FactsStand

LEMMA PaymentIsPreviewed ==
    ASSUME NEW row \in Rows, NEW i \in DOMAIN row.facts, NEW amount, NEW n,
           FactBecomes(row, n, i, PaidFact(row.facts[i], amount))
    PROVE  IsPreviewed(row, n)
<1>1. PICK s : s = row.facts[i].settled
  OBVIOUS
<1>2. row.facts[i] \in Facts
  BY RowsHaveMoney
<1>3. s \in Seq([amount : Nat, reversed : Nat])
  BY <1>1, <1>2 DEF Facts
<1>4. n.facts[i] = PaidFact(row.facts[i], amount)
      /\ \A k \in DOMAIN row.facts : k # i => n.facts[k] = row.facts[k]
  BY DEF FactBecomes
<1>5. n.facts[i].reversed = row.facts[i].reversed
      /\ n.facts[i].settled = Append(s, Payment(amount))
  BY <1>1, <1>2, <1>4 DEF PaidFact, Facts
<1>6. \A j \in DOMAIN s : n.facts[i].settled[j] = s[j]
  BY <1>3, <1>5
<1> QED
  BY <1>1, <1>4, <1>5, <1>6, StandingIsPreviewed DEF FactsStand

LEMMA ReversalIsPreviewed ==
    ASSUME NEW terms, NEW row, IsKept(row, terms), NEW i, NEW amount \in Nat \ {0},
           CanReverse(row, i, amount), NEW n, n = WithReversal(row, i, amount)
    PROVE  IsPreviewed(row, n)
<1>1. row \in Rows /\ CanBeRead(row)
  BY DEF IsKept
<1>2. PICK fact, f : fact = row.facts[i] /\ f = ReversedFact(fact, amount)
  OBVIOUS
<1>3. /\ i \in DOMAIN row.facts /\ amount <= Valid(fact)
      /\ fact.kind = "EXTERNAL_LIABILITY" => Valid(fact) - amount >= Settled(fact)
  BY <1>2 DEF CanReverse
<1>4. fact \in Facts /\ FactCanBeRead(fact) /\ Valid(fact) \in Nat
  BY <1>1, <1>2, <1>3, RowsHaveMoney, ReadFacts DEF CanBeRead
<1>5. /\ f \in Facts /\ Valid(f) = Valid(fact) - amount
      /\ f.kind = fact.kind /\ f.settled = fact.settled
      /\ f.reversed = fact.reversed + amount
      /\ f.remaining = fact.remaining
             - IF fact.kind = "EXTERNAL_LIABILITY" THEN amount ELSE 0
  BY <1>2, <1>3, <1>4, ReversedFactCanBeRead
<1>6. FactBecomes(row, n, i, f) /\ Fulfilled(n) = Fulfilled(row) - amount
  BY <1>2, ReversalKeeps
<1>7. /\ CashOut(row) - CashOut(n) = Cash(fact) - Cash(f)
      /\ ExternalOutstanding(n) - ExternalOutstanding(row) = f.remaining - fact.remaining
  BY <1>1, <1>2, <1>3, <1>5, <1>6, MoneyReplaced
<1>8. Settled(f) = Settled(fact) /\ Cash(fact) \in Int
  BY <1>4, <1>5, SettledIs, CashIsInt
<1>9. Cash(fact) - Cash(f) = IF fact.kind = "DISBURSEMENT" THEN amount ELSE 0
  BY <1>4, <1>5, <1>8 DEF Cash
<1>10. f.remaining - fact.remaining
           = IF fact.kind = "EXTERNAL_LIABILITY" THEN -amount ELSE 0
  BY <1>4, <1>5 DEF Facts
<1>11. n.amount = row.amount
  BY <1>6 DEF FactBecomes
<1>12. ReversesFact(row, n, i, amount)
  BY <1>2, <1>6, <1>7, <1>9, <1>10, <1>11 DEF ReversesFact
<1>13. n.facts[i] = f /\ \A k \in DOMAIN row.facts : k # i => n.facts[k] = row.facts[k]
  BY <1>6 DEF FactBecomes
<1>14. n.facts[i].reversed - row.facts[i].reversed = amount
  BY <1>2, <1>4, <1>5, <1>13 DEF Facts
<1> SUFFICES ASSUME NEW k \in DOMAIN row.facts
             PROVE  /\ n.facts[k].reversed - row.facts[k].reversed > 0 =>
                           ReversesFact(row, n, k, n.facts[k].reversed - row.facts[k].reversed)
                    /\ \A j \in DOMAIN row.facts[k].settled :
                           n.facts[k].settled[j].reversed
                               - row.facts[k].settled[j].reversed = 0
  BY DEF IsPreviewed
<1>15. n.facts[k].settled = row.facts[k].settled
  BY <1>2, <1>5, <1>13
<1>16. \A j \in DOMAIN row.facts[k].settled :
           n.facts[k].settled[j].reversed - row.facts[k].settled[j].reversed = 0
  BY <1>1, <1>15, ReversedAreNumbers
<1>17. CASE k = i
  BY <1>12, <1>14, <1>16, <1>17
<1>18. CASE k # i
  <2>1. n.facts[k].reversed - row.facts[k].reversed = 0
    BY <1>1, <1>13, <1>18, ReversedAreNumbers
  <2> QED
    BY <1>16, <2>1
<1> QED
  BY <1>17, <1>18

LEMMA PaymentReversalIsPreviewed ==
    ASSUME NEW terms, NEW row, IsKept(row, terms), NEW i, NEW j, NEW amount \in Nat \ {0},
           CanReverseSettlement(row, i, j, amount),
           NEW n, n = WithSettlementReversal(row, i, j, amount)
    PROVE  IsPreviewed(row, n)
<1>1. row \in Rows /\ CanBeRead(row)
  BY DEF IsKept
<1>2. PICK fact, f : fact = row.facts[i] /\ f = ReversedPayment(fact, j, amount)
  OBVIOUS
<1>3. i \in DOMAIN row.facts /\ j \in DOMAIN fact.settled /\ amount <= Valid(fact.settled[j])
  BY <1>2 DEF CanReverseSettlement
<1>4. /\ fact \in Facts /\ FactCanBeRead(fact)
      /\ Settled(fact) \in Nat /\ Valid(fact.settled[j]) \in Nat
      /\ Valid(fact.settled[j]) <= Settled(fact)
  BY <1>1, <1>2, <1>3, RowsHaveMoney, ReadFacts DEF CanBeRead
<1>5. /\ f \in Facts /\ fact.kind = "EXTERNAL_LIABILITY" /\ f.kind = fact.kind
      /\ f.reversed = fact.reversed /\ f.remaining = fact.remaining + amount
      /\ Settled(f) = Settled(fact) - amount /\ DOMAIN f.settled = DOMAIN fact.settled
      /\ \A k \in DOMAIN fact.settled :
             f.settled[k].reversed =
                 fact.settled[k].reversed + IF k = j THEN amount ELSE 0
  BY <1>2, <1>3, <1>4, ReversedPaymentCanBeRead
<1>6. FactBecomes(row, n, i, f) /\ Fulfilled(n) = Fulfilled(row)
  BY <1>2, PaymentReversalKeeps
<1>7. /\ CashOut(row) - CashOut(n) = Cash(fact) - Cash(f)
      /\ ExternalOutstanding(n) - ExternalOutstanding(row) = f.remaining - fact.remaining
  BY <1>1, <1>2, <1>3, <1>5, <1>6, MoneyReplaced
<1>8. Cash(fact) - Cash(f) = amount
  BY <1>4, <1>5 DEF Cash
<1>9. f.remaining - fact.remaining = amount
  BY <1>4, <1>5 DEF Facts
<1>10. n.amount = row.amount
  BY <1>6 DEF FactBecomes
<1>11. ReversesPayment(row, n, i, j, amount)
  BY <1>6, <1>7, <1>8, <1>9, <1>10 DEF ReversesPayment
<1>12. n.facts[i] = f /\ \A k \in DOMAIN row.facts : k # i => n.facts[k] = row.facts[k]
  BY <1>6 DEF FactBecomes
<1>13. n.facts[i].settled[j].reversed - row.facts[i].settled[j].reversed = amount
  <2>1. row.facts[i].settled[j].reversed \in Nat
    BY <1>1, <1>2, <1>3, ReversedAreNumbers
  <2> QED
    BY <1>2, <1>3, <1>5, <1>12, <2>1
<1> SUFFICES ASSUME NEW k \in DOMAIN row.facts
             PROVE  /\ n.facts[k].reversed - row.facts[k].reversed = 0
                    /\ \A l \in DOMAIN row.facts[k].settled :
                           LET paid == n.facts[k].settled[l].reversed
                                           - row.facts[k].settled[l].reversed
                           IN  paid > 0 => ReversesPayment(row, n, k, l, paid)
  BY DEF IsPreviewed
<1>14. n.facts[k].reversed - row.facts[k].reversed = 0
  BY <1>1, <1>2, <1>5, <1>12, ReversedAreNumbers
<1>15. ASSUME NEW l \in DOMAIN row.facts[k].settled, k # i \/ l # j
       PROVE  n.facts[k].settled[l].reversed - row.facts[k].settled[l].reversed = 0
  <2>1. row.facts[k].settled[l].reversed \in Nat
    BY <1>1, <1>15, ReversedAreNumbers
  <2>2. CASE k = i
    BY <1>2, <1>5, <1>12, <1>15, <2>1, <2>2
  <2>3. CASE k # i
    BY <1>12, <2>1, <2>3
  <2> QED
    BY <2>2, <2>3
<1> QED
  BY <1>11, <1>13, <1>14, <1>15
-----------------------------------------------------------------------------
(***************************************************************************)
(* What a command on an occurrence does, whichever it is.                  *)
(***************************************************************************)
IsLeftAlone(row, n) ==
    n.amount = row.amount /\ n.status = row.status /\ Fulfilled(n) = Fulfilled(row)

\* A row that is left without an amount is cancelled, if it was not so already.
IsValued(row, n) ==
    n.amount = Unknown => n.status = "CANCELLED" \/ (row.amount = Unknown /\ row.facts # <<>>)

\* The row it leaves, and what it may do to the series.
RowBecomes(view, row, n) ==
    /\ Found(view.date) # 0
    /\ view.space = space.version
    /\ view.date \notin DOMAIN rows => SameRoot(view)
    /\ SameOccurrence(view, row)
    /\ n.terms = row.terms /\ n.version = row.version + 1
    /\ IsKept(n, series.versions[row.terms])
    /\ IsPreviewed(row, n)
    /\ IsValued(row, n)
    /\ view.date \in space.effect.items => IsLeftAlone(row, n)
    /\ Write(view, n)
    /\ \/ series' = series
       \/ series' = [series EXCEPT !.version = @ + 1] /\ series.version < MaxChanges

IsView(view, row) == view.date \in Nat /\ row = Shown(view.date)

LEMMA RecordBecomes ==
    ASSUME SeriesIsTyped, RowsAreSound, NEW view, NEW row, IsView(view, row),
           NEW kind \in FactKinds, NEW amount \in Nat \ {0}, Record(view, row, kind, amount)
    PROVE  RowBecomes(view, row, WithFact(row, kind, amount))
<1>1. Found(view.date) # 0 /\ view.space = space.version
  BY DEF Record, MayRecord, Fulfills
<1>2. SameRoot(view) /\ SameOccurrence(view, row) /\ CanRecord(row, amount)
      /\ Write(view, WithFact(row, kind, amount)) /\ series' = series
  BY DEF Record, MayRecord
<1>3. IsKept(row, series.versions[row.terms])
  BY <1>1, ShownIsKept DEF IsView, IsKeptRow
<1>4. PICK n : n = WithFact(row, kind, amount)
  OBVIOUS
<1>5. IsKept(n, series.versions[row.terms]) /\ n.terms = row.terms
  BY <1>2, <1>3, <1>4, RecordKeeps
<1>6. n.version = row.version + 1
  BY <1>3, <1>4, WithFactTakesIt DEF TakesFact, IsKept
<1>7. IsPreviewed(row, n)
  BY <1>3, <1>4, WithFactTakesIt, RecordIsPreviewed DEF IsKept
<1>8. view.date \notin space.effect.items
  BY DEF Record, MayRecord, OriginOpen
<1>9. IsValued(row, n)
  BY <1>2, <1>3, <1>4, WithFactTakesIt DEF TakesFact, IsKept, CanRecord, IsValued
<1> QED
  BY <1>1, <1>2, <1>4, <1>5, <1>6, <1>7, <1>8, <1>9 DEF RowBecomes

LEMMA PaymentBecomes ==
    ASSUME SeriesIsTyped, RowsAreSound, NEW view, NEW row, IsView(view, row),
           NEW i, NEW amount \in Nat \ {0}, SettleExternalLiability(view, row, i, amount)
    PROVE  /\ RowBecomes(view, row, WithSettlement(row, i, amount))
           /\ view.date \in DOMAIN rows
<1>1. Found(view.date) # 0 /\ view.space = space.version
  BY DEF SettleExternalLiability, Fulfills
<1>2. view.date \in DOMAIN rows /\ SameOccurrence(view, row) /\ CanSettle(row, i, amount)
      /\ Write(view, WithSettlement(row, i, amount)) /\ series' = series
  BY DEF SettleExternalLiability
<1>3. IsKept(row, series.versions[row.terms])
  BY <1>1, ShownIsKept DEF IsView, IsKeptRow
<1>4. PICK n : n = WithSettlement(row, i, amount)
  OBVIOUS
<1>5. IsKept(n, series.versions[row.terms])
      /\ FactBecomes(row, n, i, PaidFact(row.facts[i], amount))
  BY <1>2, <1>3, <1>4, PaymentKeeps
<1>6. n.terms = row.terms /\ n.version = row.version + 1
  BY <1>5 DEF FactBecomes
<1>7. IsPreviewed(row, n)
  BY <1>2, <1>3, <1>5, PaymentIsPreviewed DEF IsKept, CanSettle
<1>8. IsLeftAlone(row, n)
  BY <1>2, <1>3, <1>4, <1>5, PaymentKeeps DEF IsLeftAlone, FactBecomes
<1>9. IsValued(row, n)
  BY <1>2, <1>5 DEF FactBecomes, CanSettle, IsValued
<1> QED
  BY <1>1, <1>2, <1>4, <1>5, <1>6, <1>7, <1>8, <1>9 DEF RowBecomes

LEMMA ValueBecomes ==
    ASSUME SeriesIsTyped, RowsAreSound, NEW view, NEW row, IsView(view, row),
           NEW amount \in Nat \ {0}, SetValue(view, row, amount)
    PROVE  RowBecomes(view, row, WithValue(row, amount))
<1>1. Found(view.date) # 0 /\ view.space = space.version
  BY DEF SetValue, Fulfills
<1>2. /\ SameRoot(view) /\ SameOccurrence(view, row) /\ CanDefineValue(row)
      /\ series.versions[row.terms].mode = "VARIABLE"
      /\ Write(view, WithValue(row, amount)) /\ series' = series
  BY DEF SetValue, WriteValue
<1>3. IsKept(row, series.versions[row.terms])
  BY <1>1, ShownIsKept DEF IsView, IsKeptRow
<1>4. PICK n : n = WithValue(row, amount)
  OBVIOUS
<1>5. IsKept(n, series.versions[row.terms]) /\ n.terms = row.terms /\ n.version = row.version + 1
  BY <1>2, <1>3, <1>4, ValueKeeps
<1>6. IsPreviewed(row, n)
  <2>1. row \in Rows
    BY <1>3 DEF IsKept
  <2>2. n.facts = row.facts
    BY <1>4, <2>1 DEF WithValue, Rows
  <2> QED
    BY <2>1, <2>2, SameFactsArePreviewed
<1>7. view.date \notin space.effect.items
  BY DEF SetValue, OriginOpen
<1>8. IsValued(row, n)
  BY <1>3, <1>4 DEF WithValue, IsKept, Rows, Unknown, IsValued
<1> QED
  BY <1>1, <1>2, <1>4, <1>5, <1>6, <1>7, <1>8 DEF RowBecomes

LEMMA CancellationBecomes ==
    ASSUME SeriesIsTyped, RowsAreSound, NEW view, NEW row, IsView(view, row),
           CancelOccurrence(view, row)
    PROVE  RowBecomes(view, row, Cancelled(row))
<1>1. Found(view.date) # 0 /\ view.space = space.version
  BY DEF CancelOccurrence, Fulfills
<1>2. /\ SameRoot(view) /\ SameOccurrence(view, row) /\ CanCancel(row)
      /\ Write(view, Cancelled(row)) /\ series' = series
  BY DEF CancelOccurrence, WriteCancelled
<1>3. IsKept(row, series.versions[row.terms])
  BY <1>1, ShownIsKept DEF IsView, IsKeptRow
<1>4. PICK n : n = Cancelled(row)
  OBVIOUS
<1>5. IsKept(n, series.versions[row.terms]) /\ n.terms = row.terms /\ n.version = row.version + 1
  BY <1>2, <1>3, <1>4, CancellationKeeps
<1>6. IsPreviewed(row, n)
  <2>1. row \in Rows
    BY <1>3 DEF IsKept
  <2>2. n.facts = row.facts
    BY <1>4, <2>1 DEF Cancelled, Rows
  <2> QED
    BY <2>1, <2>2, SameFactsArePreviewed
<1>7. view.date \notin space.effect.items
  BY DEF CancelOccurrence, OriginOpen
<1>8. IsValued(row, n)
  BY <1>3, <1>4 DEF Cancelled, IsKept, Rows, IsValued
<1> QED
  BY <1>1, <1>2, <1>4, <1>5, <1>6, <1>7, <1>8 DEF RowBecomes

LEMMA AdjustmentBecomes ==
    ASSUME SeriesIsTyped, RowsAreSound, NEW view, NEW row, IsView(view, row),
           NEW by \in Int, Adjust(view, row, by)
    PROVE  RowBecomes(view, row, Adjusted(row, by))
<1>1. Found(view.date) # 0 /\ view.space = space.version /\ Bounded(view)
  BY DEF Adjust, Fulfills
<1>2. /\ SameRoot(view) /\ SameOccurrence(view, row) /\ CanAdjust(row, by)
      /\ Write(view, Adjusted(row, by))
      /\ series' = [series EXCEPT !.version = @ + 1] /\ series.version < MaxChanges
  BY <1>1 DEF Adjust, Corrects, Bounded
<1>3. IsKeptRow(row, series.versions)
  BY <1>1, ShownIsKept DEF IsView
<1>4. PICK terms : terms = series.versions[row.terms]
  OBVIOUS
<1>5. IsKept(row, terms) /\ AreTerms(terms)
  BY <1>3, <1>4, VersionsAreAgreed, AgreedAreTerms DEF IsKeptRow
<1>6. PICK n : n = Adjusted(row, by)
  OBVIOUS
<1>7. IsKept(n, terms) /\ n.terms = row.terms /\ n.version = row.version + 1
  BY <1>2, <1>5, <1>6, AdjustmentKeeps
<1>8. IsPreviewed(row, n)
  <2>1. row \in Rows
    BY <1>5 DEF IsKept
  <2>2. n.facts = row.facts
    BY <1>6, <2>1 DEF Adjusted, Rows
  <2> QED
    BY <2>1, <2>2, SameFactsArePreviewed
<1>9. view.date \notin space.effect.items
  BY DEF Adjust, OriginOpen
<1>10. IsValued(row, n)
  BY <1>2, <1>5, <1>6 DEF Adjusted, CanAdjust, IsKept, Rows, Unknown, IsValued
<1> QED
  BY <1>1, <1>2, <1>4, <1>6, <1>7, <1>8, <1>9, <1>10 DEF RowBecomes

LEMMA RowsAreFound ==
    ASSUME SeriesIsTyped, RowsAreSound, NEW date \in DOMAIN rows
    PROVE  Found(date) # 0
<1>1. Found(date) = rows[date].terms /\ rows[date].terms \in DOMAIN series.versions
  BY DEF Found, RowsAreSound, IsKeptRow
<1> QED
  BY <1>1, VersionsAreAgreed

LEMMA ReversalBecomes ==
    ASSUME SeriesIsTyped, RowsAreSound, NEW view, NEW row, IsView(view, row),
           NEW i, NEW amount \in Nat \ {0}, Reverse(view, row, i, amount)
    PROVE  /\ RowBecomes(view, row, WithReversal(row, i, amount))
           /\ view.date \in DOMAIN rows
<1>1. view.date \in DOMAIN rows /\ view.space = space.version /\ Bounded(view)
      /\ SameOccurrence(view, row)
  BY DEF Reverse, Reverses
<1>2. /\ CanReverse(row, i, amount)
      /\ Write(view, WithReversal(row, i, amount))
      /\ series' = [series EXCEPT !.version = @ + 1] /\ series.version < MaxChanges
  BY <1>1 DEF Reverse, Corrects, Bounded
<1>3. Found(view.date) # 0
  BY <1>1, RowsAreFound
<1>4. IsKept(row, series.versions[row.terms])
  BY <1>3, ShownIsKept DEF IsView, IsKeptRow
<1>5. PICK n : n = WithReversal(row, i, amount)
  OBVIOUS
<1>6. IsKept(n, series.versions[row.terms])
      /\ FactBecomes(row, n, i, ReversedFact(row.facts[i], amount))
  BY <1>2, <1>4, <1>5, ReversalKeeps
<1>7. n.terms = row.terms /\ n.version = row.version + 1
  BY <1>6 DEF FactBecomes
<1>8. IsPreviewed(row, n)
  BY <1>2, <1>4, <1>5, ReversalIsPreviewed
<1>9. view.date \notin space.effect.items
  BY DEF Reverse
<1>10. IsValued(row, n)
  BY <1>2, <1>6 DEF FactBecomes, CanReverse, IsValued
<1> QED
  BY <1>1, <1>2, <1>3, <1>5, <1>6, <1>7, <1>8, <1>9, <1>10 DEF RowBecomes

LEMMA PaymentReversalBecomes ==
    ASSUME SeriesIsTyped, RowsAreSound, NEW view, NEW row, IsView(view, row),
           NEW i, NEW j, NEW amount \in Nat \ {0},
           ReverseExternalSettlement(view, row, i, j, amount)
    PROVE  /\ RowBecomes(view, row, WithSettlementReversal(row, i, j, amount))
           /\ view.date \in DOMAIN rows
<1>1. view.date \in DOMAIN rows /\ view.space = space.version /\ Bounded(view)
      /\ SameOccurrence(view, row)
  BY DEF ReverseExternalSettlement, Reverses
<1>2. /\ CanReverseSettlement(row, i, j, amount)
      /\ Write(view, WithSettlementReversal(row, i, j, amount))
      /\ series' = [series EXCEPT !.version = @ + 1] /\ series.version < MaxChanges
  BY <1>1 DEF ReverseExternalSettlement, Corrects, Bounded
<1>3. Found(view.date) # 0
  BY <1>1, RowsAreFound
<1>4. IsKept(row, series.versions[row.terms])
  BY <1>3, ShownIsKept DEF IsView, IsKeptRow
<1>5. PICK n : n = WithSettlementReversal(row, i, j, amount)
  OBVIOUS
<1>6. IsKept(n, series.versions[row.terms])
      /\ FactBecomes(row, n, i, ReversedPayment(row.facts[i], j, amount))
  BY <1>2, <1>4, <1>5, PaymentReversalKeeps
<1>7. n.terms = row.terms /\ n.version = row.version + 1
  BY <1>6 DEF FactBecomes
<1>8. IsPreviewed(row, n)
  BY <1>2, <1>4, <1>5, PaymentReversalIsPreviewed
<1>9. IsLeftAlone(row, n)
  BY <1>2, <1>4, <1>5, <1>6, PaymentReversalKeeps DEF IsLeftAlone, FactBecomes
<1>10. IsValued(row, n)
  BY <1>2, <1>6 DEF FactBecomes, CanReverseSettlement, IsValued
<1> QED
  BY <1>1, <1>2, <1>3, <1>5, <1>6, <1>7, <1>8, <1>9, <1>10 DEF RowBecomes

LEMMA EachBecomes ==
    ASSUME SeriesIsTyped, RowsAreSound, NEW view, NEW row, IsView(view, row),
           NEW kinds \in SUBSET FactKinds, NEW most \in Nat, NEW facts \in Nat,
           OnOccurrence(view, row, kinds, most, facts)
    PROVE  \E n : RowBecomes(view, row, n)
<1>1. \A amount \in 1 .. most : amount \in Nat \ {0}
  OBVIOUS
<1>2. ASSUME NEW kind \in kinds, NEW amount \in 1 .. most, Record(view, row, kind, amount)
      PROVE  \E n : RowBecomes(view, row, n)
  BY <1>1, <1>2, RecordBecomes
<1>3. ASSUME NEW i \in 1 .. facts, NEW amount \in 1 .. most,
             SettleExternalLiability(view, row, i, amount)
      PROVE  \E n : RowBecomes(view, row, n)
  BY <1>1, <1>3, PaymentBecomes
<1>4. ASSUME NEW amount \in 1 .. most, SetValue(view, row, amount)
      PROVE  \E n : RowBecomes(view, row, n)
  BY <1>1, <1>4, ValueBecomes
<1>5. ASSUME CancelOccurrence(view, row)
      PROVE  \E n : RowBecomes(view, row, n)
  BY <1>5, CancellationBecomes
<1>6. ASSUME NEW by \in -most .. most \ {0}, Adjust(view, row, by)
      PROVE  \E n : RowBecomes(view, row, n)
  BY <1>6, AdjustmentBecomes
<1>7. ASSUME NEW i \in 1 .. facts, NEW amount \in 1 .. most, Reverse(view, row, i, amount)
      PROVE  \E n : RowBecomes(view, row, n)
  BY <1>1, <1>7, ReversalBecomes
<1>8. ASSUME NEW i \in 1 .. facts, NEW j \in 1 .. facts, NEW amount \in 1 .. most,
             ReverseExternalSettlement(view, row, i, j, amount)
      PROVE  \E n : RowBecomes(view, row, n)
  BY <1>1, <1>8, PaymentReversalBecomes
<1> QED
  BY <1>2, <1>3, <1>4, <1>5, <1>6, <1>7, <1>8 DEF OnOccurrence

-----------------------------------------------------------------------------
(***************************************************************************)
(* The invariant, through a command on an occurrence.                      *)
(***************************************************************************)
LEMMA SeriesStays ==
    ASSUME SeriesIsTyped, NEW view, NEW row, NEW n, RowBecomes(view, row, n)
    PROVE  SeriesIsTyped' /\ series'.versions = series.versions
           /\ series'.version \in Nat /\ series.version \in Nat
           /\ (series' = series \/ series'.version > series.version)
<1>1. series \in Statement /\ Len(series.versions) \in 1 .. series.version
  BY DEF SeriesIsTyped
<1>2. CASE series' = series
  BY <1>1, <1>2 DEF SeriesIsTyped, Statement
<1>3. CASE series' = [series EXCEPT !.version = @ + 1] /\ series.version < MaxChanges
  <2>1. series' = [version |-> series.version + 1, versions |-> series.versions,
                   ends |-> series.ends]
    BY <1>1, <1>3 DEF Statement
  <2>2. series.version \in 1 .. MaxChanges /\ series.version + 1 \in 1 .. MaxChanges
    BY <1>1, <1>3, RecurringAssumption DEF Statement
  <2>3. series' \in Statement
    BY <1>1, <2>1, <2>2 DEF Statement
  <2> QED
    BY <1>1, <2>1, <2>2, <2>3, RecurringAssumption DEF SeriesIsTyped
<1> QED
  BY <1>2, <1>3 DEF RowBecomes

\* The rows it writes.
LEMMA RowsBecome ==
    ASSUME NEW view, NEW row, NEW n, RowBecomes(view, row, n)
    PROVE  /\ DOMAIN rows' = DOMAIN rows \cup {view.date}
           /\ rows'[view.date] = n
           /\ \A date \in DOMAIN rows : date # view.date => rows'[date] = rows[date]
           /\ today' = today /\ space' = space
BY DEF RowBecomes, Write

LEMMA RowsStaySound ==
    ASSUME SeriesIsTyped, RowsAreSound, NEW view, NEW row, IsView(view, row),
           NEW n, RowBecomes(view, row, n)
    PROVE  RowsAreSound'
<1>1. IsKeptRow(row, series.versions)
  BY ShownIsKept DEF IsView, RowBecomes
<1>2. IsKeptRow(n, series.versions)
  BY <1>1 DEF IsKeptRow, RowBecomes
<1>3. series'.versions = series.versions
  BY SeriesStays
<1>4. DOMAIN rows' \subseteq Nat
  BY RowsBecome DEF IsView, RowsAreSound
<1>5. ASSUME NEW date \in DOMAIN rows'
      PROVE  IsKeptRow(rows'[date], series'.versions)
  <2>1. CASE date = view.date
    <3>1. rows'[date] = n
      BY <2>1, RowsBecome
    <3> QED
      BY <1>2, <1>3, <3>1
  <2>2. CASE date # view.date
    <3>1. date \in DOMAIN rows /\ rows'[date] = rows[date]
      BY <2>2, RowsBecome
    <3>2. IsKeptRow(rows[date], series.versions)
      BY <3>1 DEF RowsAreSound
    <3> QED
      BY <1>3, <3>1, <3>2
  <2> QED
    BY <2>1, <2>2
<1> QED
  BY <1>4, <1>5 DEF RowsAreSound

LEMMA MonthsStaySingle ==
    ASSUME SeriesIsTyped, RowsAreSound, OneOccurrencePerMonth,
           NEW view, NEW row, IsView(view, row), NEW n, RowBecomes(view, row, n)
    PROVE  OneOccurrencePerMonth'
<1>1. view.date \notin DOMAIN rows => RowsIn(MonthOf(view.date)) = {}
  BY FoundIsAVersion DEF IsView, RowBecomes
<1>2. \A date \in DOMAIN rows : view.date \notin DOMAIN rows =>
          MonthOf(date) # MonthOf(view.date)
  BY <1>1 DEF RowsIn
<1> QED
  BY <1>2, RowsBecome DEF OneOccurrencePerMonth

LEMMA SeenStaysTrue ==
    ASSUME SeriesIsTyped, RowsAreSound, SeenIsTrue, NEW view, NEW row, IsView(view, row),
           NEW n, RowBecomes(view, row, n), seen' = seen
    PROVE  SeenIsTrue'
<1> SUFFICES ASSUME seen # NoView
             PROVE  SeenIsTrue'
  BY DEF SeenIsTrue
<1>1. /\ seen \in Views /\ seen.root <= series.version /\ seen.space <= space.version
      /\ seen.root \in Nat /\ seen.occurrence \in Rows /\ seen.occurrence.version \in Nat
  BY DEF SeenIsTrue, Views, Rows
<1>2. /\ series'.version \in Nat /\ series.version \in Nat
      /\ (series' = series \/ series'.version > series.version)
  BY SeriesStays
<1>3. space' = space
  BY RowsBecome
<1>4. seen.root <= series'.version /\ (seen.root = series'.version => series' = series)
  BY <1>1, <1>2
<1>5. IsKeptRow(row, series.versions) /\ row = Shown(view.date)
      /\ (view.date \notin DOMAIN rows => row.version = 1)
  BY ShownIsKept DEF IsView, RowBecomes
<1>6. n.version = row.version + 1 /\ row.version \in Nat
  BY <1>5 DEF RowBecomes, IsKeptRow, IsKept, Rows
<1>7. ASSUME seen.date \in DOMAIN rows'
      PROVE  /\ seen.occurrence.version <= rows'[seen.date].version
             /\ seen.occurrence.version = rows'[seen.date].version =>
                    rows'[seen.date] = seen.occurrence
  <2>1. CASE seen.date # view.date
    <3>1. seen.date \in DOMAIN rows /\ rows'[seen.date] = rows[seen.date]
      BY <1>7, <2>1, RowsBecome
    <3> QED
      BY <3>1 DEF SeenIsTrue
  <2>2. CASE seen.date = view.date
    <3>1. rows'[seen.date] = n
      BY <2>2, RowsBecome
    <3>2. CASE view.date \in DOMAIN rows
      <4>1. row = rows[view.date]
        BY <1>5, <3>2 DEF Shown
      <4>2. seen.occurrence.version <= row.version
        BY <2>2, <3>2, <4>1 DEF SeenIsTrue
      <4> QED
        BY <1>1, <1>6, <3>1, <4>2
    <3>3. CASE view.date \notin DOMAIN rows
      <4>1. row.version = 1 /\ seen.occurrence.version = 1
        BY <1>5, <2>2, <3>3 DEF SeenIsTrue
      <4> QED
        BY <1>6, <3>1, <4>1
    <3> QED
      BY <3>2, <3>3
  <2> QED
    BY <2>1, <2>2
<1>8. ASSUME seen.date \notin DOMAIN rows'
      PROVE  /\ seen.occurrence.version = 1
             /\ (seen.root = series'.version /\ seen.space = space'.version
                 /\ ProjectedConfigurationAt(Root, seen.date)' # 0) =>
                    seen.occurrence = ProjectedUnder(ProjectedConfigurationAt(Root, seen.date))'
  <2>1. seen.date \notin DOMAIN rows
    BY <1>8, RowsBecome
  <2>2. seen.occurrence.version = 1
    BY <2>1 DEF SeenIsTrue
  <2>3. ASSUME seen.root = series'.version, seen.space = space'.version,
               ProjectedConfigurationAt(Root, seen.date)' # 0
        PROVE  seen.occurrence = ProjectedUnder(ProjectedConfigurationAt(Root, seen.date))'
    <3>1. series' = series
      BY <1>4, <2>3
    <3>2. Root' = Root
      BY <1>3, <3>1 DEF Root
    <3>3. ProjectedConfigurationAt(Root, seen.date)' = ProjectedConfigurationAt(Root, seen.date)
      BY <3>2 DEF ProjectedConfigurationAt
    <3>4. ProjectedUnder(ProjectedConfigurationAt(Root, seen.date))'
              = ProjectedUnder(ProjectedConfigurationAt(Root, seen.date))
      BY <3>1, <3>3 DEF ProjectedUnder
    <3> QED
      BY <1>3, <2>1, <2>3, <3>1, <3>3, <3>4 DEF SeenIsTrue
  <2> QED
    BY <2>2, <2>3
<1> QED
  BY <1>1, <1>3, <1>4, <1>7, <1>8 DEF SeenIsTrue

LEMMA OccurrenceStep ==
    ASSUME CommitmentInv, NEW view, NEW row, IsView(view, row),
           NEW n, RowBecomes(view, row, n), seen' \in {seen, NoView}
    PROVE  CommitmentInv'
<1>1. SeriesIsTyped /\ SpaceIsTyped /\ RowsAreSound /\ OneOccurrencePerMonth /\ SeenIsTrue
      /\ today \in Days
  BY DEF CommitmentInv
<1>2. SeriesIsTyped' /\ RowsAreSound' /\ OneOccurrencePerMonth'
  BY <1>1, SeriesStays, RowsStaySound, MonthsStaySingle
<1>3. SpaceIsTyped' /\ today' \in Days
  BY <1>1, RowsBecome DEF SpaceIsTyped
<1>4. SeenIsTrue'
  <2>1. CASE seen' = seen
    BY <1>1, <2>1, SeenStaysTrue
  <2>2. CASE seen' = NoView
    <3>1. (NoView)' = NoView
      BY DEF NoView, NoDate
    <3> QED
      BY <2>2, <3>1 DEF SeenIsTrue
  <2> QED
    BY <2>1, <2>2
<1> QED
  BY <1>2, <1>3, <1>4 DEF CommitmentInv
-----------------------------------------------------------------------------
(***************************************************************************)
(* The invariant, through everything else.                                 *)
(***************************************************************************)
\* The series and the space move on, and the rows stay.
MovesOn ==
    /\ rows' = rows
    /\ series'.version \in Nat /\ series'.version >= series.version
    /\ space'.version \in Nat /\ space'.version >= space.version
    /\ \/ series' = series /\ space' = space
       \/ series'.version > series.version
       \/ space'.version > space.version

LEMMA SeenIsTrueMovingOn ==
    ASSUME SeriesIsTyped, SpaceIsTyped, SeenIsTrue, MovesOn, seen' = seen
    PROVE  SeenIsTrue'
<1> SUFFICES ASSUME seen # NoView
             PROVE  SeenIsTrue'
  BY DEF SeenIsTrue
<1>1. /\ seen \in Views /\ seen.root <= series.version /\ seen.space <= space.version
      /\ seen.root \in Nat /\ seen.space \in Nat
      /\ series.version \in Nat /\ space.version \in Nat
  BY DEF SeenIsTrue, Views, SeriesIsTyped, Statement, SpaceIsTyped, Spaces
<1>2. /\ seen.root <= series'.version /\ seen.space <= space'.version
      /\ seen.root = series'.version /\ seen.space = space'.version =>
             series' = series /\ space' = space
      /\ rows' = rows
  BY <1>1 DEF MovesOn
<1>3. seen.date \in DOMAIN rows' =>
          /\ seen.occurrence.version <= rows'[seen.date].version
          /\ seen.occurrence.version = rows'[seen.date].version =>
                 rows'[seen.date] = seen.occurrence
  BY <1>2 DEF SeenIsTrue
<1>4. ASSUME seen.date \notin DOMAIN rows'
      PROVE  /\ seen.occurrence.version = 1
             /\ (seen.root = series'.version /\ seen.space = space'.version
                 /\ ProjectedConfigurationAt(Root, seen.date)' # 0) =>
                    seen.occurrence = ProjectedUnder(ProjectedConfigurationAt(Root, seen.date))'
  <2>1. seen.date \notin DOMAIN rows /\ seen.occurrence.version = 1
    BY <1>2, <1>4 DEF SeenIsTrue
  <2>2. ASSUME seen.root = series'.version, seen.space = space'.version,
               ProjectedConfigurationAt(Root, seen.date)' # 0
        PROVE  seen.occurrence = ProjectedUnder(ProjectedConfigurationAt(Root, seen.date))'
    <3>1. series' = series /\ space' = space
      BY <1>2, <2>2
    <3>2. Root' = Root
      BY <3>1 DEF Root
    <3>3. ProjectedConfigurationAt(Root, seen.date)' = ProjectedConfigurationAt(Root, seen.date)
      BY <3>2 DEF ProjectedConfigurationAt
    <3>4. ProjectedUnder(ProjectedConfigurationAt(Root, seen.date))'
              = ProjectedUnder(ProjectedConfigurationAt(Root, seen.date))
      BY <3>1, <3>3 DEF ProjectedUnder
    <3> QED
      BY <2>1, <2>2, <3>1, <3>3, <3>4 DEF SeenIsTrue
  <2> QED
    BY <2>1, <2>2
<1> QED
  BY <1>1, <1>2, <1>3, <1>4 DEF SeenIsTrue

\* The versions there were keep their place.
KeepsVersions ==
    /\ DOMAIN series.versions \subseteq DOMAIN series'.versions
    /\ \A v \in DOMAIN series.versions : series'.versions[v] = series.versions[v]

LEMMA RowsAreSoundMovingOn ==
    ASSUME RowsAreSound, rows' = rows, KeepsVersions
    PROVE  RowsAreSound'
BY DEF RowsAreSound, KeepsVersions, IsKeptRow

LEMMA MovingOn ==
    ASSUME CommitmentInv, MovesOn, KeepsVersions, SeriesIsTyped', space' \in Spaces,
           space'.effect.items \subseteq DOMAIN rows, seen' = seen, today' \in Days
    PROVE  CommitmentInv'
<1>1. SeriesIsTyped /\ SpaceIsTyped /\ RowsAreSound /\ OneOccurrencePerMonth /\ SeenIsTrue
  BY DEF CommitmentInv
<1>2. rows' = rows
  BY DEF MovesOn
<1>3. SeenIsTrue' /\ RowsAreSound'
  BY <1>1, <1>2, SeenIsTrueMovingOn, RowsAreSoundMovingOn
<1>4. SpaceIsTyped'
  BY <1>2 DEF SpaceIsTyped
<1>5. OneOccurrencePerMonth'
  BY <1>1, <1>2 DEF OneOccurrencePerMonth
<1> QED
  BY <1>3, <1>4, <1>5 DEF CommitmentInv

LEMMA TypesOfState ==
    ASSUME CommitmentInv
    PROVE  /\ series \in Statement /\ series.version \in Nat
           /\ series.version \in 1 .. MaxChanges
           /\ Len(series.versions) \in 1 .. series.version
           /\ series.versions \in Seq(Agreed) /\ series.ends \in Int
           /\ space \in Spaces /\ space.version \in Nat /\ space.cutoff \in Int
           /\ space.effect \in Effects /\ space.effect.items \subseteq DOMAIN rows
           /\ DOMAIN rows \subseteq Nat /\ today \in Days /\ today \in Int
           /\ Days \subseteq Nat
BY RecurringAssumption
   DEF CommitmentInv, SeriesIsTyped, Statement, SpaceIsTyped, Spaces, RowsAreSound

LEMMA VersionStep ==
    ASSUME CommitmentInv, NEW view, NEW configuration \in Configurations,
           ChangeVersion(view, configuration)
    PROVE  CommitmentInv'
<1>1. /\ series' = [series EXCEPT !.version = @ + 1,
                                  !.versions = Append(@, configuration)]
      /\ series.version < MaxChanges
      /\ today' = today /\ rows' = rows /\ space' = space /\ seen' = seen
  BY DEF ChangeVersion, ChangesSeries, WithVersion
<1>2. PICK v, w : v = series.versions /\ w = Append(v, configuration)
  OBVIOUS
<1>3. v \in Seq(Agreed) /\ configuration \in Agreed
  BY <1>2, TypesOfState DEF Agreed
<1>4. /\ w \in Seq(Agreed) /\ Len(w) = Len(v) + 1 /\ DOMAIN v \subseteq DOMAIN w
      /\ \A i \in DOMAIN v : w[i] = v[i]
  BY <1>2, <1>3
<1>5. series' = [version |-> series.version + 1, versions |-> w, ends |-> series.ends]
  BY <1>1, <1>2, TypesOfState DEF Statement
<1>6. series.version + 1 \in 1 .. MaxChanges
  BY <1>1, TypesOfState, RecurringAssumption
<1>7. series' \in Statement
  BY <1>4, <1>5, <1>6, TypesOfState DEF Statement
<1>8. Len(w) \in 1 .. series.version + 1
  BY <1>2, <1>4, TypesOfState
<1>9. SeriesIsTyped'
  BY <1>5, <1>7, <1>8 DEF SeriesIsTyped
<1>10. KeepsVersions
  BY <1>2, <1>4, <1>5 DEF KeepsVersions
<1>11. MovesOn
  BY <1>1, <1>5, TypesOfState DEF MovesOn
<1> QED
  BY <1>1, <1>9, <1>10, <1>11, TypesOfState, MovingOn

\* The versions stay, and the series is terminated.
LEMMA SeriesEnds ==
    ASSUME CommitmentInv, NEW ends \in Int, series.version < MaxChanges,
           series' = [series EXCEPT !.version = @ + 1, !.ends = ends]
    PROVE  /\ SeriesIsTyped' /\ KeepsVersions
           /\ series'.version \in Nat /\ series'.version > series.version
<1>1. series' = [version |-> series.version + 1, versions |-> series.versions, ends |-> ends]
  BY TypesOfState DEF Statement
<1>2. series.version + 1 \in 1 .. MaxChanges
  BY TypesOfState, RecurringAssumption
<1>3. series' \in Statement
  BY <1>1, <1>2, TypesOfState DEF Statement
<1>4. Len(series.versions) \in 1 .. series.version + 1
  BY TypesOfState
<1>5. SeriesIsTyped'
  BY <1>1, <1>3, <1>4 DEF SeriesIsTyped
<1>6. KeepsVersions
  BY <1>1 DEF KeepsVersions
<1> QED
  BY <1>1, <1>5, <1>6, TypesOfState

LEMMA TerminationStep ==
    ASSUME CommitmentInv, NEW view, NEW endsOn \in Endings, Terminate(view, endsOn)
    PROVE  CommitmentInv'
<1>1. /\ series' = [series EXCEPT !.version = @ + 1, !.ends = endsOn]
      /\ series.version < MaxChanges
      /\ today' = today /\ rows' = rows /\ space' = space /\ seen' = seen
  BY DEF Terminate, ChangesSeries, Terminated
<1>2. endsOn \in Int
  BY RecurringAssumption
<1>3. /\ SeriesIsTyped' /\ KeepsVersions
      /\ series'.version \in Nat /\ series'.version > series.version
  BY <1>1, <1>2, SeriesEnds
<1>4. MovesOn
  BY <1>1, <1>3, TypesOfState DEF MovesOn
<1> QED
  BY <1>1, <1>3, <1>4, TypesOfState, MovingOn

\* A step of the closure that leaves the series.
LEMMA SpaceStep ==
    ASSUME CommitmentInv, NEW next \in Spaces, next.version = space.version,
           next.effect = space.effect, SpaceChanges(next), series' = series
    PROVE  CommitmentInv'
<1>1. /\ space' = [next EXCEPT !.version = @ + 1]
      /\ today' = today /\ rows' = rows /\ seen' = seen
  BY DEF SpaceChanges
<1>2. space' = [status |-> next.status, version |-> space.version + 1,
                cutoff |-> next.cutoff, effect |-> next.effect]
  BY <1>1 DEF Spaces
<1>3. space.version + 1 \in Nat /\ next.status \in {"ACTIVE", "CLOSING"}
      /\ next.cutoff \in Int /\ next.effect \in Effects
  BY TypesOfState DEF Spaces
<1>4. space' \in Spaces
  BY <1>2, <1>3 DEF Spaces
<1>5. space'.effect.items \subseteq DOMAIN rows
  BY <1>2, TypesOfState
<1>6. SeriesIsTyped' /\ KeepsVersions
  BY DEF CommitmentInv, SeriesIsTyped, KeepsVersions
<1>7. MovesOn
  BY <1>1, <1>2, TypesOfState DEF MovesOn
<1> QED
  BY <1>1, <1>4, <1>5, <1>6, <1>7, TypesOfState, MovingOn

LEMMA EndIsANumber == NoEnd \in Int
BY SMT DEF NoEnd

LEMMA ClosureSteps ==
    ASSUME CommitmentInv, StartClosure \/ CancelClosure
    PROVE  CommitmentInv'
<1>1. CASE StartClosure
  <2>1. PICK next : next = [space EXCEPT !.status = "CLOSING", !.cutoff = today]
    OBVIOUS
  <2>2. /\ next \in Spaces /\ next.version = space.version /\ next.effect = space.effect
    BY <2>1, TypesOfState DEF Spaces
  <2>3. SpaceChanges(next) /\ series' = series
    BY <1>1, <2>1 DEF StartClosure
  <2> QED
    BY <2>2, <2>3, SpaceStep
<1>2. CASE CancelClosure
  <2>1. PICK next : next = [space EXCEPT !.status = "ACTIVE", !.cutoff = NoEnd]
    OBVIOUS
  <2>2. /\ next \in Spaces /\ next.version = space.version /\ next.effect = space.effect
    BY <2>1, TypesOfState, EndIsANumber DEF Spaces
  <2>3. SpaceChanges(next) /\ series' = series
    BY <1>2, <2>1 DEF CancelClosure
  <2> QED
    BY <2>2, <2>3, SpaceStep
<1> QED
  BY <1>1, <1>2

LEMMA EvesAreNumbers ==
    ASSUME NEW date \in Nat
    PROVE  DayBefore(date) \in Int
<1>1. MonthAfter(MonthOf(date), -1) \in Int
  BY DEF MonthAfter, MonthOf
<1>2. DaysIn(MonthAfter(MonthOf(date), -1)) \in Int
  BY DEF DaysIn
<1> QED
  BY <1>1, <1>2 DEF DayBefore

LEMMA PlanStep ==
    ASSUME CommitmentInv, NEW cutoff \in Cutoffs, ApprovePlan(cutoff)
    PROVE  CommitmentInv'
<1>1. cutoff \in Nat /\ DayBefore(cutoff) \in Int
  BY EvesAreNumbers, RecurringAssumption
<1>2. FutureRows(cutoff) \subseteq DOMAIN rows
  BY DEF FutureRows
<1>3. series.version < MaxChanges
  BY DEF ApprovePlan
<1>4. ASSUME space.effect = NoEffect /\ HasFuture(cutoff)
      PROVE  CommitmentInv'
  <2>1. PICK effect : effect = [cutoff |-> cutoff, items |-> FutureRows(cutoff)]
    OBVIOUS
  <2>2. PICK ends : ends = IF series.ends = NoEnd THEN DayBefore(cutoff) ELSE series.ends
    OBVIOUS
  <2>3. PICK next : next = [space EXCEPT !.cutoff = cutoff, !.effect = effect]
    OBVIOUS
  <2>4. SpaceChanges(next)
    BY <1>4, <2>1, <2>3 DEF ApprovePlan
  <2>5. series' = [series EXCEPT !.version = @ + 1, !.ends = ends]
    BY <1>4, <2>2 DEF ApprovePlan
  <2>6. effect \in Effects /\ effect.items \subseteq DOMAIN rows /\ ends \in Int
    BY <1>1, <1>2, <2>1, <2>2, TypesOfState DEF Effects
  <2>7. next = [status |-> space.status, version |-> space.version, cutoff |-> cutoff,
                effect |-> effect]
    BY <2>3, TypesOfState DEF Spaces
  <2>8. /\ space' = [status |-> space.status, version |-> space.version + 1,
                     cutoff |-> cutoff, effect |-> effect]
        /\ today' = today /\ rows' = rows /\ seen' = seen
    BY <2>4, <2>7 DEF SpaceChanges
  <2>9. space.status \in {"ACTIVE", "CLOSING"} /\ space.version + 1 \in Nat
    BY TypesOfState DEF Spaces
  <2>10. /\ space' \in Spaces /\ space'.effect.items \subseteq DOMAIN rows
         /\ space'.version \in Nat /\ space'.version > space.version
    BY <1>1, <2>6, <2>8, <2>9, TypesOfState DEF Spaces
  <2>11. /\ SeriesIsTyped' /\ KeepsVersions
         /\ series'.version \in Nat /\ series'.version > series.version
    BY <1>3, <2>5, <2>6, SeriesEnds
  <2>12. MovesOn
    BY <2>8, <2>10, <2>11, TypesOfState DEF MovesOn
  <2> QED
    BY <2>8, <2>10, <2>11, <2>12, TypesOfState, MovingOn
<1>5. ASSUME ~ (space.effect = NoEffect /\ HasFuture(cutoff))
      PROVE  CommitmentInv'
  <2>1. PICK next : next = [space EXCEPT !.cutoff = cutoff, !.effect = space.effect]
    OBVIOUS
  <2>2. next = [status |-> space.status, version |-> space.version, cutoff |-> cutoff,
                effect |-> space.effect]
    BY <2>1, TypesOfState DEF Spaces
  <2>3. series' = series
    BY <1>5 DEF ApprovePlan
  <2>4. SpaceChanges(next)
    BY <1>5, <2>1 DEF ApprovePlan
  <2>5. next \in Spaces /\ next.version = space.version /\ next.effect = space.effect
    BY <1>1, <2>2, TypesOfState DEF Spaces
  <2> QED
    BY <2>3, <2>4, <2>5, SpaceStep
<1> QED
  BY <1>4, <1>5

LEMMA DayStep ==
    ASSUME CommitmentInv, NextDay
    PROVE  CommitmentInv'
<1>1. PICK later : later = {day \in Days : day > today}
  OBVIOUS
<1>2. later \in SUBSET Nat /\ later # {} /\ today' = Min(later)
  BY <1>1, TypesOfState DEF NextDay
<1>3. today' \in Days
  BY <1>1, <1>2, MinIsLeast
<1>4. series' = series /\ rows' = rows /\ space' = space /\ seen' = seen
  BY DEF NextDay
<1>5. SeriesIsTyped' /\ KeepsVersions
  BY <1>4 DEF CommitmentInv, SeriesIsTyped, KeepsVersions
<1>6. MovesOn
  BY <1>4, TypesOfState DEF MovesOn
<1> QED
  BY <1>3, <1>4, <1>5, <1>6, TypesOfState, MovingOn

LEMMA LookStep ==
    ASSUME CommitmentInv, NEW date \in Nat, Look(date)
    PROVE  CommitmentInv'
<1>1. /\ Found(date) # 0 /\ seen' = View(date)
      /\ today' = today /\ series' = series /\ rows' = rows /\ space' = space
  BY DEF Look
<1>2. SeriesIsTyped /\ SpaceIsTyped /\ RowsAreSound /\ OneOccurrencePerMonth
      /\ today \in Days
  BY DEF CommitmentInv
<1>3. SeriesIsTyped' /\ SpaceIsTyped' /\ RowsAreSound' /\ OneOccurrencePerMonth'
      /\ today' \in Days
  BY <1>1, <1>2 DEF SeriesIsTyped, SpaceIsTyped, RowsAreSound, OneOccurrencePerMonth
<1>4. PICK e : e = seen'
  OBVIOUS
<1>5. e = [date |-> date, space |-> space.version, root |-> series.version,
           occurrence |-> Shown(date)]
  BY <1>1, <1>4 DEF View
<1>6. Shown(date) \in Rows /\ Shown(date).version \in Nat
      /\ (date \notin DOMAIN rows => Shown(date).version = 1)
  BY <1>1, <1>2, ShownIsKept DEF IsKeptRow, IsKept, Rows
<1>7. e \in Views /\ e.root = series.version /\ e.space = space.version /\ e.date = date
      /\ e.occurrence = Shown(date)
  BY <1>5, <1>6, TypesOfState DEF Views
<1>8. date \in DOMAIN rows => e.occurrence = rows[date]
  BY <1>7 DEF Shown
<1>9. ASSUME date \notin DOMAIN rows
      PROVE  e.occurrence = ProjectedUnder(ProjectedConfigurationAt(Root, date))
  <2>1. Found(date) = ProjectedConfigurationAt(Root, date)
    BY <1>1, <1>2, <1>9, FoundIsAVersion
  <2> QED
    BY <1>7, <1>9, <2>1 DEF Shown
<1>10. Root' = Root
  BY <1>1 DEF Root
<1>11. ProjectedUnder(ProjectedConfigurationAt(Root, date))'
           = ProjectedUnder(ProjectedConfigurationAt(Root, date))
  BY <1>1, <1>10 DEF ProjectedUnder, ProjectedConfigurationAt
<1>12. SeenIsTrue'
  BY <1>1, <1>4, <1>6, <1>7, <1>8, <1>9, <1>11, TypesOfState DEF SeenIsTrue
<1> QED
  BY <1>3, <1>12 DEF CommitmentInv
-----------------------------------------------------------------------------
(***************************************************************************)
(* Every step: a command on an occurrence, which finds it as it is shown,  *)
(* or one that leaves the rows.                                            *)
(***************************************************************************)
LEMMA DatesShownAreNumbers ==
    ASSUME CommitmentInv
    PROVE  Dates(Months) \subseteq Nat
<1>1. series.versions \in Seq(Agreed) /\ Root.versions = series.versions
      /\ DOMAIN rows \subseteq Nat
  BY VersionsAreAgreed DEF CommitmentInv, RowsAreSound
<1>2. \A month \in Months : month \in Nat
  BY RecurringAssumption
<1>3. \A month \in Months : Projection(Root, month).on \in Nat
  BY <1>1, <1>2, ProjectionIsAVersion
<1> QED
  BY <1>1, <1>3 DEF Dates

LEMMA FreshIsView ==
    ASSUME CommitmentInv, NEW view \in Fresh(Months)
    PROVE  IsView(view, view.occurrence) /\ view.date \in Dates(Months)
<1>1. PICK date \in Dates(Months) : view = View(date)
  BY DEF Fresh
<1>2. date \in Nat
  BY DatesShownAreNumbers
<1>3. view.date = date /\ view.occurrence = Shown(date)
  BY <1>1 DEF View
<1> QED
  BY <1>2, <1>3 DEF IsView

LEMMA SeenIsView ==
    ASSUME CommitmentInv, seen # NoView
    PROVE  IsView(seen, Shown(seen.date))
BY DEF CommitmentInv, SeenIsTrue, Views, IsView

\* What a client sends is about what it has just read, or about what it read before.
ChangesOccurrence ==
    \E view, row, n :
        /\ IsView(view, row)
        /\ RowBecomes(view, row, n)
        /\ \/ view.date \in Dates(Months) /\ seen' = seen
           \/ seen # NoView /\ view = seen /\ seen' = NoView

\* The versions of the series come in order, and what is moved is due after its cutoff.
TakesVersion ==
    \/ series'.versions = series.versions
    \/ \E c \in Configurations :
           /\ series'.versions = Append(series.versions, c)
           /\ c.from > series.versions[Len(series.versions)].from

TakesEffect ==
    \/ space'.effect = space.effect
    \/ /\ space'.effect.cutoff \in Cutoffs
       /\ \A date \in space'.effect.items : date >= space'.effect.cutoff

LeavesRows ==
    /\ rows' = rows
    /\ seen' = seen \/ \E date \in Dates(Months) : seen' = View(date)
    /\ TakesVersion /\ TakesEffect

LEMMA SeriesTakes ==
    ASSUME CommitmentInv, NEW view, OnSeries(view, Configurations, Endings)
    PROVE  TakesVersion /\ TakesEffect
<1>1. space' = space
  BY DEF OnSeries, ChangeVersion, Terminate, ChangesSeries
<1>2. ASSUME NEW c \in Configurations, ChangeVersion(view, c)
      PROVE  TakesVersion
  <2>1. series'.versions = Append(series.versions, c)
    BY <1>2, TypesOfState DEF ChangeVersion, WithVersion, Statement
  <2> QED
    BY <1>2, <2>1 DEF ChangeVersion, TakesVersion
<1>3. ASSUME NEW endsOn \in Endings, Terminate(view, endsOn)
      PROVE  TakesVersion
  <2>1. series'.versions = series.versions
    BY <1>3, TypesOfState DEF Terminate, Terminated, Statement
  <2> QED
    BY <2>1 DEF TakesVersion
<1> QED
  BY <1>1, <1>2, <1>3 DEF OnSeries, TakesEffect

LEMMA SpaceTakes ==
    ASSUME CommitmentInv, OnSpace(Cutoffs)
    PROVE  TakesVersion /\ TakesEffect
<1>1. ASSUME StartClosure \/ CancelClosure
      PROVE  series' = series /\ space'.effect = space.effect
  BY <1>1, TypesOfState DEF StartClosure, CancelClosure, SpaceChanges, Spaces
<1>2. ASSUME NEW cutoff \in Cutoffs, ApprovePlan(cutoff)
      PROVE  TakesVersion /\ TakesEffect
  <2>1. series'.versions = series.versions
    BY <1>2, TypesOfState DEF ApprovePlan, Statement
  <2>2. PICK effect : effect = IF space.effect = NoEffect /\ HasFuture(cutoff)
                              THEN [cutoff |-> cutoff, items |-> FutureRows(cutoff)]
                              ELSE space.effect
    OBVIOUS
  <2>3. space'.effect = effect
    <3>1. SpaceChanges([space EXCEPT !.cutoff = cutoff, !.effect = effect])
      BY <1>2, <2>2 DEF ApprovePlan
    <3> QED
      BY <3>1, TypesOfState DEF SpaceChanges, Spaces
  <2>4. effect = space.effect \/ /\ effect.cutoff \in Cutoffs
                                 /\ \A date \in effect.items : date >= effect.cutoff
    BY <2>2 DEF FutureRows
  <2> QED
    BY <2>1, <2>3, <2>4 DEF TakesVersion, TakesEffect
<1> QED
  BY <1>1, <1>2 DEF OnSpace, TakesVersion, TakesEffect

\* The commands on an occurrence change it, or look at it.
LEMMA CommitmentCommands ==
    ASSUME CommitmentInv, OnCommitment(Months, Kinds, MaxAmount, MaxFacts)
    PROVE  ChangesOccurrence \/ \E date \in Dates(Months) : Look(date)
<1>1. SeriesIsTyped /\ RowsAreSound
  BY DEF CommitmentInv
<1>2. Kinds \in SUBSET FactKinds /\ MaxAmount \in Nat /\ MaxFacts \in Nat
  BY RecurringAssumption DEF FactKinds
<1>3. ASSUME NEW view \in Fresh(Months), seen' = seen,
             OnOccurrence(view, view.occurrence, Kinds, MaxAmount, MaxFacts)
      PROVE  ChangesOccurrence
  <2>1. PICK row : row = view.occurrence
    OBVIOUS
  <2>2. IsView(view, row) /\ view.date \in Dates(Months)
    BY <2>1, FreshIsView
  <2>3. \E n : RowBecomes(view, row, n)
    BY <1>1, <1>2, <1>3, <2>1, <2>2, EachBecomes
  <2> QED
    BY <1>3, <2>2, <2>3 DEF ChangesOccurrence
<1>4. ASSUME seen # NoView, seen' = NoView,
             OnOccurrence(seen, Shown(seen.date), Kinds, MaxAmount, MaxFacts)
      PROVE  ChangesOccurrence
  <2>1. PICK row : row = Shown(seen.date)
    OBVIOUS
  <2>2. IsView(seen, row)
    BY <1>4, <2>1, SeenIsView
  <2>3. \E n : RowBecomes(seen, row, n)
    BY <1>1, <1>2, <1>4, <2>1, <2>2, EachBecomes
  <2> QED
    BY <1>4, <2>2, <2>3 DEF ChangesOccurrence
<1> QED
  BY <1>3, <1>4 DEF OnCommitment

LEMMA EveryStep ==
    ASSUME CommitmentInv, [Next]_vars
    PROVE  ChangesOccurrence \/ (CommitmentInv' /\ LeavesRows)
<1>1. SeriesIsTyped /\ RowsAreSound
  BY DEF CommitmentInv
<1>2. ASSUME NEW date \in Dates(Months), Look(date)
      PROVE  CommitmentInv' /\ LeavesRows
  <2>1. date \in Nat
    BY DatesShownAreNumbers
  <2> QED
    BY <1>2, <2>1, LookStep DEF Look, LeavesRows, TakesVersion, TakesEffect
<1>3. ASSUME NEW view \in Fresh(Months), OnSeries(view, Configurations, Endings)
      PROVE  CommitmentInv' /\ LeavesRows
  <2>1. CASE \E configuration \in Configurations : ChangeVersion(view, configuration)
    BY <1>3, <2>1, VersionStep, SeriesTakes DEF ChangeVersion, ChangesSeries, LeavesRows
  <2>2. CASE \E endsOn \in Endings : Terminate(view, endsOn)
    BY <1>3, <2>2, TerminationStep, SeriesTakes DEF Terminate, ChangesSeries, LeavesRows
  <2> QED
    BY <1>3, <2>1, <2>2 DEF OnSeries
<1>4. ASSUME OnSpace(Cutoffs)
      PROVE  CommitmentInv' /\ LeavesRows
  <2>1. CASE StartClosure
    BY <1>4, <2>1, ClosureSteps, SpaceTakes DEF StartClosure, SpaceChanges, LeavesRows
  <2>2. CASE \E cutoff \in Cutoffs : ApprovePlan(cutoff)
    <3>1. PICK cutoff \in Cutoffs : ApprovePlan(cutoff)
      BY <2>2
    <3>2. \E next : SpaceChanges(next)
      BY <3>1 DEF ApprovePlan
    <3> QED
      BY <1>4, <3>1, <3>2, PlanStep, SpaceTakes DEF SpaceChanges, LeavesRows
  <2>3. CASE CancelClosure
    BY <1>4, <2>3, ClosureSteps, SpaceTakes DEF CancelClosure, SpaceChanges, LeavesRows
  <2> QED
    BY <1>4, <2>1, <2>2, <2>3 DEF OnSpace
<1>5. CASE NextDay
  BY <1>5, DayStep DEF NextDay, LeavesRows, TakesVersion, TakesEffect
<1>6. CASE UNCHANGED vars
  <2>1. today' = today /\ series' = series /\ rows' = rows /\ space' = space /\ seen' = seen
    BY <1>6 DEF vars
  <2>2. SeriesIsTyped' /\ KeepsVersions
    BY <1>1, <2>1 DEF SeriesIsTyped, KeepsVersions
  <2>3. MovesOn
    BY <2>1, TypesOfState DEF MovesOn
  <2> QED
    BY <2>1, <2>2, <2>3, TypesOfState, MovingOn DEF LeavesRows, TakesVersion, TakesEffect
<1> QED
  BY <1>2, <1>3, <1>4, <1>5, <1>6, CommitmentCommands DEF Next

LEMMA CommitmentStep ==
    ASSUME CommitmentInv, [Next]_vars
    PROVE  CommitmentInv'
<1>1. CASE ChangesOccurrence
  BY <1>1, OccurrenceStep DEF ChangesOccurrence
<1> QED
  BY <1>1, EveryStep

LEMMA CommitmentInit ==
    ASSUME Init
    PROVE  CommitmentInv
<1>1. today \in Days
  BY MinIsLeast, RecurringAssumption DEF Init
<1>2. PICK terms \in Created : series = [version |-> 1, versions |-> <<terms>>, ends |-> NoEnd]
  BY DEF Init, NewSeries
<1>3. SeriesIsTyped
  <2>1. terms \in Agreed
    BY DEF Agreed
  <2>2. PICK v : v = <<terms>>
    OBVIOUS
  <2>3. v \in Seq(Agreed) /\ Len(v) = 1
    BY <2>1, <2>2
  <2>4. 1 \in 1 .. MaxChanges
    BY RecurringAssumption
  <2>5. series \in Statement
    BY <1>2, <2>2, <2>3, <2>4, EndIsANumber DEF Statement
  <2> QED
    BY <1>2, <2>2, <2>3, <2>5 DEF SeriesIsTyped
<1>4. rows = << >> /\ DOMAIN rows = {}
  BY DEF Init
<1>5. SpaceIsTyped
  <2>1. NoEffect \in Effects /\ NoEffect.items = {}
    BY EndIsANumber DEF NoEffect, Effects
  <2>2. space = [status |-> "ACTIVE", version |-> 1, cutoff |-> NoEnd, effect |-> NoEffect]
    BY DEF Init
  <2> QED
    BY <2>1, <2>2, EndIsANumber DEF SpaceIsTyped, Spaces
<1>6. RowsAreSound /\ OneOccurrencePerMonth
  BY <1>4 DEF RowsAreSound, OneOccurrencePerMonth
<1>7. SeenIsTrue
  BY DEF Init, SeenIsTrue
<1> QED
  BY <1>1, <1>3, <1>5, <1>6, <1>7 DEF CommitmentInv

\* Whatever is recorded, paid, valued, adjusted, cancelled and reversed, and however the
\* series and the space change, the rows can be read and are priced by their terms, no
\* month has two of them, and what a client has seen is still so while its versions are.
THEOREM CommitmentIsSound == Spec => []CommitmentInv
<1>1. Init => CommitmentInv
  BY CommitmentInit
<1>2. CommitmentInv /\ [Next]_vars => CommitmentInv'
  BY CommitmentStep
<1> QED
  BY <1>1, <1>2, PTL DEF Spec

\* No month of a commitment has two occurrences, however its versions move their date.
THEOREM NoMonthHasTwo == Spec => []OneOccurrencePerMonth
<1>1. CommitmentInv => OneOccurrencePerMonth
  BY DEF CommitmentInv
<1> QED
  BY <1>1, CommitmentIsSound, PTL

\* Every row a command leaves is one that can be read again, and its amount is that of
\* its own terms, or the one it was given, with its adjustments.
THEOREM EveryRowIsKept == Spec => []RowsAreKept
<1>1. CommitmentInv => RowsAreKept
  <2> SUFFICES ASSUME CommitmentInv, NEW date \in DOMAIN rows
               PROVE  /\ CanBeRead(rows[date])
                      /\ IsPriced(rows[date], series.versions[rows[date].terms])
    BY DEF RowsAreKept, RowsCanBeRead, PricedByItsTerms, IsPriced
  <2> QED
    BY DEF CommitmentInv, RowsAreSound, IsKeptRow, IsKept
<1> QED
  BY <1>1, CommitmentIsSound, PTL

\* The tables hold what their columns and checks allow: no amount below zero, and no row
\* without an amount that is not pending or cancelled.
THEOREM CommitmentIsTyped == Spec => []TypeOK
<1>1. ASSUME CommitmentInv
      PROVE  TypeOK
  <2>1. /\ series.version \in 1 .. MaxChanges /\ Len(series.versions) <= series.version
        /\ today \in Days /\ space.status \in {"ACTIVE", "CLOSING"}
    BY <1>1, TypesOfState DEF Spaces
  <2>2. \A v \in DOMAIN series.versions : IsRule(series.versions[v].rule)
    BY <1>1, VersionsAreAgreed, AgreedAreTerms DEF CommitmentInv
  <2>3. ASSUME NEW date \in DOMAIN rows
        PROVE  /\ rows[date] \in Rows
               /\ rows[date].terms \in DOMAIN series.versions
               /\ rows[date].amount = Unknown => rows[date].status \in {"PENDING", "CANCELLED"}
    <3>1. /\ rows[date] \in Rows /\ CanBeRead(rows[date])
          /\ rows[date].terms \in DOMAIN series.versions
      BY <1>1 DEF CommitmentInv, RowsAreSound, IsKeptRow, IsKept
    <3>2. ASSUME rows[date].amount = Unknown, rows[date].status # "CANCELLED"
          PROVE  rows[date].status = "PENDING"
      <4>1. Fulfilled(rows[date]) = 0 /\ rows[date].status = StatusOf(rows[date])
        BY <3>1, <3>2 DEF CanBeRead
      <4> QED
        BY <3>2, <4>1 DEF StatusOf, Unknown
    <3> QED
      BY <3>1, <3>2
  <2>4. seen = NoView \/ seen.occurrence \in Rows
    BY <1>1 DEF CommitmentInv, SeenIsTrue, Views
  <2> QED
    BY <2>1, <2>2, <2>3, <2>4 DEF TypeOK
<1> QED
  BY <1>1, CommitmentIsSound, PTL

\* A command that is sent on what a client read some time ago is done only on the
\* occurrence, and on the terms, that it was shown: one of the versions it names would
\* not be the present one.
THEOREM DoneOnWhatWasSeen == Spec => [][AsSeen]_vars
<1>1. ASSUME CommitmentInv, [Next]_vars
      PROVE  AsSeen
  <2> SUFFICES ASSUME seen # NoView, seen' = NoView
               PROVE  Shown(seen.date) = seen.occurrence
    BY DEF AsSeen
  <2>1. ASSUME NEW date
        PROVE  View(date) # NoView
    <3>1. "root" \in DOMAIN View(date) /\ "root" \notin DOMAIN NoView
      BY DEF View, NoView
    <3> QED
      BY <3>1
  <2>2. ~ LeavesRows
    BY <2>1 DEF LeavesRows
  <2>3. PICK row, n : /\ IsView(seen, row) /\ RowBecomes(seen, row, n)
    BY <1>1, <2>2, EveryStep DEF ChangesOccurrence
  <2>4. /\ row = Shown(seen.date) /\ seen.occurrence.version = row.version
        /\ Found(seen.date) # 0 /\ seen.space = space.version
        /\ seen.date \notin DOMAIN rows => seen.root = series.version
        /\ seen.date \in Nat
    BY <2>3 DEF IsView, RowBecomes, SameOccurrence, SameRoot
  <2>5. SeenIsTrue /\ SeriesIsTyped /\ RowsAreSound
    BY <1>1 DEF CommitmentInv
  <2>6. CASE seen.date \in DOMAIN rows
    BY <2>4, <2>5, <2>6 DEF SeenIsTrue, Shown
  <2>7. CASE seen.date \notin DOMAIN rows
    <3>1. Found(seen.date) = ProjectedConfigurationAt(Root, seen.date)
      BY <2>4, <2>5, <2>7, FoundIsAVersion
    <3>2. row = ProjectedUnder(Found(seen.date))
      BY <2>4, <2>7 DEF Shown
    <3> QED
      BY <2>4, <2>5, <2>7, <3>1, <3>2 DEF SeenIsTrue
  <2> QED
    BY <2>6, <2>7
<1> QED
  BY <1>1, CommitmentIsSound, PTL DEF Spec
-----------------------------------------------------------------------------
(***************************************************************************)
(* What was moved to its destination, and what the previews of a reversal  *)
(* said.                                                                   *)
(***************************************************************************)
LEMMA MovedStays ==
    ASSUME CommitmentInv, [Next]_vars
    PROVE  MovedIsLeftAlone
<1> SUFFICES ASSUME NEW date \in space.effect.items
             PROVE  /\ rows'[date].amount = rows[date].amount
                    /\ rows'[date].status = rows[date].status
                    /\ Fulfilled(rows'[date]) = Fulfilled(rows[date])
  BY DEF MovedIsLeftAlone
<1>1. date \in DOMAIN rows
  BY TypesOfState
<1>2. CASE rows' = rows
  BY <1>2
<1>3. CASE ChangesOccurrence
  <2>1. PICK view, row, n : IsView(view, row) /\ RowBecomes(view, row, n)
    BY <1>3 DEF ChangesOccurrence
  <2>2. CASE date # view.date
    <3>1. rows'[date] = rows[date]
      BY <1>1, <2>1, <2>2, RowsBecome
    <3> QED
      BY <3>1
  <2>3. CASE date = view.date
    <3>1. row = rows[date] /\ rows'[date] = n
      BY <1>1, <2>1, <2>3, RowsBecome DEF IsView, Shown
    <3>2. IsLeftAlone(row, n)
      BY <2>1, <2>3 DEF RowBecomes
    <3> QED
      BY <3>1, <3>2 DEF IsLeftAlone
  <2> QED
    BY <2>2, <2>3
<1> QED
  BY <1>2, <1>3, EveryStep DEF LeavesRows

\* A row is reversed as its previews said, whatever becomes of it.
LEMMA PreviewsAreTrue ==
    ASSUME NEW date \in DOMAIN rows, rows[date] \in Rows,
           IsPreviewed(rows[date], rows'[date]), NEW i \in DOMAIN rows[date].facts
    PROVE  LET row    == rows[date]
               n      == rows'[date]
               amount == n.facts[i].reversed - row.facts[i].reversed
           IN  /\ amount > 0 =>
                      ReversalPreview(date, i, amount) = Reversal(date, Valid(row.facts[i]))
               /\ \A j \in DOMAIN row.facts[i].settled :
                      LET paid == n.facts[i].settled[j].reversed
                                      - row.facts[i].settled[j].reversed
                      IN  paid > 0 => SettlementReversalPreview(date, i, j, paid)
                                          = Reversal(date, Valid(row.facts[i].settled[j]))
<1>1. PICK row, n : row = rows[date] /\ n = rows'[date]
  OBVIOUS
<1>2. row \in Rows /\ IsPreviewed(row, n) /\ i \in DOMAIN row.facts
  BY <1>1
<1>3. Fulfilled(row) \in Int /\ row.facts[i].kind \in FactKinds
  <2>1. row.facts[i] \in Facts
    BY <1>2, RowsHaveMoney
  <2> QED
    BY <1>2, <2>1, RowsHaveMoney DEF Facts, FactKinds
<1>4. ASSUME NEW amount, ReversesFact(row, n, i, amount)
      PROVE  ReversalPreview(date, i, amount) = Reversal(date, Valid(row.facts[i]))
  <2>1. /\ amount \in Nat \ {0} /\ CanReverse(row, i, amount) /\ n.amount = row.amount
        /\ Fulfilled(n) = Fulfilled(row) - amount
        /\ CashOut(row) - CashOut(n) = IF row.facts[i].kind = "DISBURSEMENT" THEN amount ELSE 0
        /\ ExternalOutstanding(n) - ExternalOutstanding(row)
               = IF row.facts[i].kind = "EXTERNAL_LIABILITY" THEN -amount ELSE 0
    BY <1>4 DEF ReversesFact
  <2>2. CanReverse(row, i, amount) = TRUE
    BY <2>1 DEF CanReverse
  <2>3. Remaining(n) = row.amount - (Fulfilled(row) - amount)
    BY <2>1 DEF Remaining
  <2>4. Fulfilled(n) - Fulfilled(row) = -amount
    BY <1>3, <2>1
  <2>5. ReversalPreview(date, i, amount) =
            [eligible |-> TRUE, reversible |-> Valid(row.facts[i]),
             fulfilled |-> Fulfilled(row) - amount,
             remaining |-> row.amount - (Fulfilled(row) - amount),
             cash |-> IF row.facts[i].kind = "DISBURSEMENT" THEN amount ELSE 0,
             supported |-> -amount,
             external |-> IF row.facts[i].kind = "EXTERNAL_LIABILITY" THEN -amount ELSE 0]
    BY <1>1, <2>2, Zenon DEF ReversalPreview
  <2>6. Reversal(date, Valid(row.facts[i])) =
            [eligible |-> TRUE, reversible |-> Valid(row.facts[i]),
             fulfilled |-> Fulfilled(n), remaining |-> Remaining(n),
             cash |-> CashOut(row) - CashOut(n),
             supported |-> Fulfilled(n) - Fulfilled(row),
             external |-> ExternalOutstanding(n) - ExternalOutstanding(row)]
    BY <1>1, Zenon DEF Reversal
  <2> QED
    BY <2>1, <2>3, <2>4, <2>5, <2>6, Zenon
<1>5. ASSUME NEW j, NEW amount, ReversesPayment(row, n, i, j, amount)
      PROVE  SettlementReversalPreview(date, i, j, amount)
                 = Reversal(date, Valid(row.facts[i].settled[j]))
  <2>1. /\ CanReverseSettlement(row, i, j, amount) /\ n.amount = row.amount
        /\ Fulfilled(n) = Fulfilled(row)
        /\ CashOut(row) - CashOut(n) = amount
        /\ ExternalOutstanding(n) - ExternalOutstanding(row) = amount
    BY <1>5 DEF ReversesPayment
  <2>2. CanReverseSettlement(row, i, j, amount) = TRUE
    BY <2>1 DEF CanReverseSettlement
  <2>3. Remaining(n) = Remaining(row)
    BY <2>1 DEF Remaining
  <2>4. Fulfilled(n) - Fulfilled(row) = 0
    BY <1>3, <2>1
  <2>5. SettlementReversalPreview(date, i, j, amount) =
            [eligible |-> TRUE, reversible |-> Valid(row.facts[i].settled[j]),
             fulfilled |-> Fulfilled(row), remaining |-> Remaining(row),
             cash |-> amount, supported |-> 0, external |-> amount]
    BY <1>1, <2>2, Zenon DEF SettlementReversalPreview
  <2>6. Reversal(date, Valid(row.facts[i].settled[j])) =
            [eligible |-> TRUE, reversible |-> Valid(row.facts[i].settled[j]),
             fulfilled |-> Fulfilled(n), remaining |-> Remaining(n),
             cash |-> CashOut(row) - CashOut(n),
             supported |-> Fulfilled(n) - Fulfilled(row),
             external |-> ExternalOutstanding(n) - ExternalOutstanding(row)]
    BY <1>1, Zenon DEF Reversal
  <2> QED
    BY <2>1, <2>3, <2>4, <2>5, <2>6, Zenon
<1>6. ASSUME NEW amount, amount = n.facts[i].reversed - row.facts[i].reversed, amount > 0
      PROVE  ReversalPreview(date, i, amount) = Reversal(date, Valid(row.facts[i]))
  <2>1. ReversesFact(row, n, i, amount)
    BY <1>2, <1>6 DEF IsPreviewed
  <2> QED
    BY <1>4, <2>1
<1>7. ASSUME NEW j \in DOMAIN row.facts[i].settled, NEW paid, paid > 0,
             paid = n.facts[i].settled[j].reversed - row.facts[i].settled[j].reversed
      PROVE  SettlementReversalPreview(date, i, j, paid)
                 = Reversal(date, Valid(row.facts[i].settled[j]))
  <2>1. ReversesPayment(row, n, i, j, paid)
    BY <1>2, <1>7 DEF IsPreviewed
  <2> QED
    BY <1>5, <2>1
<1> QED
  BY <1>1, <1>6, <1>7

LEMMA RowsArePreviewed ==
    ASSUME CommitmentInv, [Next]_vars, NEW date \in DOMAIN rows
    PROVE  rows[date] \in Rows /\ IsPreviewed(rows[date], rows'[date])
<1>1. rows[date] \in Rows
  BY DEF CommitmentInv, RowsAreSound, IsKeptRow, IsKept
<1>2. CASE rows'[date] = rows[date]
  BY <1>1, <1>2, SameFactsArePreviewed
<1>3. CASE ChangesOccurrence
  <2>1. PICK view, row, n : IsView(view, row) /\ RowBecomes(view, row, n)
    BY <1>3 DEF ChangesOccurrence
  <2>2. CASE date # view.date
    BY <1>1, <1>2, <2>1, <2>2, RowsBecome
  <2>3. CASE date = view.date
    <3>1. row = rows[date] /\ rows'[date] = n
      BY <2>1, <2>3, RowsBecome DEF IsView, Shown
    <3> QED
      BY <1>1, <2>1, <3>1 DEF RowBecomes
  <2> QED
    BY <2>2, <2>3
<1> QED
  BY <1>2, <1>3, EveryStep DEF LeavesRows

LEMMA ReversalsAreAsPreviewed ==
    ASSUME CommitmentInv, [Next]_vars
    PROVE  ReversesAsPreviewed
BY RowsArePreviewed, PreviewsAreTrue DEF ReversesAsPreviewed

\* Once what is due of an occurrence was moved to its destination, nothing is recorded,
\* valued, cancelled, adjusted or reversed at its origin any more; and a reversal returns
\* the money, and leaves the occurrence and the debt to others, that its preview said.
THEOREM MovedAndReversedAsSaid == Spec => FactsAreKept
<1>1. CommitmentInv /\ [Next]_vars => [ReversesAsPreviewed /\ MovedIsLeftAlone]_vars
  BY MovedStays, ReversalsAreAsPreviewed
<1> QED
  BY <1>1, CommitmentIsSound, PTL DEF Spec, FactsAreKept

-----------------------------------------------------------------------------
(***************************************************************************)
(* Dividing an amount by shares: the parts of the largest remainders add   *)
(* up to the amount.                                                       *)
(***************************************************************************)
\* What is divided is the whole parts and what is left of them.
LEMMA Division ==
    ASSUME NEW a \in Nat, NEW b \in Nat \ {0}
    PROVE  /\ a \div b \in Nat /\ a % b \in Nat
           /\ a % b < b
           /\ a = b * (a \div b) + (a % b)
OBVIOUS

\* What is between none and n times b is a number of times between none and n.
LEMMA TimesBetween ==
    ASSUME NEW b \in Nat \ {0}, NEW k \in Int, NEW n \in Nat,
           0 <= b * k, b * k <= b * n
    PROVE  k \in 0 .. n
<1>1. k >= 0
  <2>1. SUFFICES ASSUME k + 1 <= 0
                 PROVE  FALSE
    OBVIOUS
  <2>2. b * (k + 1) <= 0
    BY <2>1
  <2>3. b * (k + 1) = b * k + b
    OBVIOUS
  <2> QED
    BY <2>2, <2>3
<1>2. k <= n
  <2>1. SUFFICES ASSUME n + 1 <= k
                 PROVE  FALSE
    OBVIOUS
  <2>2. PICK e \in Nat : k = n + 1 + e
    <3>1. k = n + 1 + (k - n - 1) /\ k - n - 1 \in Nat
      BY <2>1
    <3> QED
      BY <3>1
  <2>3. b * k = b * n + b + b * e
    BY <2>2
  <2>4. b * e >= 0 /\ b * e \in Int /\ b * n \in Int
    OBVIOUS
  <2> QED
    BY <2>3, <2>4
<1> QED
  BY <1>1, <1>2

LEMMA SumOfNat ==
    ASSUME NEW S, IsFiniteSet(S), NEW f, \A x \in S : f[x] \in Nat
    PROVE  SumFunctionOnSet(f, S) \in Nat
<1>1. Nat \in SUBSET Int /\ 0 \in Nat /\ \A a, b \in Nat : a + b \in Nat
  OBVIOUS
<1> QED
  BY <1>1, SumIsIn

\* The whole amount is divided, whatever the rounding leaves.
LEMMA DividedWhole ==
    ASSUME NEW weights, IsFiniteSet(DOMAIN weights), DOMAIN weights \subseteq Int,
           \A m \in DOMAIN weights : weights[m] \in Nat,
           SumOf(weights) \in Nat \ {0}, NEW amount \in Nat
    PROVE  /\ DOMAIN Realized(weights, amount) = DOMAIN weights
           /\ \A m \in DOMAIN weights : Realized(weights, amount)[m] \in Nat
           /\ SumOf(Realized(weights, amount)) = amount
<1> DEFINE S    == DOMAIN weights
           w    == SumOf(weights)
           q    == [m \in S |-> (amount * weights[m]) \div w]
           r    == [m \in S |-> (amount * weights[m]) % w]
           left == amount - SumOf(q)
           before == [m \in S |-> {o \in S : r[o] > r[m] \/ (r[o] = r[m] /\ o < m)}]
           n    == Cardinality(S)
           one  == [m \in S |-> IF Cardinality(before[m]) < left THEN 1 ELSE 0]
           part == [m \in S |-> q[m] + one[m]]
<1>1. Realized(weights, amount) = part
  <2>1. \A m \in S : before[m] = {o \in S :
             (amount * weights[o]) % w > (amount * weights[m]) % w
             \/ ((amount * weights[o]) % w = (amount * weights[m]) % w /\ o < m)}
    OBVIOUS
  <2>2. Realized(weights, amount) =
           [m \in S |-> ((amount * weights[m]) \div w)
               + IF Cardinality({o \in S :
                     (amount * weights[o]) % w > (amount * weights[m]) % w
                     \/ ((amount * weights[o]) % w = (amount * weights[m]) % w /\ o < m)})
                    < amount - SumOf(q) THEN 1 ELSE 0]
    BY DEF Realized
  <2>3. \A m \in S : part[m] = Realized(weights, amount)[m]
    BY <2>1, <2>2
  <2> QED
    BY <2>2, <2>3
<1>2. /\ n \in Nat
      /\ \A m \in S : weights[m] \in Nat /\ amount * weights[m] \in Nat
      /\ w \in Nat \ {0} /\ w = SumFunctionOnSet(weights, S)
  <2>1. \A m \in S : amount * weights[m] \in Nat
    OBVIOUS
  <2> QED
    BY <2>1, FS_CardinalityType DEF SumOf, SumFunction
<1> HIDE DEF w
<1>3. \A m \in S : /\ q[m] \in Nat /\ r[m] \in Nat /\ r[m] < w
                   /\ amount * weights[m] = w * q[m] + r[m]
  <2> TAKE m \in S
  <2>1. PICK a \in Nat : a = amount * weights[m]
    BY <1>2
  <2> QED
    BY <1>2, <2>1, Division
<1> HIDE DEF q, r
<1> DEFINE Q == SumFunctionOnSet(q, S)
           R == SumFunctionOnSet(r, S)
<1>4. Q \in Int /\ R \in Int /\ SumOf(q) = Q
  BY <1>3, SumIsInt DEF SumOf, SumFunction, q
<1>5. amount * w = w * Q + R
  <2> DEFINE p == [m \in S |-> amount * weights[m]]
             v == [m \in S |-> w * q[m]]
  <2>1. SumFunctionOnSet(p, S) = amount * w
    BY <1>2, SumOfMultiples
  <2>2. SumFunctionOnSet(v, S) = w * Q
    <3>1. w \in Int /\ \A m \in S : q[m] \in Int /\ v[m] = w * q[m]
      BY <1>2, <1>3
    <3> HIDE DEF v
    <3> QED
      BY <3>1, SumOfMultiples
  <2>3. \A m \in S : v[m] \in Int /\ r[m] \in Int /\ p[m] = v[m] + r[m]
    <3>1. \A a \in Nat : w * a \in Int
      BY <1>2
    <3> QED
      BY <1>3, <3>1
  <2> HIDE DEF p, v
  <2>4. SumFunctionOnSet(p, S) = SumFunctionOnSet(v, S) + R
    BY <2>3, SumOfSums
  <2> QED
    BY <2>1, <2>2, <2>4
<1>6. R \in Nat
  BY <1>3, SumOfNat
<1>7. R <= w * n
  <2> DEFINE c == [m \in S |-> 1]
             a == [m \in S |-> w * c[m]]
             d == [m \in S |-> a[m] - r[m]]
  <2>1. SumFunctionOnSet(c, S) = n
    BY SumOfOnes
  <2>2. SumFunctionOnSet(a, S) = w * n
    <3>1. w \in Int /\ \A m \in S : c[m] \in Int /\ a[m] = w * c[m]
      BY <1>2
    <3> HIDE DEF a, c
    <3> QED
      BY <2>1, <3>1, SumOfMultiples
  <2>3. \A m \in S : a[m] = w
    BY <1>2
  <2> HIDE DEF a
  <2>4. \A m \in S : a[m] \in Int /\ r[m] \in Int /\ d[m] = a[m] - r[m] /\ d[m] \in Nat
    BY <1>2, <1>3, <2>3
  <2> HIDE DEF d, c
  <2>5. SumFunctionOnSet(d, S) = w * n - R
    BY <2>2, <2>4, SumOfDifferences
  <2>6. SumFunctionOnSet(d, S) \in Nat
    BY <2>4, SumOfNat
  <2>7. w * n \in Int
    BY <1>2
  <2> QED
    BY <1>4, <2>5, <2>6, <2>7
<1>8. left \in 0 .. n
  <2>1. PICK k \in Int : k = left
    BY <1>4
  <2>2. w * k = R
    <3>1. w * k = amount * w - w * Q
      BY <1>2, <1>4, <2>1
    <3> QED
      BY <1>4, <1>5, <3>1, <1>2
  <2>3. 0 <= w * k /\ w * k <= w * n
    BY <1>6, <1>7, <2>2
  <2> QED
    BY <1>2, <2>1, <2>3, TimesBetween
<1>9. IsRanking(before, S)
  <2>1. \A x \in S : r[x] \in Int /\ x \in Int
    BY <1>3
  <2>2. \A x \in S : before[x] \subseteq S \ {x}
    BY <2>1
  <2>3. \A x, y \in S : x # y => x \in before[y] \/ y \in before[x]
    BY <2>1
  <2>4. \A x, y, z \in S : x \in before[y] /\ y \in before[z] => x \in before[z]
    BY <2>1
  <2> QED
    BY <2>2, <2>3, <2>4 DEF IsRanking
<1> HIDE DEF before, left
<1>10. SumFunctionOnSet(one, S) = left
  <2> DEFINE T == {x \in S : Place(before, S)[x] < left}
  <2>1. Cardinality(T) = left
    BY <1>2, <1>8, <1>9, FirstPlaces
  <2>2. \A x \in S : one[x] = IF x \in T THEN 1 ELSE 0
    BY DEF Place
  <2> HIDE DEF T, one
  <2>3. T \in SUBSET S
    BY DEF T
  <2> QED
    BY <2>1, <2>2, <2>3, SumOfOnes
<1>11. \A m \in S : q[m] \in Int /\ one[m] \in Int /\ part[m] = q[m] + one[m]
                    /\ part[m] \in Nat
  BY <1>3
<1> HIDE DEF one
<1>12. SumFunctionOnSet(part, S) = Q + left
  BY <1>10, <1>11, SumOfSums
<1>13. SumOf(part) = amount
  BY <1>4, <1>12 DEF SumOf, SumFunction, left
<1> QED
  BY <1>1, <1>11, <1>13

-----------------------------------------------------------------------------
(***************************************************************************)
(* The order of the versions, and what is due of a month.                  *)
(***************************************************************************)
VersionsAscend ==
    \A v, w \in DOMAIN series.versions : v < w =>
        series.versions[v].from < series.versions[w].from

EffectIsAgreed ==
    \/ space.effect = NoEffect
    \/ /\ space.effect.cutoff \in Cutoffs
       /\ \A date \in space.effect.items : date >= space.effect.cutoff

UnvaluedAreCancelled ==
    \A date \in DOMAIN rows : rows[date].amount = Unknown => rows[date].status = "CANCELLED"

ScheduleInv == VersionsAscend /\ EffectIsAgreed /\ UnvaluedAreCancelled

LEMMA FromsAreNumbers ==
    ASSUME NEW terms \in Agreed
    PROVE  terms.from \in Nat
BY CalendarAssumption DEF Agreed, IsDay

LEMMA ScheduleInit ==
    ASSUME Init
    PROVE  ScheduleInv
<1>1. PICK terms \in Created : series = [version |-> 1, versions |-> <<terms>>, ends |-> NoEnd]
  BY DEF Init, NewSeries
<1>2. VersionsAscend
  BY <1>1 DEF VersionsAscend
<1>3. space.effect = NoEffect /\ DOMAIN rows = {}
  BY DEF Init
<1> QED
  BY <1>2, <1>3 DEF ScheduleInv, EffectIsAgreed, UnvaluedAreCancelled

LEMMA VersionsStayAscending ==
    ASSUME CommitmentInv, VersionsAscend, TakesVersion
    PROVE  VersionsAscend'
<1>1. CASE series'.versions = series.versions
  BY <1>1 DEF VersionsAscend
<1>2. ASSUME NEW c \in Configurations, series'.versions = Append(series.versions, c),
             c.from > series.versions[Len(series.versions)].from
      PROVE  VersionsAscend'
  <2>1. PICK s, n : s = series.versions /\ n = Len(s)
    OBVIOUS
  <2>2. s \in Seq(Agreed) /\ n \in Nat \ {0} /\ c \in Agreed /\ n \in DOMAIN s
        /\ DOMAIN s = 1 .. n
    BY <2>1, TypesOfState DEF Agreed
  <2>3. \A v \in DOMAIN s : s[v].from \in Nat
    BY <2>2, FromsAreNumbers
  <2>4. c.from \in Nat /\ s[n].from < c.from
    BY <1>2, <2>1, <2>2, <2>3, FromsAreNumbers
  <2>5. \A v, w \in DOMAIN s : v < w => s[v].from < s[w].from
    BY <2>1 DEF VersionsAscend
  <2>6. \A v \in DOMAIN s : s[v].from < c.from
    BY <2>2, <2>3, <2>4, <2>5
  <2>7. PICK t : t = Append(s, c)
    OBVIOUS
  <2>8. DOMAIN t = 1 .. n + 1 /\ t[n + 1] = c /\ \A v \in 1 .. n : t[v] = s[v]
    BY <2>1, <2>2, <2>7
  <2>9. \A v, w \in DOMAIN t : v < w => t[v].from < t[w].from
    BY <2>2, <2>5, <2>6, <2>8
  <2> QED
    BY <1>2, <2>1, <2>7, <2>9 DEF VersionsAscend
<1> QED
  BY <1>1, <1>2 DEF TakesVersion

LEMMA ScheduleStep ==
    ASSUME CommitmentInv, ScheduleInv, [Next]_vars
    PROVE  ScheduleInv'
<1>1. SeriesIsTyped /\ RowsAreSound
  BY DEF CommitmentInv
<1>2. CASE LeavesRows
  <2>1. rows' = rows
    BY <1>2 DEF LeavesRows
  <2>2. VersionsAscend'
    BY <1>2, VersionsStayAscending DEF LeavesRows, ScheduleInv
  <2>3. EffectIsAgreed'
    <3>1. (NoEffect)' = NoEffect
      BY DEF NoEffect, NoEnd
    <3> QED
      BY <1>2, <3>1 DEF LeavesRows, TakesEffect, ScheduleInv, EffectIsAgreed
  <2> QED
    BY <2>1, <2>2, <2>3 DEF ScheduleInv, UnvaluedAreCancelled
<1>3. ASSUME NEW view, NEW row, NEW n, IsView(view, row), RowBecomes(view, row, n)
      PROVE  ScheduleInv'
  <2>1. series'.versions = series.versions /\ space' = space
    BY <1>1, <1>3, SeriesStays, RowsBecome
  <2>2. VersionsAscend' /\ EffectIsAgreed'
    BY <2>1 DEF ScheduleInv, VersionsAscend, EffectIsAgreed, NoEffect, NoEnd
  <2>3. ASSUME n.amount = Unknown
        PROVE  n.status = "CANCELLED"
    <3> SUFFICES ASSUME row.amount = Unknown, row.facts # <<>>
                 PROVE  FALSE
      BY <1>3, <2>3 DEF RowBecomes, IsValued
    <3>1. CASE view.date \in DOMAIN rows
      <4>1. row = rows[view.date]
        BY <1>3, <3>1 DEF IsView, Shown
      <4>2. row.status = "CANCELLED" /\ CanBeRead(row)
        BY <1>1, <3>1, <4>1 DEF ScheduleInv, UnvaluedAreCancelled, RowsAreSound, IsKeptRow, IsKept
      <4> QED
        BY <4>2 DEF CanBeRead
    <3>2. CASE view.date \notin DOMAIN rows
      BY <1>3, <3>2 DEF IsView, Shown, ProjectedUnder, Projected
    <3> QED
      BY <3>1, <3>2
  <2>4. UnvaluedAreCancelled'
    <3>1. ASSUME NEW date \in DOMAIN rows', rows'[date].amount = Unknown
          PROVE  rows'[date].status = "CANCELLED"
      <4>1. CASE date = view.date
        BY <1>3, <2>3, <3>1, <4>1, RowsBecome
      <4>2. CASE date # view.date
        <5>1. date \in DOMAIN rows /\ rows'[date] = rows[date]
          BY <1>3, <4>2, RowsBecome
        <5> QED
          BY <3>1, <5>1 DEF ScheduleInv, UnvaluedAreCancelled
      <4> QED
        BY <4>1, <4>2
    <3>2. (Unknown)' = Unknown
      BY DEF Unknown
    <3> QED
      BY <3>1, <3>2 DEF UnvaluedAreCancelled
  <2> QED
    BY <2>2, <2>4 DEF ScheduleInv
<1> QED
  BY <1>2, <1>3, EveryStep DEF ChangesOccurrence

\* Whatever is commanded, the versions of a series stay in the order in which they take
\* effect, the occurrences that an agreed closure names lie at or after its cutoff, and a row
\* without an amount is a cancelled one: what the listing and the projection rely on.
THEOREM ScheduleIsSound == Spec => [](CommitmentInv /\ ScheduleInv)
<1>1. Init => ScheduleInv
  BY ScheduleInit
<1>2. CommitmentInv /\ ScheduleInv /\ [Next]_vars => ScheduleInv'
  BY ScheduleStep
<1> QED
  BY <1>1, <1>2, CommitmentIsSound, PTL DEF Spec

-----------------------------------------------------------------------------
(***************************************************************************)
(* How an occurrence is divided between the members.                       *)
(***************************************************************************)
LEMMA TermsAreValid ==
    ASSUME NEW terms \in Agreed
    PROVE  /\ ConfigurationIsValid(terms)
           /\ IsFiniteSet(DOMAIN terms.shares) /\ DOMAIN terms.shares \subseteq Int
           /\ \A m \in DOMAIN terms.shares : terms.shares[m] \in Nat
BY CalendarAssumption DEF Agreed, IsDay

\* The parts of an amount that is that of its terms, if those are fixed.
LEMMA PartsAddUp ==
    ASSUME NEW terms \in Agreed, NEW amount \in Nat,
           terms.mode = "FIXED" => amount = terms.amount
    PROVE  SumOf(EffectiveSplit(terms, amount)) = amount
<1>1. /\ ConfigurationIsValid(terms)
      /\ IsFiniteSet(DOMAIN terms.shares) /\ DOMAIN terms.shares \subseteq Int
      /\ \A m \in DOMAIN terms.shares : terms.shares[m] \in Nat
  BY TermsAreValid
<1>2. terms.mode \in {"FIXED", "VARIABLE"}
  BY RecurringAssumption DEF Agreed
<1>3. CASE terms.split = "AMOUNTS"
  <2>1. terms.mode = "FIXED"
    BY <1>1, <1>2, <1>3 DEF ConfigurationIsValid
  <2>2. SumOf(terms.shares) = terms.amount
    BY <1>1, <1>3 DEF ConfigurationIsValid, IsDistribution
  <2> QED
    BY <1>3, <2>1, <2>2 DEF EffectiveSplit
<1>4. CASE terms.split # "AMOUNTS"
  <2>1. SumOf(terms.shares) \in Nat \ {0}
    BY <1>1, <1>4 DEF ConfigurationIsValid, IsDistribution
  <2>2. SumOf(Realized(terms.shares, amount)) = amount
    BY <1>1, <2>1, DividedWhole
  <2>3. EffectiveSplit(terms, amount) = Realized(terms.shares, amount)
    BY <1>4 DEF EffectiveSplit
  <2> QED
    BY <2>2, <2>3
<1> QED
  BY <1>3, <1>4

LEMMA OriginsAreWhole ==
    ASSUME CommitmentInv
    PROVE  OriginsAddUp
<1> SUFFICES ASSUME NEW date \in DOMAIN rows,
                    rows[date].amount # Unknown, rows[date].adjusted = <<>>
             PROVE  /\ SumOf(Origin(date).shares) = Origin(date).amount
                    /\ SumOf(Origin(date).borne) <= Origin(date).amount
                    /\ SumOf(ViewOf(rows[date]).shares) = ViewOf(rows[date]).original
  BY DEF OriginsAddUp
<1>1. PICK row : row = rows[date]
  OBVIOUS
<1>2. PICK terms : terms = series.versions[row.terms]
  OBVIOUS
<1>3. IsKept(row, terms) /\ terms \in Agreed
  BY <1>1, <1>2, VersionsAreAgreed DEF CommitmentInv, RowsAreSound, IsKeptRow
<1>4. row.amount \in Nat
  BY <1>1, <1>3 DEF IsKept, Rows, Amounts
<1>5. SumOf(row.adjusted) = 0
  BY <1>1, TotalOfNone DEF SumOf
<1>6. terms.mode = "FIXED" => row.amount = terms.amount
  <2>1. terms.amount \in Nat
    BY <1>3, RecurringAssumption DEF Agreed
  <2> QED
    BY <1>3, <1>5, <2>1 DEF IsKept, IsPriced
<1>7. SumOf(EffectiveSplit(terms, row.amount)) = row.amount
  BY <1>3, <1>4, <1>6, PartsAddUp
<1>8. /\ Origin(date).shares = EffectiveSplit(terms, row.amount)
      /\ Origin(date).amount = row.amount
      /\ SumOf(Origin(date).borne) = Fulfilled(row)
  BY <1>1, <1>2, FulfilledIs DEF Origin, SumOf, ValidOf
<1>9. Fulfilled(row) <= row.amount
  BY <1>1, <1>3 DEF IsKept, CanBeRead
<1>10. /\ ViewOf(row).shares = EffectiveSplit(terms, row.amount)
       /\ ViewOf(row).original = row.amount
  <2>1. /\ ViewOf(row).shares = EffectiveSplit(terms, row.amount)
        /\ ViewOf(row).original = row.amount - SumOf(row.adjusted)
    BY <1>1, <1>2 DEF ViewOf
  <2> QED
    BY <1>4, <1>5, <2>1
<1> QED
  BY <1>1, <1>7, <1>8, <1>9, <1>10

-----------------------------------------------------------------------------
(***************************************************************************)
(* The dates of a month.                                                   *)
(***************************************************************************)
IsMonth(month) == month \in Nat /\ month % 100 \in 1 .. 12

LEMMA DaysOfMonth ==
    ASSUME NEW month \in Int
    PROVE  DaysIn(month) \in 28 .. 31
BY DEF DaysIn

LEMMA ScheduledInMonth ==
    ASSUME NEW month \in Nat, NEW day \in 1 .. 31
    PROVE  /\ ScheduledDate(month, day) \in Nat \ {0}
           /\ MonthOf(ScheduledDate(month, day)) = month
           /\ \E k \in 1 .. DaysIn(month) : ScheduledDate(month, day) = 100 * month + k
<1>1. PICK n : n = DaysIn(month)
  OBVIOUS
<1>2. n \in 28 .. 31
  BY <1>1, DaysOfMonth
<1>3. PICK k : k = IF day < n THEN day ELSE n
  OBVIOUS
<1>4. k \in 1 .. n /\ k \in 1 .. 31
  BY <1>2, <1>3
<1>5. ScheduledDate(month, day) = 100 * month + k
  BY <1>1, <1>3 DEF ScheduledDate
<1>6. 100 * month + k \in Nat \ {0} /\ (100 * month + k) \div 100 = month
  BY <1>4
<1> QED
  BY <1>1, <1>4, <1>5, <1>6 DEF MonthOf

\* The month before: no month is between the two.
LEMMA MonthBefore ==
    ASSUME NEW month, IsMonth(month)
    PROVE  /\ MonthAfter(month, -1) \in Int
           /\ MonthAfter(month, -1) < month
           /\ \A other : IsMonth(other) /\ other < month => other <= MonthAfter(month, -1)
<1>1. PICK y, m : y = month \div 100 /\ m = month % 100
  OBVIOUS
<1>2. y \in Nat /\ m \in 1 .. 12 /\ month = 100 * y + m
  BY <1>1 DEF IsMonth
<1>3. MonthAfter(month, -1) = 100 * ((12 * y + m - 2) \div 12) + ((12 * y + m - 2) % 12) + 1
  BY <1>1, <1>2 DEF MonthAfter
<1>4. CASE m > 1
  <2>1. (12 * y + m - 2) \div 12 = y /\ (12 * y + m - 2) % 12 = m - 2
    BY <1>2, <1>4
  <2>2. MonthAfter(month, -1) = month - 1
    BY <1>2, <1>3, <2>1
  <2> QED
    BY <1>2, <2>2 DEF IsMonth
<1>5. CASE m = 1
  <2>1. (12 * y - 1) \div 12 = y - 1 /\ (12 * y - 1) % 12 = 11
    BY <1>2
  <2>2. MonthAfter(month, -1) = month - 89
    BY <1>2, <1>3, <1>5, <2>1
  <2>3. ASSUME NEW other, IsMonth(other), other < month
        PROVE  other <= month - 89
    <3>1. other \in Nat /\ other % 100 <= 12 /\ other < 100 * y + 1 /\ other % 100 >= 1
      BY <1>2, <1>5, <2>3 DEF IsMonth
    <3>2. other \div 100 <= y - 1
      BY <1>2, <3>1
    <3>3. other = 100 * (other \div 100) + (other % 100)
      BY <3>1
    <3> QED
      BY <1>2, <1>5, <3>1, <3>2, <3>3
  <2> QED
    BY <1>2, <2>2, <2>3
<1> QED
  BY <1>2, <1>4, <1>5

\* A date is on the eve of a cutoff, or earlier, if it is before the cutoff.
LEMMA BeforeOrOnTheEve ==
    ASSUME NEW month, IsMonth(month), NEW day \in 1 .. 31,
           NEW cutoff \in Nat, IsMonth(MonthOf(cutoff))
    PROVE  ScheduledDate(month, day) <= DayBefore(cutoff) <=> ScheduledDate(month, day) < cutoff
<1>1. month \in Nat
  BY DEF IsMonth
<1>2. PICK k \in 1 .. DaysIn(month) : ScheduledDate(month, day) = 100 * month + k
  BY <1>1, ScheduledInMonth
<1>3. k \in 1 .. 31
  BY <1>1, <1>2, DaysOfMonth
<1>4. CASE cutoff % 100 > 1
  <2>1. DayBefore(cutoff) = cutoff - 1
    BY <1>4 DEF DayBefore
  <2> QED
    BY <1>1, <1>2, <1>3, <2>1
<1>5. CASE ~ (cutoff % 100 > 1)
  <2>1. PICK c, e : c = MonthOf(cutoff) /\ e = cutoff % 100
    OBVIOUS
  <2>2. c \in Nat /\ e \in 0 .. 1 /\ cutoff = 100 * c + e
    BY <1>5, <2>1 DEF MonthOf
  <2>3. PICK p : p = MonthAfter(c, -1)
    OBVIOUS
  <2>4. p \in Int /\ p < c /\ (month < c => month <= p)
    BY <2>1, <2>3, MonthBefore
  <2>5. DayBefore(cutoff) = 100 * p + DaysIn(p)
    BY <1>5, <2>1, <2>3 DEF DayBefore
  <2>6. DaysIn(p) \in 28 .. 31
    BY <2>4, DaysOfMonth
  <2>7. CASE month < c
    <3>1. month <= p
      BY <2>4, <2>7
    <3>2. 100 * month + k <= 100 * p + DaysIn(p)
      <4>1. CASE month = p
        BY <1>1, <1>2, <1>3, <2>6, <4>1
      <4>2. CASE month < p
        BY <1>1, <1>3, <2>4, <2>6, <4>2
      <4> QED
        BY <1>1, <2>4, <3>1, <4>1, <4>2
    <3>3. 100 * month + k < cutoff
      BY <1>1, <1>3, <2>2, <2>7
    <3> QED
      BY <1>2, <2>5, <3>2, <3>3
  <2>8. CASE ~ (month < c)
    <3>1. ~ (100 * month + k < cutoff)
      BY <1>1, <1>3, <2>2, <2>8
    <3>2. ~ (100 * month + k <= 100 * p + DaysIn(p))
      BY <1>1, <1>3, <2>2, <2>4, <2>6, <2>8
    <3> QED
      BY <1>2, <2>5, <3>1, <3>2
  <2> QED
    BY <2>7, <2>8
<1> QED
  BY <1>4, <1>5

-----------------------------------------------------------------------------
(***************************************************************************)
(* What is due in a month by the versions, before the rows are looked at.  *)
(***************************************************************************)
InEffect(v, date) ==
    /\ series.versions[v].from <= date
    /\ v < Len(series.versions) => date < series.versions[v + 1].from

DateOf(v, month) == ScheduledDate(month, series.versions[v].rule.day)

InRule(v, month) ==
    LET rule == series.versions[v].rule
    IN  /\ rule.month \in {0, month % 100}
        /\ DateOf(v, month) >= rule.starts
        /\ DateOf(v, month) <= rule.ends

IsDue(v, month) ==
    /\ v \in DOMAIN series.versions
    /\ InRule(v, month)
    /\ InEffect(v, DateOf(v, month))
    /\ DateOf(v, month) <= series.ends
    /\ DateOf(v, month) < space.effect.cutoff

\* The months of the calendar; those that are shown are some of them.
Calendar == {month \in Nat : IsMonth(month) /\ 100 * month + 31 < NoEnd}

LEMMA MonthsAreMonths == Months \subseteq Calendar
BY RecurringAssumption, CalendarAssumption DEF Calendar, IsMonth

LEMMA DatesOfMonth ==
    ASSUME SeriesIsTyped, NEW month \in Calendar, NEW v \in DOMAIN series.versions
    PROVE  /\ series.versions[v].rule.day \in 1 .. 31
           /\ DateOf(v, month) \in Nat /\ DateOf(v, month) # 0
           /\ IsDay(DateOf(v, month)) /\ DateOf(v, month) < NoEnd
           /\ MonthOf(DateOf(v, month)) = month
<1>1. series.versions[v].rule.day \in 1 .. 31
  BY VersionsAreAgreed, AgreedAreTerms
<1>2. PICK day \in 1 .. 31 : day = series.versions[v].rule.day
  BY <1>1
<1>3. /\ ScheduledDate(month, day) \in Nat \ {0} /\ MonthOf(ScheduledDate(month, day)) = month
      /\ \E k \in 1 .. DaysIn(month) : ScheduledDate(month, day) = 100 * month + k
  <2>1. month \in Nat
    BY DEF Calendar
  <2> QED
    BY <2>1, ScheduledInMonth
<1>4. DaysIn(month) \in 28 .. 31
  BY DaysOfMonth DEF Calendar
<1>5. IsDay(ScheduledDate(month, day))
  <2>1. PICK k \in 1 .. DaysIn(month) : ScheduledDate(month, day) = 100 * month + k
    BY <1>3
  <2>2. k \in 1 .. 31
    BY <1>4, <2>1
  <2>3. month \in Nat /\ IsMonth(month) /\ 100 * month + 31 < NoEnd
    BY DEF Calendar
  <2>4. (100 * month + k) % 100 = k
    BY <2>2, <2>3
  <2> QED
    BY <1>3, <2>1, <2>2, <2>3, <2>4, EndIsANumber DEF IsDay, IsMonth
<1> QED
  BY <1>1, <1>2, <1>3, <1>5 DEF DateOf, IsDay

\* The version in effect is the last one that came: the next one came after.
LEMMA EffectiveIs ==
    ASSUME CommitmentInv, VersionsAscend, NEW date \in Nat, NEW v \in DOMAIN series.versions
    PROVE  EffectiveVersionAt(Root, date) = v
               <=> ~ (date > Root.terminatedOn) /\ InEffect(v, date)
<1>1. PICK s, n : s = series.versions /\ n = Len(s)
  OBVIOUS
<1>2. s \in Seq(Agreed) /\ n \in Nat /\ DOMAIN s = 1 .. n
  BY <1>1, TypesOfState
<1>3. \A w \in 1 .. n : s[w].from \in Nat
  BY <1>2, FromsAreNumbers
<1>4. \A u, w \in 1 .. n : u < w => s[u].from < s[w].from
  BY <1>1, <1>2 DEF VersionsAscend
<1>5. PICK since : since = {w \in 1 .. n : s[w].from <= date}
  OBVIOUS
<1>6. EffectiveVersionAt(Root, date)
          = IF date > Root.terminatedOn \/ since = {} THEN 0 ELSE Max(since)
  BY <1>1, <1>2, <1>5 DEF EffectiveVersionAt, Root
<1>7. v \in 1 .. n /\ v # 0
  BY <1>1, <1>2
<1>8. InEffect(v, date) <=> since # {} /\ Max(since) = v
  <2>1. ASSUME since # {}
        PROVE  Max(since) \in since /\ \A w \in since : Max(since) >= w
    <3>1. since \in SUBSET (0 .. n)
      BY <1>5
    <3> QED
      BY <1>2, <2>1, <3>1, MaxIsGreatest
  <2>2. ASSUME InEffect(v, date)
        PROVE  since # {} /\ Max(since) = v
    <3>1. v \in since
      BY <1>1, <1>5, <1>7, <2>2 DEF InEffect
    <3>2. \A w \in since : w <= v
      <4> SUFFICES ASSUME NEW w \in since, w > v
                   PROVE  FALSE
        BY <1>2, <1>5, <1>7
      <4>1. w \in 1 .. n /\ s[w].from <= date /\ v < n /\ v + 1 \in 1 .. n
        BY <1>2, <1>5, <1>7
      <4>2. date < s[v + 1].from
        BY <1>1, <2>2, <4>1 DEF InEffect
      <4>3. s[v + 1].from <= s[w].from
        BY <1>3, <1>4, <1>7, <4>1
      <4> QED
        BY <1>3, <4>1, <4>2, <4>3
    <3>3. Max(since) \in 1 .. n
      BY <1>5, <2>1, <3>1
    <3> QED
      BY <1>7, <2>1, <3>1, <3>2, <3>3
  <2>3. ASSUME since # {}, Max(since) = v
        PROVE  InEffect(v, date)
    <3>1. v \in since /\ \A w \in since : w <= v
      BY <1>2, <1>5, <1>7, <2>1, <2>3
    <3>2. s[v].from <= date
      BY <1>5, <3>1
    <3>3. ASSUME v < n
          PROVE  date < s[v + 1].from
      <4>1. v + 1 \in 1 .. n /\ v + 1 \notin since
        BY <1>2, <1>7, <3>1, <3>3
      <4> QED
        BY <1>3, <1>5, <4>1
    <3> QED
      BY <1>1, <3>2, <3>3 DEF InEffect
  <2> QED
    BY <2>2, <2>3
<1> QED
  BY <1>6, <1>7, <1>8

LEMMA SmallerOfTwo ==
    ASSUME NEW a \in Int, NEW b \in Int
    PROVE  Min({a, b}) = IF a <= b THEN a ELSE b
BY DEF Min

\* What the series ends on, and the effect: the date of a month that is projected.
LEMMA NotEndedIs ==
    ASSUME CommitmentInv, EffectIsAgreed, NEW month \in Calendar,
           NEW v \in DOMAIN series.versions
    PROVE  ~ (DateOf(v, month) > Root.terminatedOn)
               <=> DateOf(v, month) <= series.ends /\ DateOf(v, month) < space.effect.cutoff
<1>1. PICK date : date = DateOf(v, month)
  OBVIOUS
<1>2. date \in Nat /\ date < NoEnd /\ series.versions[v].rule.day \in 1 .. 31
  BY <1>1, DatesOfMonth DEF CommitmentInv
<1>3. series.ends \in Int
  BY TypesOfState
<1>4. CASE space.effect = NoEffect
  <2>1. Root.terminatedOn = series.ends /\ space.effect.cutoff = NoEnd
    BY <1>4 DEF Root, NoEffect
  <2> QED
    BY <1>1, <1>2, <1>3, <2>1, EndIsANumber
<1>5. CASE space.effect # NoEffect
  <2>1. PICK cutoff \in Cutoffs : cutoff = space.effect.cutoff
    BY <1>5 DEF EffectIsAgreed
  <2>2. cutoff \in Nat /\ IsMonth(MonthOf(cutoff))
    BY CalendarAssumption, MonthsAreNumbers DEF IsMonth, IsDay
  <2>3. date <= DayBefore(cutoff) <=> date < cutoff
    BY <1>1, <1>2, <2>2, BeforeOrOnTheEve DEF DateOf, Calendar
  <2>4. DayBefore(cutoff) \in Int
    BY <2>2, EvesAreNumbers
  <2>5. Root.terminatedOn = Min({series.ends, DayBefore(cutoff)})
    BY <1>5, <2>1 DEF Root
  <2>6. Root.terminatedOn = IF series.ends <= DayBefore(cutoff) THEN series.ends
                            ELSE DayBefore(cutoff)
    BY <1>3, <2>4, <2>5, SmallerOfTwo
  <2> QED
    BY <1>1, <1>2, <1>3, <2>1, <2>2, <2>3, <2>4, <2>6
<1> QED
  BY <1>4, <1>5

-----------------------------------------------------------------------------
(***************************************************************************)
(* The two computations of what is due in a month.                         *)
(***************************************************************************)
DueVersions(month) == {v \in DOMAIN series.versions : IsDue(v, month)}

\* The candidates of a projection are the versions that are due.
LEMMA CandidatesAreDue ==
    ASSUME CommitmentInv, ScheduleInv, NEW month \in Calendar,
           NEW v \in DOMAIN series.versions
    PROVE  LET date == DateInMonth(series.versions[v].rule, month)
           IN  /\ (date # NoDate /\ ConfigurationAt(Root, date) = v) <=> IsDue(v, month)
               /\ IsDue(v, month) => date = DateOf(v, month)
<1>1. PICK d : d = DateOf(v, month)
  OBVIOUS
<1>2. d \in Nat /\ d # 0 /\ MonthOf(d) = month
  BY <1>1, DatesOfMonth DEF CommitmentInv
<1>3. PICK date : date = DateInMonth(series.versions[v].rule, month)
  OBVIOUS
<1>4. date = IF InRule(v, month) THEN d ELSE NoDate
  BY <1>1, <1>3 DEF DateInMonth, InRule, DateOf
<1>5. date # NoDate <=> InRule(v, month)
  BY <1>2, <1>4 DEF NoDate
<1>6. ASSUME InRule(v, month)
      PROVE  date = d /\ (ConfigurationAt(Root, d) = v <=> EffectiveVersionAt(Root, d) = v)
  <2>1. date = d
    BY <1>4, <1>6
  <2>2. v # 0 /\ Root.versions = series.versions
    BY VersionsAreAgreed DEF CommitmentInv
  <2>3. Contains(series.versions[v].rule, d)
    BY <1>2, <1>3, <2>1 DEF Contains
  <2>4. ConfigurationAt(Root, d) = v <=> EffectiveVersionAt(Root, d) = v
    BY <2>2, <2>3 DEF ConfigurationAt, IfScheduled
  <2> QED
    BY <2>1, <2>4
<1>7. EffectiveVersionAt(Root, d) = v
          <=> d <= series.ends /\ d < space.effect.cutoff /\ InEffect(v, d)
  BY <1>1, <1>2, EffectiveIs, NotEndedIs DEF ScheduleInv
<1> QED
  BY <1>1, <1>3, <1>4, <1>5, <1>6, <1>7 DEF IsDue

LEMMA EarliestIsFirst ==
    ASSUME NEW P, P # {}, \A p \in P : p.on \in Nat
    PROVE  Earliest(P) \in P /\ \A p \in P : Earliest(P).on <= p.on
<1>1. PICK S : S = {p.on : p \in P}
  OBVIOUS
<1>2. S \in SUBSET Nat /\ S # {}
  BY <1>1
<1>3. PICK n \in S : \A m \in S : n <= m
  BY <1>2, LeastNatural
<1>4. \E p \in P : \A q \in P : p.on <= q.on
  BY <1>1, <1>3
<1> QED
  BY <1>4 DEF Earliest

\* What is projected on a month is the first date that is due.
LEMMA ProjectionIsFirst ==
    ASSUME CommitmentInv, ScheduleInv, NEW month \in Calendar
    PROVE  /\ DueVersions(month) = {} => Projection(Root, month) = NoProjection
           /\ DueVersions(month) # {} =>
                  /\ Projection(Root, month).terms \in DueVersions(month)
                  /\ Projection(Root, month).on = DateOf(Projection(Root, month).terms, month)
                  /\ \A v \in DueVersions(month) :
                         Projection(Root, month).on <= DateOf(v, month)
<1>1. PICK P : P = {p \in {[on |-> DateInMonth(Root.versions[v].rule, month), terms |-> v] :
                               v \in DOMAIN Root.versions} :
                        p.on # NoDate /\ ConfigurationAt(Root, p.on) = p.terms}
  OBVIOUS
<1>2. Projection(Root, month) = Earliest(P)
  BY <1>1 DEF Projection
<1>3. Root.versions = series.versions
  BY DEF Root
<1>4. \A v \in DueVersions(month) : [on |-> DateOf(v, month), terms |-> v] \in P
  BY <1>1, <1>3, CandidatesAreDue DEF DueVersions
<1>5. \A p \in P : p.terms \in DueVersions(month) /\ p.on = DateOf(p.terms, month)
  <2> TAKE p \in P
  <2>1. PICK v \in DOMAIN series.versions :
            p = [on |-> DateInMonth(series.versions[v].rule, month), terms |-> v]
    BY <1>1, <1>3
  <2>2. p.on # NoDate /\ ConfigurationAt(Root, p.on) = v
    BY <1>1, <2>1
  <2> QED
    BY <2>1, <2>2, CandidatesAreDue DEF DueVersions
<1>6. CASE DueVersions(month) = {}
  BY <1>2, <1>5, <1>6 DEF Earliest
<1>7. CASE DueVersions(month) # {}
  <2>1. P # {}
    BY <1>4, <1>7
  <2>2. \A p \in P : p.on \in Nat
    BY <1>5, DatesOfMonth DEF DueVersions, CommitmentInv
  <2>3. Earliest(P) \in P /\ \A p \in P : Earliest(P).on <= p.on
    BY <2>1, <2>2, EarliestIsFirst
  <2>4. \A v \in DueVersions(month) : Earliest(P).on <= DateOf(v, month)
    BY <1>4, <2>3
  <2> QED
    BY <1>2, <1>5, <1>7, <2>3, <2>4
<1> QED
  BY <1>6, <1>7

\* What the listing schedules are the versions that are due, but for the rows.
LEMMA EligibleAreDue ==
    ASSUME CommitmentInv, NEW month \in Calendar, NEW v
    PROVE  v \in Eligible(month)
               <=> /\ v \in DueVersions(month)
                   /\ DateOf(v, month) \in DOMAIN rows =>
                          rows[DateOf(v, month)].status # "CANCELLED"
                   /\ ~ AfterCutoff(DateOf(v, month))
                   /\ RowsIn(month) \subseteq {DateOf(v, month)}
<1> SUFFICES ASSUME v \in DOMAIN series.versions
             PROVE  v \in Eligible(month)
               <=> /\ v \in DueVersions(month)
                   /\ DateOf(v, month) \in DOMAIN rows =>
                          rows[DateOf(v, month)].status # "CANCELLED"
                   /\ ~ AfterCutoff(DateOf(v, month))
                   /\ RowsIn(month) \subseteq {DateOf(v, month)}
  BY DEF Eligible, DueVersions
<1>1. PICK d : d = DateOf(v, month)
  OBVIOUS
<1>2. d \in Nat /\ space.effect.cutoff \in Int
  BY <1>1, DatesOfMonth, MonthsAreMonths, TypesOfState DEF CommitmentInv, Effects
<1>3. ~ AfterCutoff(d) => d < space.effect.cutoff
  BY <1>2 DEF AfterCutoff
<1>4. series.versions[v].from <= d <=> d >= series.versions[v].from
  OBVIOUS
<1> QED
  BY <1>1, <1>3, <1>4 DEF Eligible, DueVersions, IsDue, InRule, InEffect, DateOf

\* Off the rows, what comes before a date that is not after the cutoff is not after it.
LEMMA CutoffIsALine ==
    ASSUME CommitmentInv, NEW date \in Nat, NEW later \in Nat, date <= later,
           later \notin DOMAIN rows, ~ AfterCutoff(later)
    PROVE  ~ AfterCutoff(date)
<1>1. space.effect.cutoff \in Int /\ space.cutoff \in Int
  BY TypesOfState DEF Effects
<1> QED
  BY <1>1 DEF AfterCutoff

LEMMA MinOfOne ==
    ASSUME NEW d \in Nat
    PROVE  Min({d}) = d
BY DEF Min

\* What the SQL of a listing gives is what the versions project.
LEMMA ListingOf ==
    ASSUME CommitmentInv, ScheduleInv, NEW month \in Calendar
    PROVE  Listed(month) =
                {date \in IF RowsIn(month) = {} THEN {Projection(Root, month).on} \ {NoDate}
                          ELSE RowsIn(month) :
                    /\ date \in RowsIn(month) => rows[date].status # "CANCELLED"
                    /\ ~ AfterCutoff(date)}
<1>1. PICK projected : projected = {DateOf(v, month) : v \in Eligible(month)}
  OBVIOUS
<1>2. PICK actual : actual = {date \in RowsIn(month) : rows[date].status # "CANCELLED"
                                                      /\ ~ AfterCutoff(date)}
  OBVIOUS
<1>3. Listed(month) = (IF projected = {} THEN {} ELSE {Min(projected)}) \cup actual
  BY <1>1, <1>2 DEF Listed, DateOf
<1>4. \A v \in DueVersions(month) : /\ DateOf(v, month) \in Nat /\ DateOf(v, month) # NoDate
                                    /\ MonthOf(DateOf(v, month)) = month
  BY DatesOfMonth, MonthsAreMonths DEF DueVersions, CommitmentInv, NoDate
<1>5. \A v \in Eligible(month) : v \in DueVersions(month)
  BY EligibleAreDue
<1>6. CASE RowsIn(month) = {}
  <2>1. \A v \in DueVersions(month) : DateOf(v, month) \notin DOMAIN rows
    BY <1>4, <1>6 DEF RowsIn
  <2>2. \A v : v \in Eligible(month) <=> v \in DueVersions(month) /\ ~ AfterCutoff(DateOf(v, month))
    BY <1>6, <2>1, EligibleAreDue
  <2>3. actual = {}
    BY <1>2, <1>6
  <2>4. PICK p : p = Projection(Root, month)
    OBVIOUS
  <2>5. CASE DueVersions(month) = {}
    <3>1. projected = {} /\ p.on = NoDate
      BY <1>1, <1>5, <2>4, <2>5, ProjectionIsFirst, MonthsAreMonths DEF NoProjection
    <3> QED
      BY <1>3, <1>6, <2>3, <2>4, <3>1
  <2>6. CASE DueVersions(month) # {}
    <3>1. /\ p.terms \in DueVersions(month) /\ p.on = DateOf(p.terms, month)
          /\ \A v \in DueVersions(month) : p.on <= DateOf(v, month)
      BY <2>4, <2>6, ProjectionIsFirst, MonthsAreMonths
    <3>2. p.on \in Nat /\ p.on # NoDate
      BY <1>4, <3>1
    <3>3. CASE AfterCutoff(p.on)
      <4>1. Eligible(month) = {}
        <5> SUFFICES ASSUME NEW v \in Eligible(month)
                     PROVE  FALSE
          OBVIOUS
        <5>1. v \in DueVersions(month) /\ ~ AfterCutoff(DateOf(v, month))
          BY <2>2
        <5>2. p.on <= DateOf(v, month) /\ DateOf(v, month) \in Nat
              /\ DateOf(v, month) \notin DOMAIN rows
          BY <1>4, <2>1, <3>1, <5>1
        <5> QED
          BY <3>2, <3>3, <5>1, <5>2, CutoffIsALine
      <4>2. Listed(month) = {}
        BY <1>1, <1>3, <2>3, <4>1
      <4> QED
        BY <1>6, <2>4, <3>3, <4>2
    <3>4. CASE ~ AfterCutoff(p.on)
      <4>1. p.on \in projected
        BY <1>1, <2>2, <3>1, <3>4
      <4>2. projected \in SUBSET Nat /\ \A date \in projected : p.on <= date
        BY <1>1, <1>4, <1>5, <3>1
      <4>3. Min(projected) \in projected /\ \A date \in projected : Min(projected) <= date
        BY <4>1, <4>2, MinIsLeast
      <4>4. Min(projected) = p.on
        <5>1. PICK d : d = Min(projected)
          OBVIOUS
        <5>2. d \in Nat /\ p.on \in Nat /\ d <= p.on /\ p.on <= d
          BY <4>1, <4>2, <4>3, <5>1
        <5> QED
          BY <5>1, <5>2
      <4>5. Listed(month) = {p.on}
        BY <1>3, <2>3, <4>1, <4>4
      <4> QED
        BY <1>6, <2>4, <3>2, <3>4, <4>5
    <3> QED
      BY <3>3, <3>4
  <2> QED
    BY <2>5, <2>6
<1>7. CASE RowsIn(month) # {}
  <2>1. PICK d \in RowsIn(month) : RowsIn(month) = {d}
    BY <1>7 DEF CommitmentInv, OneOccurrencePerMonth, RowsIn
  <2>2. d \in Nat /\ d \in DOMAIN rows
    BY DEF RowsIn, CommitmentInv, RowsAreSound
  <2>3. \A v \in Eligible(month) : /\ DateOf(v, month) = d
                                   /\ rows[d].status # "CANCELLED" /\ ~ AfterCutoff(d)
    BY <2>1, <2>2, EligibleAreDue
  <2>4. projected # {} => projected = {d} /\ d \in actual
    BY <1>1, <1>2, <2>3
  <2>5. projected # {} => {Min(projected)} \subseteq actual
    BY <2>2, <2>4, MinOfOne
  <2>6. Listed(month) = actual
    BY <1>3, <2>5
  <2> QED
    BY <1>2, <1>7, <2>6
<1> QED
  BY <1>6, <1>7

LEMMA ListingIsProjected ==
    ASSUME CommitmentInv, ScheduleInv
    PROVE  ListedAsProjected
BY ListingOf, MonthsAreMonths DEF ListedAsProjected

-----------------------------------------------------------------------------
(***************************************************************************)
(* What is listed: its amounts, and what can be paid of it.                *)
(***************************************************************************)
MayBeListed(month) ==
    IF RowsIn(month) = {} THEN {Projection(Root, month).on} \ {NoDate} ELSE RowsIn(month)

LEMMA ListedIs ==
    ASSUME CommitmentInv, ScheduleInv, NEW month \in Calendar
    PROVE  Listed(month) = {date \in MayBeListed(month) :
                               /\ date \in RowsIn(month) => rows[date].status # "CANCELLED"
                               /\ ~ AfterCutoff(date)}
BY ListingOf DEF MayBeListed

LEMMA DatesOfAMonth ==
    ASSUME CommitmentInv, ScheduleInv, NEW month \in Calendar, NEW date \in MayBeListed(month)
    PROVE  /\ date \in Nat /\ MonthOf(date) = month
           /\ date \in DOMAIN rows <=> date \in RowsIn(month)
           /\ date \in DOMAIN rows => Found(date) # 0 /\ Shown(date) = rows[date]
           /\ date \notin DOMAIN rows =>
                  /\ RowsIn(month) = {}
                  /\ Found(date) \in DueVersions(month) /\ DateOf(Found(date), month) = date
                  /\ Found(date) # 0 /\ Found(date) \in Nat
                  /\ Shown(date) = ProjectedUnder(Found(date))
<1>0. SeriesIsTyped /\ RowsAreSound
  BY DEF CommitmentInv
<1>1. CASE RowsIn(month) # {}
  <2>1. date \in RowsIn(month)
    BY <1>1 DEF MayBeListed
  <2>2. date \in DOMAIN rows /\ MonthOf(date) = month /\ date \in Nat
    BY <1>0, <2>1 DEF RowsIn, RowsAreSound
  <2> QED
    BY <1>0, <2>1, <2>2, RowsAreFound DEF Shown
<1>2. CASE RowsIn(month) = {}
  <2>1. PICK p : p = Projection(Root, month)
    OBVIOUS
  <2>2. date = p.on /\ p.on # NoDate
    BY <1>2, <2>1 DEF MayBeListed
  <2>3. DueVersions(month) # {}
    BY <2>1, <2>2, ProjectionIsFirst, MonthsAreMonths DEF NoProjection
  <2>4. p.terms \in DueVersions(month) /\ date = DateOf(p.terms, month)
    BY <2>1, <2>2, <2>3, ProjectionIsFirst, MonthsAreMonths
  <2>5. /\ date \in Nat /\ MonthOf(date) = month
        /\ p.terms \in DOMAIN series.versions /\ p.terms \in Nat /\ p.terms # 0
    BY <1>0, <2>4, DatesOfMonth, MonthsAreMonths, VersionsAreAgreed DEF DueVersions
  <2>6. date \notin DOMAIN rows
    BY <1>2, <2>5 DEF RowsIn
  <2>7. Found(date) = p.terms
    BY <1>2, <2>1, <2>2, <2>5, <2>6 DEF Found, ProjectedConfigurationAt, TermsOn
  <2> QED
    BY <1>2, <2>4, <2>5, <2>6, <2>7 DEF Shown
<1> QED
  BY <1>1, <1>2

\* Two versions are not due on the same date.
LEMMA OneVersionIsDue ==
    ASSUME CommitmentInv, ScheduleInv, NEW month \in Calendar,
           NEW v \in DueVersions(month), NEW w \in DueVersions(month),
           DateOf(v, month) = DateOf(w, month)
    PROVE  v = w
<1>1. PICK date : date = DateOf(v, month)
  OBVIOUS
<1>2. v \in DOMAIN series.versions /\ w \in DOMAIN series.versions /\ date \in Nat
  BY <1>1, DatesOfMonth DEF DueVersions, CommitmentInv
<1>3. InEffect(v, date) /\ InEffect(w, date) /\ ~ (date > Root.terminatedOn)
  BY <1>1, <1>2, NotEndedIs DEF DueVersions, IsDue, ScheduleInv
<1>4. EffectiveVersionAt(Root, date) = v /\ EffectiveVersionAt(Root, date) = w
  BY <1>2, <1>3, EffectiveIs DEF ScheduleInv
<1> QED
  BY <1>4

\* The amount that a listing gives is that of the occurrence that is shown.
LEMMA AmountsAgree ==
    ASSUME CommitmentInv, ScheduleInv, NEW month \in Calendar, NEW date \in Listed(month)
    PROVE  ListedAmount(month, date) = Shown(date).amount
<1>1. /\ date \in MayBeListed(month) /\ ~ AfterCutoff(date)
      /\ date \in RowsIn(month) => rows[date].status # "CANCELLED"
  BY ListedIs
<1>2. CASE date \in DOMAIN rows
  <2>1. Shown(date) = rows[date] /\ rows[date].amount # Unknown
    BY <1>1, <1>2, DatesOfAMonth DEF ScheduleInv, UnvaluedAreCancelled
  <2> QED
    BY <1>2, <2>1 DEF ListedAmount
<1>3. CASE date \notin DOMAIN rows
  <2>1. PICK t : t = Found(date)
    OBVIOUS
  <2>2. /\ RowsIn(month) = {} /\ t \in DueVersions(month) /\ DateOf(t, month) = date
        /\ t \in Nat /\ Shown(date) = ProjectedUnder(t)
    BY <1>1, <1>3, <2>1, DatesOfAMonth
  <2>3. t \in Eligible(month)
    BY <1>1, <1>3, <2>2, EligibleAreDue
  <2>4. PICK scheduling : scheduling = {v \in Eligible(month) : DateOf(v, month) = date}
    OBVIOUS
  <2>5. scheduling = {t}
    <3>1. \A v \in scheduling : v \in DueVersions(month) /\ DateOf(v, month) = date
      BY <2>4, EligibleAreDue
    <3>2. month \in Calendar
      BY MonthsAreMonths
    <3>3. \A v \in scheduling : v = t
      BY <2>2, <3>1, <3>2, OneVersionIsDue
    <3> QED
      BY <2>2, <2>3, <2>4, <3>3
  <2>6. Min(scheduling) = t /\ scheduling # {}
    BY <2>2, <2>5, MinOfOne
  <2>7. ListedAmount(month, date) =
            IF series.versions[t].mode = "FIXED" THEN series.versions[t].amount ELSE Unknown
    BY <1>3, <2>4, <2>6 DEF ListedAmount, DateOf
  <2> QED
    BY <2>2, <2>7 DEF ProjectedUnder, Projected
<1> QED
  BY <1>2, <1>3

LEMMA TotalsAreEqual ==
    ASSUME CommitmentInv, ScheduleInv
    PROVE  TotalsAgree
<1> SUFFICES ASSUME NEW month \in Months,
                    \A date \in OccurrencesOf(month) : date < space.effect.cutoff
             PROVE  ListTotals(month) = OccurrenceTotals(OccurrencesOf(month))
  BY DEF TotalsAgree
<1> USE MonthsAreMonths
<1>1. PICK dates : dates = OccurrencesOf(month)
  OBVIOUS
<1>2. dates = {date \in MayBeListed(month) : IsListedOf(date, Shown(date))}
  BY <1>1 DEF OccurrencesOf, MayBeListed
<1>3. ASSUME NEW date \in MayBeListed(month)
      PROVE  date \in Listed(month) <=> date \in dates /\ Shown(date).status # "CANCELLED"
  <2>1. space.effect.cutoff \in Int /\ space.cutoff \in Int /\ date \in Nat
    BY TypesOfState, DatesOfAMonth DEF Effects
  <2>2. PICK row : row = Shown(date)
    OBVIOUS
  <2>3. /\ date \in DOMAIN rows => row = rows[date] /\ date \in RowsIn(month)
        /\ date \notin DOMAIN rows => /\ row.facts = <<>> /\ row.status = "PENDING"
                                      /\ date \notin RowsIn(month)
    BY <2>2, DatesOfAMonth DEF ProjectedUnder, Projected
  <2>4. Len(row.facts) > 0 <=> row.facts # <<>>
    <3>1. row.facts \in Seq(Facts)
      <4>1. Found(date) # 0 /\ SeriesIsTyped /\ RowsAreSound
        BY DatesOfAMonth DEF CommitmentInv
      <4> QED
        BY <2>1, <2>2, <4>1, ShownIsKept DEF IsKeptRow, IsKept, Rows
    <3> QED
      BY <3>1
  <2>5. date \in Listed(month) <=> /\ row.status # "CANCELLED"
                                   /\ date < space.effect.cutoff
                                   /\ date < space.cutoff \/ row.facts # <<>>
    <3>1. AfterCutoff(date) <=> \/ date >= space.effect.cutoff
                                \/ date >= space.cutoff /\ row.facts = <<>>
      BY <2>3 DEF AfterCutoff
    <3> QED
      BY <2>1, <2>3, <3>1, ListedIs
  <2>6. date \in dates <=> \/ date < space.cutoff
                           \/ row.status = "CANCELLED"
                           \/ row.facts # <<>>
    BY <1>2, <2>2, <2>4 DEF IsListedOf, RecordedFacts
  <2>7. date \in dates => date < space.effect.cutoff
    BY <1>1
  <2> QED
    BY <2>2, <2>5, <2>6, <2>7
<1>4. Listed(month) = {date \in dates : Shown(date).status # "CANCELLED"}
  BY <1>2, <1>3, ListedIs
<1>5. [date \in Listed(month) |-> ListedAmount(month, date)]
          = [date \in Listed(month) |-> Shown(date).amount]
  BY AmountsAgree
<1>6. PICK shown : shown = [date \in dates |-> Shown(date)]
  OBVIOUS
<1>7. DueAmounts(shown) = [date \in Listed(month) |-> Shown(date).amount]
  <2>1. {d \in DOMAIN shown : shown[d].status # "CANCELLED"} = Listed(month)
    BY <1>4, <1>6
  <2>2. \A date \in Listed(month) : shown[date].amount = Shown(date).amount
    BY <1>4, <1>6
  <2> QED
    BY <2>1, <2>2 DEF DueAmounts
<1>8. ListTotals(month) = Totals(DueAmounts(shown))
  BY <1>5, <1>7 DEF ListTotals
<1>9. OccurrenceTotals(dates) = Totals(DueAmounts(shown))
  BY <1>6 DEF OccurrenceTotals
<1> QED
  BY <1>1, <1>8, <1>9

LEMMA ListedIsPaid ==
    ASSUME CommitmentInv, ScheduleInv
    PROVE  ListedCanBePaid
<1> SUFFICES ASSUME NEW month \in Months, NEW date \in Listed(month)
             PROVE  /\ HasOptions(date)
                    /\ Bounded(View(date)) /\ ViewOf(Shown(date)).remaining > 0 =>
                           MayRecord(View(date), Shown(date), 1)
  BY DEF ListedCanBePaid, View
<1> USE MonthsAreMonths
<1>1. /\ date \in MayBeListed(month) /\ ~ AfterCutoff(date)
      /\ date \in RowsIn(month) => rows[date].status # "CANCELLED"
  BY ListedIs
<1>2. PICK row : row = Shown(date)
  OBVIOUS
<1>3. date \in Nat /\ Found(date) # 0 /\ SeriesIsTyped /\ RowsAreSound
  BY <1>1, DatesOfAMonth DEF CommitmentInv
<1>4. row \in Rows /\ row.facts \in Seq(Facts)
  BY <1>2, <1>3, ShownIsKept DEF IsKeptRow, IsKept, Rows
<1>5. space.effect.cutoff \in Int /\ space.cutoff \in Int
  BY TypesOfState DEF Effects
<1>6. /\ row.status # "CANCELLED"
      /\ date < space.effect.cutoff
      /\ date >= space.cutoff => row.facts # <<>>
  <2>1. CASE date \in DOMAIN rows
    <3>1. row = rows[date] /\ date \in RowsIn(month)
      BY <1>1, <1>2, <2>1, DatesOfAMonth
    <3> QED
      BY <1>1, <1>3, <1>5, <3>1 DEF AfterCutoff
  <2>2. CASE date \notin DOMAIN rows
    <3>1. row.status = "PENDING"
      BY <1>1, <1>2, <2>2, DatesOfAMonth DEF ProjectedUnder, Projected
    <3> QED
      BY <1>1, <1>3, <1>5, <2>2, <3>1 DEF AfterCutoff
  <2> QED
    BY <2>1, <2>2
<1>7. BeforeCutoff(date, RecordedFacts(row))
  BY <1>4, <1>6 DEF BeforeCutoff, RecordedFacts
<1>8. HasOptions(date)
  BY <1>2, <1>3, <1>7 DEF HasOptions
<1>9. date \notin space.effect.items
  <2>1. CASE space.effect = NoEffect
    BY <2>1 DEF NoEffect
  <2>2. CASE space.effect # NoEffect
    BY <1>3, <1>5, <1>6, <2>2 DEF ScheduleInv, EffectIsAgreed
  <2> QED
    BY <2>1, <2>2
<1>10. ASSUME Bounded(View(date)), ViewOf(row).remaining > 0
       PROVE  MayRecord(View(date), row, 1)
  <2>1. row.amount # Unknown /\ Remaining(row) > 0
    <3>1. ViewOf(row).remaining = IF row.amount = Unknown THEN Unknown ELSE Remaining(row)
      BY DEF ViewOf
    <3> QED
      BY <1>10, <3>1 DEF Unknown
  <2>2. Remaining(row) \in Int
    <3>1. row.amount \in Int /\ AreMoney(row.facts)
      BY <1>4, RowsHaveMoney DEF Rows, Amounts, Unknown
    <3> QED
      BY <3>1, MoneyIsSummable, FulfilledIs DEF Remaining
  <2>3. CanRecord(row, 1)
    BY <1>6, <2>1, <2>2 DEF CanRecord
  <2>4. /\ View(date).date = date /\ View(date).space = space.version
        /\ View(date).root = series.version /\ View(date).occurrence = row
    BY <1>2 DEF View
  <2>5. Fulfills(View(date), row) /\ SameRoot(View(date)) /\ SameOccurrence(View(date), row)
    BY <1>3, <1>7, <1>10, <2>4 DEF Fulfills, SameRoot, SameOccurrence
  <2>6. OriginOpen(View(date).date)
    BY <1>6, <1>9, <2>4 DEF OriginOpen
  <2> QED
    BY <2>3, <2>5, <2>6 DEF MayRecord
<1> QED
  BY <1>2, <1>8, <1>10

\* What the SQL of a month's listing gives is what the versions of the series project, or
\* the row that stands for it, and its totals are those that are added up in memory; what
\* is listed can be paid, and what an occurrence costs is divided whole.
THEOREM ListingsAgree ==
    Spec => [](ListedAsProjected /\ TotalsAgree /\ ListedCanBePaid /\ OriginsAddUp)
<1>1. CommitmentInv /\ ScheduleInv =>
          ListedAsProjected /\ TotalsAgree /\ ListedCanBePaid /\ OriginsAddUp
  BY ListingIsProjected, TotalsAreEqual, ListedIsPaid, OriginsAreWhole
<1> QED
  BY <1>1, ScheduleIsSound, PTL
-----------------------------------------------------------------------------
(***************************************************************************)
(* What comes next, and what a termination leaves.                         *)
(***************************************************************************)
MonthsAhead(day) == {MonthAfter(MonthOf(day), n) : n \in 0 .. Lookahead - 1}

\* The months that are shown do not go beyond those that are searched for what comes next.
SearchIsEnough ==
    \A day \in Days :
        /\ MonthsAhead(day) \subseteq Calendar
        /\ \A month \in Months : month >= MonthOf(day) => month \in MonthsAhead(day)

\* What is projected on a month is nothing, or a date of the month, on which the version
\* that is named schedules it, before the cutoff of an effect.
LEMMA ProjectionIsDue ==
    ASSUME CommitmentInv, ScheduleInv, NEW month \in Calendar,
           Projection(Root, month).on # NoDate
    PROVE  LET p == Projection(Root, month)
           IN  /\ p.on \in Nat \ {0} /\ MonthOf(p.on) = month
               /\ p.on < space.effect.cutoff
               /\ ConfigurationAt(Root, p.on) = p.terms
               /\ ProjectedConfigurationAt(Root, p.on) = p.terms
<1>1. PICK p : p = Projection(Root, month)
  OBVIOUS
<1>2. DueVersions(month) # {}
  BY ProjectionIsFirst DEF NoProjection
<1>3. p.terms \in DueVersions(month) /\ p.on = DateOf(p.terms, month)
  BY <1>1, <1>2, ProjectionIsFirst
<1>4. p.on \in Nat \ {0} /\ MonthOf(p.on) = month /\ p.terms \in DOMAIN series.versions
  BY <1>3, DatesOfMonth DEF DueVersions, CommitmentInv
<1>5. IsDue(p.terms, month)
  BY <1>3 DEF DueVersions
<1>6. p.on < space.effect.cutoff
  BY <1>3, <1>5 DEF IsDue
<1>7. ConfigurationAt(Root, p.on) = p.terms
  BY <1>3, <1>4, <1>5, CandidatesAreDue
<1>8. ProjectedConfigurationAt(Root, p.on) = p.terms
  BY <1>1, <1>4 DEF ProjectedConfigurationAt, TermsOn
<1> QED
  BY <1>1, <1>4, <1>6, <1>7, <1>8

LEMMA LeastIsMin ==
    ASSUME NEW S \in SUBSET Nat, S # {}
    PROVE  Min(S) \in S /\ \A n \in S : Min(S) <= n
<1>1. \E m \in S : \A n \in S : m <= n
  BY LeastNatural
<1> QED
  BY <1>1 DEF Min

\* A month without rows lists what is projected on it, before the cutoff of the space.
LEMMA FreeMonthLists ==
    ASSUME CommitmentInv, ScheduleInv, NEW month \in Calendar, RowsIn(month) = {}, NEW date
    PROVE  date \in Listed(month) <=> /\ date = Projection(Root, month).on
                                      /\ date # NoDate
                                      /\ date < space.cutoff
<1>1. Listed(month) = {d \in {Projection(Root, month).on} \ {NoDate} :
                          /\ d \in RowsIn(month) => rows[d].status # "CANCELLED"
                          /\ ~ AfterCutoff(d)}
  BY ListedIs DEF MayBeListed
<1>2. ASSUME date = Projection(Root, month).on, date # NoDate
      PROVE  ~ AfterCutoff(date) <=> date < space.cutoff
  <2>1. date \in Nat /\ MonthOf(date) = month /\ date < space.effect.cutoff
    BY <1>2, ProjectionIsDue, MonthsAreMonths
  <2>2. date \notin DOMAIN rows
    BY <2>1 DEF RowsIn
  <2>3. space.effect.cutoff \in Int /\ space.cutoff \in Int
    BY TypesOfState DEF Effects
  <2> QED
    BY <2>1, <2>2, <2>3 DEF AfterCutoff
<1> QED
  BY <1>1, <1>2

LEMMA NextIsFirstListed ==
    ASSUME CommitmentInv, ScheduleInv, SearchIsEnough
    PROVE  NextIsListed
<1>1. PICK free : free = {month \in Months : RowsIn(month) = {}}
  OBVIOUS
<1>2. PICK coming : coming = {date \in UNION {Listed(month) : month \in free} : date >= today}
  OBVIOUS
<1>3. PICK projected : projected = {Projection(Root, month).on : month \in MonthsAhead(today)}
  OBVIOUS
<1>4. PICK dates : dates = {date \in projected : date >= today /\ date < space.cutoff}
  OBVIOUS
<1>5. PICK next : next = FirstDate(dates)
  OBVIOUS
<1>6. RootView.next = next
  BY <1>3, <1>4, <1>5 DEF RootView, RootViewOf, NextOccurrence, MonthsAhead
<1>7. RootView.terms = IF next = NoDate THEN 0 ELSE ConfigurationAt(Root, next)
  BY <1>3, <1>4, <1>5 DEF RootView, RootViewOf, NextOccurrence, MonthsAhead
<1>8. today \in Days /\ today \in Nat /\ today # 0
  <2>1. today \in Days
    BY TypesOfState
  <2>2. today \in Nat /\ MonthOf(today) % 100 \in 1 .. 12
    BY <2>1, CalendarAssumption DEF IsDay
  <2>3. MonthOf(0) % 100 = 0
    BY DEF MonthOf
  <2> QED
    BY <2>1, <2>2, <2>3
<1>9. MonthsAhead(today) \subseteq Calendar
  BY <1>8 DEF SearchIsEnough
<1>10. \A date \in dates : \E month \in MonthsAhead(today) :
           /\ date = Projection(Root, month).on
           /\ date # NoDate /\ date \in Nat /\ MonthOf(date) = month
  <2> SUFFICES ASSUME NEW date \in dates
               PROVE  \E month \in MonthsAhead(today) :
           /\ date = Projection(Root, month).on
           /\ date # NoDate /\ date \in Nat /\ MonthOf(date) = month
    OBVIOUS
  <2>1. PICK month \in MonthsAhead(today) : date = Projection(Root, month).on
    BY <1>3, <1>4
  <2>2. date # NoDate
    BY <1>4, <1>8 DEF NoDate
  <2> QED
    BY <1>9, <2>1, <2>2, ProjectionIsDue
<1>11. coming \subseteq dates /\ coming \subseteq Nat
  <2> SUFFICES ASSUME NEW date \in coming
               PROVE  date \in dates /\ date \in Nat
    OBVIOUS
  <2>1. PICK month \in free : date \in Listed(month) /\ date >= today
    BY <1>2
  <2>2. month \in Months /\ month \in Calendar /\ RowsIn(month) = {}
    BY <1>1, <2>1, MonthsAreMonths
  <2>3. date = Projection(Root, month).on /\ date # NoDate /\ date < space.cutoff
    BY <2>1, <2>2, FreeMonthLists
  <2>4. date \in Nat /\ MonthOf(date) = month
    BY <2>2, <2>3, ProjectionIsDue
  <2>5. month >= MonthOf(today)
    BY <1>8, <2>1, <2>4 DEF MonthOf
  <2>6. month \in MonthsAhead(today)
    BY <1>8, <2>2, <2>5 DEF SearchIsEnough
  <2> QED
    BY <1>3, <1>4, <2>1, <2>3, <2>4, <2>6
<1>12. dates # {} => next \in dates /\ next # NoDate /\ \A date \in dates : next <= date
  BY <1>5, <1>10, LeastIsMin DEF FirstDate
<1>13. dates = {} => next = NoDate
  BY <1>5 DEF FirstDate
<1>14. coming # {} => next # NoDate /\ next <= Min(coming)
  BY <1>11, <1>12, LeastIsMin
<1>15. ASSUME MonthOf(next) \in free
       PROVE  coming # {} /\ next = Min(coming)
  <2>1. dates # {}
    <3>1. MonthOf(next) \in Calendar
      BY <1>1, <1>15, MonthsAreMonths
    <3>2. MonthOf(NoDate) = 0
      BY DEF MonthOf, NoDate
    <3> QED
      BY <1>13, <3>1, <3>2 DEF Calendar, IsMonth
  <2>2. PICK month \in MonthsAhead(today) :
            next = Projection(Root, month).on /\ next # NoDate /\ MonthOf(next) = month
    BY <1>10, <1>12, <2>1
  <2>3. month \in Months /\ RowsIn(month) = {}
    BY <1>1, <1>15, <2>2
  <2>4. next \in Listed(month)
    BY <1>4, <1>12, <2>1, <2>2, <2>3, FreeMonthLists, MonthsAreMonths
  <2>5. next \in coming
    BY <1>1, <1>2, <1>4, <1>12, <2>1, <2>3, <2>4
  <2>6. next <= Min(coming) /\ Min(coming) <= next /\ Min(coming) \in Nat
    BY <1>11, <1>14, <2>5, LeastIsMin
  <2> QED
    BY <1>11, <2>5, <2>6
<1>16. next # NoDate => ConfigurationAt(Root, next) = ProjectedConfigurationAt(Root, next)
  BY <1>9, <1>10, <1>12, <1>13, ProjectionIsDue
<1> QED
  BY <1>1, <1>2, <1>6, <1>7, <1>14, <1>15, <1>16 DEF NextIsListed

\* What the commitment shows as its next occurrence is the first that the months list, of
\* those that nothing was recorded of, as long as the months do not go beyond the search,
\* and it is priced by the terms under which it can then be paid.
THEOREM NextIsTheFirst ==
    ASSUME SearchIsEnough
    PROVE  Spec => []NextIsListed
<1>1. CommitmentInv /\ ScheduleInv => NextIsListed
  BY NextIsFirstListed
<1> QED
  BY <1>1, ScheduleIsSound, PTL
-----------------------------------------------------------------------------
(***************************************************************************)
(* The days of the occurrences.                                            *)
(***************************************************************************)
\* Occurrences are on days, from the first day of the commitment on, and so is what was
\* seen; the first version is the one that was created.
DatesInv ==
    /\ series.versions[1] \in Created
    /\ \A date \in DOMAIN rows : IsDay(date) /\ date >= series.versions[1].from
    /\ seen # NoView => IsDay(seen.date)

LEMMA FirstComesFirst ==
    ASSUME CommitmentInv, ScheduleInv
    PROVE  /\ 1 \in DOMAIN series.versions
           /\ series.versions[1].from \in Nat
           /\ \A v \in DOMAIN series.versions : series.versions[v].from \in Nat
           /\ \A v \in DOMAIN series.versions :
                  series.versions[1].from <= series.versions[v].from
<1>1. PICK s, n : s = series.versions /\ n = Len(s)
  OBVIOUS
<1>2. s \in Seq(Agreed) /\ n \in Nat /\ n >= 1 /\ DOMAIN s = 1 .. n
  BY <1>1, TypesOfState
<1>3. \A w \in 1 .. n : s[w].from \in Nat
  BY <1>2, FromsAreNumbers
<1>4. \A w \in 1 .. n : 1 < w => s[1].from < s[w].from
  BY <1>1, <1>2 DEF ScheduleInv, VersionsAscend
<1> QED
  BY <1>1, <1>2, <1>3, <1>4

\* What is projected is a day, and the commitment had begun by then.
LEMMA ProjectedIsADay ==
    ASSUME CommitmentInv, ScheduleInv, NEW month \in Calendar,
           Projection(Root, month).on # NoDate
    PROVE  /\ IsDay(Projection(Root, month).on)
           /\ Projection(Root, month).on >= series.versions[1].from
<1>1. PICK p : p = Projection(Root, month)
  OBVIOUS
<1>2. DueVersions(month) # {}
  BY ProjectionIsFirst DEF NoProjection
<1>3. p.terms \in DueVersions(month) /\ p.on = DateOf(p.terms, month)
  BY <1>1, <1>2, ProjectionIsFirst
<1>4. IsDay(p.on) /\ p.on \in Nat /\ p.terms \in DOMAIN series.versions
  BY <1>3, DatesOfMonth DEF DueVersions, CommitmentInv
<1>5. series.versions[p.terms].from <= p.on
  BY <1>3 DEF DueVersions, IsDue, InEffect
<1>6. series.versions[1].from <= p.on
  BY <1>4, <1>5, FirstComesFirst
<1> QED
  BY <1>1, <1>4, <1>6, FirstComesFirst

LEMMA DaysAreInTheCalendar ==
    ASSUME NEW date, IsDay(date)
    PROVE  MonthOf(date) \in Calendar
<1>1. date \in Nat /\ date < 99999999
  BY SMT DEF IsDay, NoEnd
<1>2. 100 * (date \div 100) + 31 < 99999999
  BY <1>1, SMT
<1>3. 100 * MonthOf(date) + 31 < NoEnd
  BY <1>2, SMT DEF MonthOf, NoEnd
<1> QED
  BY <1>1, <1>3 DEF Calendar, IsMonth, IsDay, MonthOf

LEMMA ShownDatesAreDays ==
    ASSUME CommitmentInv, ScheduleInv, DatesInv, NEW date \in Dates(Months)
    PROVE  IsDay(date)
<1>1. CASE date \in DOMAIN rows
  BY <1>1 DEF DatesInv
<1>2. CASE date \notin DOMAIN rows
  <2>1. PICK month \in Months : date = Projection(Root, month).on /\ date # NoDate
    BY <1>2 DEF Dates
  <2> QED
    BY <2>1, MonthsAreMonths, ProjectedIsADay
<1> QED
  BY <1>1, <1>2

LEMMA DatesStep ==
    ASSUME CommitmentInv, ScheduleInv, DatesInv, [Next]_vars
    PROVE  DatesInv'
<1>1. CASE LeavesRows
  <2>1. rows' = rows /\ TakesVersion
    BY <1>1 DEF LeavesRows
  <2>2. series'.versions[1] = series.versions[1]
    <3>1. PICK s, n : s = series.versions /\ n = Len(s)
      OBVIOUS
    <3>2. s \in Seq(Agreed) /\ n \in Nat /\ n >= 1
      BY <3>1, TypesOfState
    <3>3. \A c : Append(s, c)[1] = s[1]
      BY <3>1, <3>2
    <3> QED
      BY <2>1, <3>1, <3>3 DEF TakesVersion
  <2>3. seen' # NoView => IsDay(seen'.date)
    <3>1. CASE seen' = seen
      BY <3>1 DEF DatesInv
    <3>2. CASE \E date \in Dates(Months) : seen' = View(date)
      BY <3>2, ShownDatesAreDays DEF View
    <3> QED
      BY <1>1, <3>1, <3>2 DEF LeavesRows
  <2> QED
    BY <2>1, <2>2, <2>3 DEF DatesInv
<1>2. CASE ChangesOccurrence
  <2>1. PICK view, row, n :
            /\ IsView(view, row)
            /\ RowBecomes(view, row, n)
            /\ \/ view.date \in Dates(Months) /\ seen' = seen
               \/ seen # NoView /\ view = seen /\ seen' = NoView
    BY <1>2 DEF ChangesOccurrence
  <2>2. DOMAIN rows' = DOMAIN rows \cup {view.date}
    BY <2>1, RowsBecome
  <2>3. series'.versions = series.versions
    BY <2>1, TypesOfState DEF RowBecomes, Statement
  <2>4. IsDay(view.date)
    BY <2>1, ShownDatesAreDays DEF DatesInv
  <2>5. view.date \notin DOMAIN rows => view.date >= series.versions[1].from
    <3> SUFFICES ASSUME view.date \notin DOMAIN rows
                 PROVE  view.date >= series.versions[1].from
      OBVIOUS
    <3>1. PICK month : month = MonthOf(view.date)
      OBVIOUS
    <3>2. ProjectedConfigurationAt(Root, view.date) # 0
      BY <2>1 DEF RowBecomes, Found
    <3>3. Projection(Root, month).on = view.date
      BY <3>1, <3>2 DEF ProjectedConfigurationAt, TermsOn
    <3>4. month \in Calendar /\ view.date # NoDate
      <4>1. MonthOf(0) % 100 = 0
        BY DEF MonthOf
      <4> QED
        BY <2>4, <3>1, <4>1, DaysAreInTheCalendar DEF IsDay, NoDate
    <3> QED
      BY <3>3, <3>4, ProjectedIsADay
  <2>6. seen' # NoView => IsDay(seen'.date)
    BY <2>1 DEF DatesInv
  <2> QED
    BY <2>2, <2>3, <2>4, <2>5, <2>6 DEF DatesInv
<1> QED
  BY <1>1, <1>2, EveryStep

\* Whatever is commanded, the occurrences that were made lie on days of the calendar, none
\* before the commitment began.
THEOREM DatesAreSound == Spec => [](CommitmentInv /\ ScheduleInv /\ DatesInv)
<1>1. Init => DatesInv
  <2> SUFFICES ASSUME Init
               PROVE  DatesInv
    OBVIOUS
  <2>1. PICK terms \in Created : series = [version |-> 1, versions |-> <<terms>>, ends |-> NoEnd]
    BY DEF Init, NewSeries
  <2>2. DOMAIN rows = {} /\ seen = NoView
    BY DEF Init
  <2> QED
    BY <2>1, <2>2 DEF DatesInv
<1>2. CommitmentInv /\ ScheduleInv /\ DatesInv /\ [Next]_vars => DatesInv'
  BY DatesStep
<1> QED
  BY <1>1, <1>2, ScheduleIsSound, PTL DEF Spec
-----------------------------------------------------------------------------
(***************************************************************************)
(* The months between two months.                                          *)
(***************************************************************************)
Rank(month) == 12 * (month \div 100) + (month % 100)

\* Months are in the order of their ranks.
LEMMA MonthsInOrder ==
    ASSUME NEW a, IsMonth(a), NEW b, IsMonth(b)
    PROVE  /\ Rank(a) \in Nat \ {0}
           /\ a <= b <=> Rank(a) <= Rank(b)
           /\ a = b <=> Rank(a) = Rank(b)
<1>1. PICK x, y, u, v : /\ x = a \div 100 /\ y = a % 100
                        /\ u = b \div 100 /\ v = b % 100
  OBVIOUS
<1>2. /\ x \in Nat /\ y \in 1 .. 12 /\ a = 100 * x + y
      /\ u \in Nat /\ v \in 1 .. 12 /\ b = 100 * u + v
  BY <1>1 DEF IsMonth
<1>3. Rank(a) = 12 * x + y /\ Rank(b) = 12 * u + v
  BY <1>1 DEF Rank
<1> QED
  BY <1>2, <1>3

\* A number of months later, or earlier, is a month of that rank, unless it is before all.
LEMMA MonthAfterIs ==
    ASSUME NEW month, IsMonth(month), NEW n \in Int
    PROVE  /\ MonthAfter(month, n) \in Int
           /\ MonthAfter(month, n) >= 0 \/ Rank(month) + n >= 1 =>
                  /\ IsMonth(MonthAfter(month, n))
                  /\ Rank(MonthAfter(month, n)) = Rank(month) + n
<1>1. PICK q : q = Rank(month) - 1 + n
  OBVIOUS
<1>2. q \in Int
  BY <1>1 DEF Rank, IsMonth
<1>3. PICK x, y : x = q \div 12 /\ y = q % 12
  OBVIOUS
<1>4. x \in Int /\ y \in 0 .. 11 /\ q = 12 * x + y
  BY <1>2, <1>3
<1>5. MonthAfter(month, n) = 100 * x + y + 1
  <2>1. 12 * (month \div 100) + (month % 100) - 1 + n = q
    BY <1>1 DEF Rank, IsMonth
  <2> QED
    BY <1>3, <2>1 DEF MonthAfter
<1>6. ASSUME MonthAfter(month, n) >= 0 \/ Rank(month) + n >= 1
      PROVE  x >= 0
  <2>1. 100 * x + y + 1 >= 0 \/ q >= 0
    BY <1>1, <1>2, <1>5, <1>6 DEF Rank, IsMonth
  <2> QED
    BY <1>4, <2>1
<1>7. ASSUME x >= 0
      PROVE  /\ IsMonth(100 * x + y + 1)
             /\ Rank(100 * x + y + 1) = q + 1
  <2>1. (100 * x + y + 1) \div 100 = x /\ (100 * x + y + 1) % 100 = y + 1
    BY <1>4, <1>7
  <2> QED
    BY <1>4, <1>7, <2>1 DEF IsMonth, Rank
<1>8. q + 1 = Rank(month) + n
  BY <1>1 DEF Rank, IsMonth
<1> QED
  BY <1>4, <1>5, <1>6, <1>7, <1>8

LEMMA MonthsBetweenAre ==
    ASSUME NEW from, IsMonth(from), NEW to, IsMonth(to), NEW month
    PROVE  month \in MonthsBetween(from, to) <=> IsMonth(month) /\ from <= month /\ month <= to
<1>1. /\ Rank(from) \in Nat \ {0} /\ Rank(to) \in Nat \ {0}
  BY MonthsInOrder
<1>2. Distance(from, to) = Rank(to) - Rank(from)
  BY DEF Distance, Rank, IsMonth
<1>3. PICK d : d = Rank(to) - Rank(from)
  OBVIOUS
<1>4. MonthsBetween(from, to) = {MonthAfter(from, n) : n \in 0 .. d}
  BY <1>2, <1>3 DEF MonthsBetween
<1>5. ASSUME month \in MonthsBetween(from, to)
      PROVE  IsMonth(month) /\ from <= month /\ month <= to
  <2>1. PICK n \in 0 .. d : month = MonthAfter(from, n)
    BY <1>4, <1>5
  <2>2. IsMonth(month) /\ Rank(month) = Rank(from) + n
    BY <1>1, <2>1, MonthAfterIs
  <2>3. Rank(from) <= Rank(month) /\ Rank(month) <= Rank(to)
    BY <1>1, <1>3, <2>1, <2>2
  <2> QED
    BY <2>2, <2>3, MonthsInOrder
<1>6. ASSUME IsMonth(month), from <= month, month <= to
      PROVE  month \in MonthsBetween(from, to)
  <2>1. Rank(from) <= Rank(month) /\ Rank(month) <= Rank(to) /\ Rank(month) \in Nat \ {0}
    BY <1>6, MonthsInOrder
  <2>2. PICK n : n = Rank(month) - Rank(from)
    OBVIOUS
  <2>3. n \in 0 .. d
    BY <1>1, <1>3, <2>1, <2>2
  <2>4. Rank(from) + n = Rank(month)
    BY <1>1, <2>1, <2>2
  <2>5. IsMonth(MonthAfter(from, n)) /\ Rank(MonthAfter(from, n)) = Rank(month)
    BY <2>1, <2>3, <2>4, MonthAfterIs
  <2>6. MonthAfter(from, n) = month
    BY <1>6, <2>5, MonthsInOrder
  <2> QED
    BY <1>4, <2>3, <2>6
<1> QED
  BY <1>5, <1>6

\* The months of a year ago until now are among those that the older list looks at.
LEMMA MonthsOfAYear ==
    ASSUME NEW now, IsMonth(now), NEW month, IsMonth(month),
           month <= now, MonthAfter(now, -12) <= month
    PROVE  \E n \in -12 .. 13 : month = MonthAfter(now, n)
<1>1. Rank(now) \in Nat \ {0} /\ Rank(month) \in Nat \ {0} /\ Rank(month) <= Rank(now)
  BY MonthsInOrder
<1>2. PICK n : n = Rank(month) - Rank(now)
  OBVIOUS
<1>3. n \in -12 .. 0
  <2>1. CASE Rank(now) >= 13
    <3>1. Rank(now) + (-12) >= 1
      BY <1>1, <2>1
    <3>2. IsMonth(MonthAfter(now, -12)) /\ Rank(MonthAfter(now, -12)) = Rank(now) + (-12)
      BY <3>1, MonthAfterIs
    <3>3. Rank(MonthAfter(now, -12)) <= Rank(month)
      BY <3>2, MonthsInOrder
    <3> QED
      BY <1>1, <1>2, <3>2, <3>3
  <2>2. CASE ~ (Rank(now) >= 13)
    BY <1>1, <1>2, <2>2
  <2> QED
    BY <2>1, <2>2
<1>4. Rank(now) + n = Rank(month) /\ n \in Int /\ n \in -12 .. 13
  BY <1>1, <1>2, <1>3
<1>5. IsMonth(MonthAfter(now, n)) /\ Rank(MonthAfter(now, n)) = Rank(month)
  BY <1>1, <1>4, MonthAfterIs
<1> QED
  BY <1>4, <1>5, MonthsInOrder
-----------------------------------------------------------------------------
(***************************************************************************)
(* What the screen of the day schedules, and what is listed.               *)
(***************************************************************************)
\* No two versions are due in a month.  The listing gives the first date of a month, the
\* screen of the day one for each version.
OneIsDue ==
    \A month \in Calendar : \A v, w \in DueVersions(month) : v = w

LEMMA GreaterOfTwo ==
    ASSUME NEW a \in Int, NEW b \in Int
    PROVE  Max({a, b}) = IF a >= b THEN a ELSE b
BY DEF Max

LEMMA TermsOfVersion ==
    ASSUME CommitmentInv, NEW v \in DOMAIN series.versions
    PROVE  LET version == series.versions[v]
           IN  /\ IsDay(version.from) /\ IsDay(version.rule.starts)
               /\ version.rule.ends \in Nat /\ version.rule.day \in 1 .. 31
               /\ version.amount \in Nat \ {0} /\ version.mode \in {"FIXED", "VARIABLE"}
<1>1. series.versions[v] \in Agreed
  BY VersionsAreAgreed DEF CommitmentInv
<1> QED
  BY <1>1, AgreedAreTerms, CalendarAssumption, RecurringAssumption DEF Agreed

\* The cutoff of an effect is a day, or there is none.
LEMMA CutoffIsADay ==
    ASSUME CommitmentInv, ScheduleInv
    PROVE  /\ space.effect.cutoff \in Nat /\ space.effect.cutoff <= NoEnd
           /\ space.cutoff \in Int /\ series.ends \in Int /\ NoEnd \in Nat
<1>1. NoEnd \in Nat
  BY SMT DEF NoEnd
<1>2. CASE space.effect = NoEffect
  BY <1>1, <1>2, TypesOfState DEF NoEffect
<1>3. CASE space.effect # NoEffect
  <2>1. space.effect.cutoff \in Cutoffs
    BY <1>3 DEF ScheduleInv, EffectIsAgreed
  <2> QED
    BY <1>1, <2>1, CalendarAssumption, TypesOfState DEF IsDay
<1> QED
  BY <1>2, <1>3

\* What the screen schedules, in the terms of the listing.
LEMMA SchedulesIs ==
    ASSUME CommitmentInv, ScheduleInv, NEW v \in DOMAIN series.versions,
           NEW month \in Nat, DateOf(v, month) \in Nat, MonthOf(DateOf(v, month)) = month
    PROVE  Schedules(v, DateOf(v, month))
               <=> /\ IsDue(v, month)
                   /\ DateOf(v, month) < space.cutoff
                   /\ RowsIn(month) = {}
<1>1. PICK date, version : date = DateOf(v, month) /\ version = series.versions[v]
  OBVIOUS
<1>2. date \in Nat /\ MonthOf(date) = month
  BY <1>1
<1>3. /\ version.rule.starts \in Int /\ version.from \in Int /\ version.rule.ends \in Int
      /\ series.ends \in Int /\ space.cutoff \in Int /\ space.effect.cutoff \in Int
  BY <1>1, TermsOfVersion, CutoffIsADay DEF IsDay
<1>4. date >= Max({version.rule.starts, version.from})
          <=> date >= version.rule.starts /\ version.from <= date
  BY <1>2, <1>3, GreaterOfTwo
<1>5. date <= Min({version.rule.ends, series.ends})
          <=> date <= version.rule.ends /\ date <= series.ends
  BY <1>2, <1>3, SmallerOfTwo
<1>6. date < Min({space.cutoff, space.effect.cutoff})
          <=> date < space.cutoff /\ date < space.effect.cutoff
  BY <1>2, <1>3, SmallerOfTwo
<1>7. Schedules(v, date) <=>
          /\ version.rule.month \in {0, month % 100}
          /\ date >= Max({version.rule.starts, version.from})
          /\ date <= Min({version.rule.ends, series.ends})
          /\ date < Min({space.cutoff, space.effect.cutoff})
          /\ v < Len(series.versions) => date < series.versions[v + 1].from
          /\ RowsIn(month) = {}
  BY <1>1, <1>2 DEF Schedules
<1>8. IsDue(v, month) <=>
          /\ version.rule.month \in {0, month % 100}
          /\ date >= version.rule.starts /\ date <= version.rule.ends
          /\ version.from <= date
          /\ v < Len(series.versions) => date < series.versions[v + 1].from
          /\ date <= series.ends /\ date < space.effect.cutoff
  BY <1>1 DEF IsDue, InRule, InEffect
<1> QED
  BY <1>1, <1>4, <1>5, <1>6, <1>7, <1>8

\* A month on which something is due is in the calendar.
LEMMA DueMonths ==
    ASSUME CommitmentInv, ScheduleInv, NEW v \in DOMAIN series.versions,
           NEW month, IsMonth(month), IsDue(v, month)
    PROVE  month \in Calendar
<1>1. month \in Nat /\ series.versions[v].rule.day \in 1 .. 31
  BY TermsOfVersion DEF IsMonth
<1>2. DateOf(v, month) \in Nat /\ MonthOf(DateOf(v, month)) = month
  BY <1>1, ScheduledInMonth DEF DateOf
<1>3. \E k \in 1 .. DaysIn(month) : DateOf(v, month) = 100 * month + k
  BY <1>1, ScheduledInMonth DEF DateOf
<1>4. PICK k \in 1 .. 31 : DateOf(v, month) = 100 * month + k
  BY <1>1, <1>3, DaysOfMonth
<1>5. DateOf(v, month) < NoEnd
  <2>1. DateOf(v, month) < space.effect.cutoff
    BY DEF IsDue
  <2> QED
    BY <1>2, <2>1, CutoffIsADay
<1>6. 100 * month + 1 < 99999999
  <2>1. DateOf(v, month) < 99999999
    BY <1>5, SMT DEF NoEnd
  <2> QED
    BY <1>1, <1>4, <2>1, SMT
<1>7. 100 * month + 31 < 99999999
  BY <1>1, <1>6, SMT
<1>8. 100 * month + 31 < NoEnd
  BY <1>7, SMT DEF NoEnd
<1> QED
  BY <1>1, <1>8 DEF Calendar
LEMMA ScheduledIsListed ==
    ASSUME CommitmentInv, ScheduleInv, OneIsDue, NEW v \in DOMAIN series.versions,
           NEW month, IsMonth(month), Schedules(v, DateOf(v, month))
    PROVE  /\ month \in Calendar
           /\ DateOf(v, month) \in Listed(month) /\ DateOf(v, month) \notin DOMAIN rows
           /\ DateOf(v, month) \in Nat /\ MonthOf(DateOf(v, month)) = month
           /\ Found(DateOf(v, month)) = v
<1>1. PICK date : date = DateOf(v, month)
  OBVIOUS
<1>2. month \in Nat /\ date \in Nat /\ MonthOf(date) = month
  BY <1>1, TermsOfVersion, ScheduledInMonth DEF DateOf, IsMonth
<1>3. IsDue(v, month) /\ date < space.cutoff /\ RowsIn(month) = {}
  BY <1>1, <1>2, SchedulesIs
<1>4. month \in Calendar
  BY <1>3, DueMonths
<1>5. v \in DueVersions(month)
  BY <1>3 DEF DueVersions
<1>6. PICK p : p = Projection(Root, month)
  OBVIOUS
<1>7. p.terms = v /\ p.on = date
  BY <1>1, <1>4, <1>5, <1>6, ProjectionIsFirst DEF OneIsDue
<1>8. date # NoDate
  BY <1>1, <1>4, DatesOfMonth DEF CommitmentInv, NoDate
<1>9. date \in Listed(month)
  BY <1>3, <1>4, <1>6, <1>7, <1>8, FreeMonthLists
<1>10. date \notin DOMAIN rows
  BY <1>2, <1>3 DEF RowsIn
<1>11. Found(date) = v
  BY <1>2, <1>3, <1>6, <1>7, <1>10 DEF Found, ProjectedConfigurationAt, TermsOn
<1> QED
  BY <1>1, <1>2, <1>4, <1>9, <1>10, <1>11

LEMMA ListedIsScheduled ==
    ASSUME CommitmentInv, ScheduleInv, NEW month \in Calendar, NEW date \in Listed(month),
           date \notin DOMAIN rows
    PROVE  /\ Found(date) \in DOMAIN series.versions
           /\ DateOf(Found(date), month) = date
           /\ Schedules(Found(date), date)
<1>1. PICK v : v = Found(date)
  OBVIOUS
<1>2. date \in MayBeListed(month) /\ ~ AfterCutoff(date)
  BY ListedIs
<1>3. /\ date \in Nat /\ MonthOf(date) = month /\ RowsIn(month) = {}
      /\ v \in DueVersions(month) /\ DateOf(v, month) = date
  BY <1>1, <1>2, DatesOfAMonth
<1>4. v \in DOMAIN series.versions /\ IsDue(v, month)
  BY <1>3 DEF DueVersions
<1>5. date < space.cutoff
  BY <1>2, <1>3, CutoffIsADay DEF AfterCutoff
<1>6. month \in Nat
  BY DEF Calendar
<1> QED
  BY <1>1, <1>3, <1>4, <1>5, <1>6, SchedulesIs

\* The screen looks beyond today.
LEMMA HorizonIs ==
    ASSUME CommitmentInv, DatesInv, NEW v \in DOMAIN series.versions
    PROVE  /\ Horizon(v) \in Nat /\ IsMonth(MonthOf(Horizon(v)))
           /\ today < Horizon(v)
<1>1. PICK version : version = series.versions[v]
  OBVIOUS
<1>2. PICK days : days = {today, version.rule.starts, version.from} \cup DOMAIN rows
  OBVIOUS
<1>3. \A day \in days : IsDay(day)
  <2>1. IsDay(today) /\ IsDay(version.rule.starts) /\ IsDay(version.from)
    BY <1>1, TypesOfState, TermsOfVersion, CalendarAssumption
  <2> QED
    BY <1>2, <2>1 DEF DatesInv
<1>4. PICK last : last = Max(days)
  OBVIOUS
<1>5. last \in days /\ last >= today
  <2>1. NoEnd \in Nat
    BY SMT DEF NoEnd
  <2>2. days \in SUBSET (0 .. NoEnd) /\ today \in days
    BY <1>2, <1>3, <2>1 DEF IsDay
  <2> QED
    BY <1>4, <2>1, <2>2, MaxIsGreatest
<1>6. PICK month, n : month = MonthOf(last) /\ n = IF version.rule.month = 0 THEN 1 ELSE 12
  OBVIOUS
<1>7. IsMonth(month) /\ last \in Nat /\ last % 100 \in 1 .. 31 /\ n \in 1 .. 12 /\ today \in Nat
  <2>1. today \in days
    BY <1>2
  <2> QED
    BY <1>3, <1>5, <1>6, <2>1, MonthsAreNumbers DEF IsDay, IsMonth
<1>8. PICK next : next = MonthAfter(month, n)
  OBVIOUS
<1>9. Rank(month) \in Nat \ {0} /\ IsMonth(next) /\ Rank(next) = Rank(month) + n
  BY <1>7, <1>8, MonthsInOrder, MonthAfterIs
<1>10. month < next /\ next \in Nat /\ month \in Nat
  <2>1. ~ (Rank(next) <= Rank(month))
    BY <1>7, <1>9
  <2> QED
    BY <1>7, <1>9, <2>1, MonthsInOrder DEF IsMonth
<1>11. Horizon(v) = ScheduledDate(next, last % 100)
  BY <1>1, <1>2, <1>4, <1>6, <1>8 DEF Horizon, PeriodAfter
<1>12. /\ Horizon(v) \in Nat /\ MonthOf(Horizon(v)) = next
       /\ \E k \in 1 .. DaysIn(next) : Horizon(v) = 100 * next + k
  <2>1. PICK day \in 1 .. 31 : day = last % 100
    BY <1>7
  <2>2. Horizon(v) = ScheduledDate(next, day)
    BY <1>11, <2>1
  <2> QED
    BY <1>10, <2>2, ScheduledInMonth
<1>13. PICK k \in 1 .. 31 : Horizon(v) = 100 * next + k
  BY <1>10, <1>12, DaysOfMonth
<1>14. last = 100 * month + (last % 100)
  BY <1>6, <1>7 DEF MonthOf
<1>15. last < Horizon(v)
  BY <1>7, <1>10, <1>13, <1>14
<1> QED
  BY <1>5, <1>7, <1>9, <1>12, <1>15
-----------------------------------------------------------------------------
(***************************************************************************)
(* The items of the screen.                                                *)
(***************************************************************************)
ItemOn(date) ==
    IF date \in DOMAIN rows THEN MaterializedItem(date) ELSE ScheduledItem(Found(date), date)

\* An item for what is listed on its date, with what is left of that.
IsListedItem(item) ==
    /\ item.on \in Nat /\ MonthOf(item.on) \in Calendar
    /\ item.on \in Listed(MonthOf(item.on))
    /\ item.on >= series.versions[1].from
    /\ item = ItemOn(item.on)
    /\ item.remaining = OccurrenceView(item.on).remaining /\ item.remaining # 0

LEMMA ScheduledItemIs ==
    ASSUME CommitmentInv, ScheduleInv, OneIsDue, NEW v \in DOMAIN series.versions,
           NEW month, IsMonth(month), Schedules(v, DateOf(v, month))
    PROVE  IsListedItem(ScheduledItem(v, DateOf(v, month)))
<1>1. PICK date, version : date = DateOf(v, month) /\ version = series.versions[v]
  OBVIOUS
<1>2. PICK item : item = ScheduledItem(v, date)
  OBVIOUS
<1>3. /\ month \in Calendar /\ date \in Listed(month) /\ date \notin DOMAIN rows
      /\ date \in Nat /\ MonthOf(date) = month /\ Found(date) = v
  BY <1>1, ScheduledIsListed
<1>4. PICK amount : amount = IF version.mode = "VARIABLE" THEN Unknown ELSE version.amount
  OBVIOUS
<1>5. item = [on |-> date, amount |-> amount, remaining |-> amount]
  BY <1>1, <1>2, <1>4 DEF ScheduledItem
<1>6. PICK row : row = Shown(date)
  OBVIOUS
<1>7. row.amount = amount /\ row.facts = <<>>
  <2>1. row = Projected(v, version)
    BY <1>1, <1>3, <1>6 DEF Shown, ProjectedUnder
  <2>2. version.mode \in {"FIXED", "VARIABLE"}
    BY <1>1, TermsOfVersion
  <2> QED
    BY <1>1, <1>4, <2>1, <2>2 DEF Projected
<1>8. amount \in Int /\ amount # 0
  BY <1>1, <1>4, TermsOfVersion DEF Unknown
<1>9. Fulfilled(row) = 0
  BY <1>7, FulfilledIs, ValidOfNone
<1>10. OccurrenceView(date).remaining = amount
  <2>1. OccurrenceView(date).remaining
            = IF row.amount = Unknown THEN Unknown ELSE row.amount - Fulfilled(row)
    BY <1>6 DEF OccurrenceView, ViewOf, Remaining
  <2> QED
    BY <1>7, <1>8, <1>9, <2>1
<1>11. date >= series.versions[1].from
  <2>1. date >= Max({version.rule.starts, version.from})
    BY <1>1 DEF Schedules
  <2>2. /\ version.rule.starts \in Int /\ version.from \in Int
        /\ series.versions[1].from <= version.from /\ series.versions[1].from \in Nat
    BY <1>1, TermsOfVersion, FirstComesFirst DEF IsDay
  <2>3. Max({version.rule.starts, version.from}) >= version.from
    BY <2>2, GreaterOfTwo
  <2>4. Max({version.rule.starts, version.from}) \in Int
    BY <2>2, GreaterOfTwo
  <2> QED
    BY <1>3, <2>1, <2>2, <2>3, <2>4
<1>12. item = ItemOn(date)
  BY <1>2, <1>3 DEF ItemOn
<1> QED
  BY <1>1, <1>2, <1>3, <1>5, <1>8, <1>10, <1>11, <1>12 DEF IsListedItem

\* What a row that is not cancelled has left.
LEMMA LeftOfRow ==
    ASSUME CommitmentInv, ScheduleInv, NEW date \in DOMAIN rows,
           rows[date].status # "CANCELLED"
    PROVE  /\ MaterializedItem(date).remaining = Remaining(rows[date])
           /\ OccurrenceView(date).remaining = Remaining(rows[date])
           /\ Remaining(rows[date]) \in Nat
           /\ rows[date].amount # Unknown
<1>1. PICK row : row = rows[date]
  OBVIOUS
<1>2. row.amount # Unknown
  BY <1>1 DEF ScheduleInv, UnvaluedAreCancelled
<1>3. row \in Rows /\ CanBeRead(row)
  BY <1>1 DEF CommitmentInv, RowsAreSound, IsKeptRow, IsKept
<1>4. Fulfilled(row) \in Int /\ row.amount \in Int
  BY <1>3, RowsHaveMoney DEF Rows, Amounts, Unknown
<1>5. Fulfilled(row) <= row.amount
  BY <1>2, <1>3 DEF CanBeRead
<1>6. Remaining(row) \in Nat
  BY <1>4, <1>5 DEF Remaining
<1>7. OccurrenceView(date).remaining = Remaining(row)
  BY <1>1, <1>2 DEF OccurrenceView, ViewOf, Shown
<1> QED
  BY <1>1, <1>2, <1>6, <1>7 DEF MaterializedItem

LEMMA MaterializedItemIs ==
    ASSUME CommitmentInv, ScheduleInv, DatesInv, NEW item \in MaterializedItems
    PROVE  IsListedItem(item)
<1>1. PICK date \in DOMAIN rows :
          /\ item = MaterializedItem(date)
          /\ rows[item.on].status # "CANCELLED" /\ ~ AfterCutoff(item.on)
          /\ item.amount = Unknown \/ item.remaining > 0
  BY DEF MaterializedItems
<1>2. item.on = date /\ item.amount = rows[date].amount
  BY <1>1 DEF MaterializedItem
<1>3. /\ item.remaining = Remaining(rows[date]) /\ item.remaining # 0
      /\ OccurrenceView(date).remaining = Remaining(rows[date])
  BY <1>1, <1>2, LeftOfRow
<1>4. IsDay(date) /\ date >= series.versions[1].from
  BY DEF DatesInv
<1>5. PICK month : month = MonthOf(date)
  OBVIOUS
<1>6. month \in Calendar /\ date \in Nat /\ date \in RowsIn(month)
  BY <1>4, <1>5, DaysAreInTheCalendar DEF IsDay, RowsIn
<1>7. date \in MayBeListed(month)
  BY <1>6 DEF MayBeListed
<1>8. date \in Listed(month)
  BY <1>1, <1>2, <1>6, <1>7, ListedIs
<1>9. item = ItemOn(date)
  BY <1>1 DEF ItemOn
<1> QED
  BY <1>2, <1>3, <1>4, <1>5, <1>6, <1>8, <1>9 DEF IsListedItem

LEMMA ListedRowIsAnItem ==
    ASSUME CommitmentInv, ScheduleInv, NEW month \in Calendar, NEW date \in Listed(month),
           date \in DOMAIN rows, OccurrenceView(date).remaining # 0
    PROVE  MaterializedItem(date) \in MaterializedItems
<1>1. PICK item : item = MaterializedItem(date)
  OBVIOUS
<1>2. item.on = date
  BY <1>1 DEF MaterializedItem
<1>3. date \in MayBeListed(month) /\ ~ AfterCutoff(date)
      /\ (date \in RowsIn(month) => rows[date].status # "CANCELLED")
  BY ListedIs
<1>4. rows[date].status # "CANCELLED"
  BY <1>3, DatesOfAMonth
<1>5. item.remaining > 0
  BY <1>1, <1>4, LeftOfRow
<1> QED
  BY <1>1, <1>2, <1>3, <1>4, <1>5 DEF MaterializedItems

LEMMA ListedDateIsAnItem ==
    ASSUME CommitmentInv, ScheduleInv, DatesInv, NEW month \in Calendar,
           NEW date \in Listed(month), date \notin DOMAIN rows, date <= today
    PROVE  ScheduledItem(Found(date), date) \in ScheduledItems
<1>1. PICK v, version, from : /\ v = Found(date) /\ version = series.versions[v]
                              /\ from = Max({version.rule.starts, version.from})
  OBVIOUS
<1>2. v \in DOMAIN series.versions /\ DateOf(v, month) = date /\ Schedules(v, date)
  BY <1>1, ListedIsScheduled
<1>3. date \in Nat /\ MonthOf(date) = month /\ IsMonth(month)
  BY ListedIs, DatesOfAMonth DEF Calendar
<1>4. from \in Nat /\ IsMonth(MonthOf(from))
  <2>1. IsDay(version.rule.starts) /\ IsDay(version.from)
    BY <1>1, <1>2, TermsOfVersion
  <2>2. version.rule.starts \in Int /\ version.from \in Int
    BY <2>1 DEF IsDay
  <2>3. from = IF version.rule.starts >= version.from THEN version.rule.starts ELSE version.from
    BY <1>1, <2>2, GreaterOfTwo
  <2> QED
    BY <2>1, <2>3, MonthsAreNumbers DEF IsDay, IsMonth
<1>5. date >= from
  BY <1>1, <1>2 DEF Schedules
<1>6. Horizon(v) \in Nat /\ IsMonth(MonthOf(Horizon(v))) /\ today < Horizon(v)
  BY <1>2, HorizonIs
<1>7. date <= Horizon(v) /\ MonthOf(from) <= month /\ month <= MonthOf(Horizon(v))
  BY <1>3, <1>4, <1>5, <1>6, TypesOfState DEF MonthOf
<1>8. month \in MonthsBetween(MonthOf(from), MonthOf(Horizon(v)))
  BY <1>3, <1>4, <1>6, <1>7, MonthsBetweenAre
<1>9. date \in DatesIn(v, MonthsBetween(MonthOf(from), MonthOf(Horizon(v))))
  BY <1>2, <1>8 DEF DatesIn, DateOf
<1> QED
  BY <1>1, <1>2, <1>7, <1>9 DEF ScheduledItems

LEMMA ScheduledItemsAre ==
    ASSUME CommitmentInv, ScheduleInv, DatesInv, OneIsDue, NEW item \in ScheduledItems
    PROVE  IsListedItem(item)
<1>1. PICK v, from, date :
          /\ v \in DOMAIN series.versions
          /\ from = Max({series.versions[v].rule.starts, series.versions[v].from})
          /\ date \in DatesIn(v, MonthsBetween(MonthOf(from), MonthOf(Horizon(v))))
          /\ item = ScheduledItem(v, date)
  BY DEF ScheduledItems
<1>2. PICK month \in MonthsBetween(MonthOf(from), MonthOf(Horizon(v))) :
          date = DateOf(v, month) /\ Schedules(v, date)
  BY <1>1 DEF DatesIn, DateOf
<1>3. IsMonth(MonthOf(from))
  <2>1. IsDay(series.versions[v].rule.starts) /\ IsDay(series.versions[v].from)
    BY <1>1, TermsOfVersion
  <2>2. from \in {series.versions[v].rule.starts, series.versions[v].from}
    BY <1>1, <2>1, GreaterOfTwo DEF IsDay
  <2> QED
    BY <2>1, <2>2, MonthsAreNumbers DEF IsDay, IsMonth
<1>4. IsMonth(month)
  BY <1>1, <1>2, <1>3, HorizonIs, MonthsBetweenAre
<1> QED
  BY <1>1, <1>2, <1>4, ScheduledItemIs-----------------------------------------------------------------------------
(***************************************************************************)
(* The screen of the day and the listing.                                  *)
(***************************************************************************)
Items == ScheduledItems \cup MaterializedItems

ItemsOf(bucket) == {item \in Items : BucketOf(item.on) = bucket}

\* The older list looks a year back: no commitment is older.
YearIsEnough ==
    \A day \in Days, terms \in Created :
        MonthAfter(MonthOf(day), -12) <= MonthOf(terms.from)

LEMMA ItemsAreListed ==
    ASSUME CommitmentInv, ScheduleInv, DatesInv, OneIsDue, NEW item \in Items
    PROVE  IsListedItem(item)
BY ScheduledItemsAre, MaterializedItemIs DEF Items

LEMMA TodayIsADay ==
    ASSUME CommitmentInv
    PROVE  /\ IsDay(today) /\ today \in Nat /\ today \in Days
           /\ MonthOf(today) \in Calendar /\ IsMonth(MonthOf(today))
<1>1. today \in Days
  BY TypesOfState
<1>2. IsDay(today)
  BY <1>1, CalendarAssumption
<1> QED
  BY <1>1, <1>2, DaysAreInTheCalendar DEF IsDay, Calendar

\* The months of what is due by today.
LEMMA MonthsDue ==
    ASSUME CommitmentInv, ScheduleInv, NEW month
    PROVE  month \in MonthsBetween(MonthOf(series.versions[1].from), MonthOf(today))
               <=> /\ month \in Calendar
                   /\ MonthOf(series.versions[1].from) <= month /\ month <= MonthOf(today)
<1>1. PICK from, to : from = MonthOf(series.versions[1].from) /\ to = MonthOf(today)
  OBVIOUS
<1>2. IsMonth(from)
  BY <1>1, FirstComesFirst, TermsOfVersion, MonthsAreNumbers DEF IsDay, IsMonth
<1>3. IsMonth(to) /\ to \in Calendar
  BY <1>1, TodayIsADay
<1>4. month \in MonthsBetween(from, to) <=> IsMonth(month) /\ from <= month /\ month <= to
  BY <1>2, <1>3, MonthsBetweenAre
<1>5. IsMonth(month) /\ month <= to => month \in Calendar
  <2> SUFFICES ASSUME IsMonth(month), month <= to
               PROVE  month \in Calendar
    OBVIOUS
  <2>1. NoEnd \in Nat
    BY SMT DEF NoEnd
  <2>2. 100 * to + 31 < NoEnd /\ to \in Nat
    BY <1>3 DEF Calendar
  <2>3. month \in Nat /\ 100 * month + 31 < NoEnd
    BY <2>1, <2>2 DEF IsMonth
  <2> QED
    BY <2>3 DEF Calendar
<1> QED
  BY <1>1, <1>4, <1>5 DEF Calendar

LEMMA DueAreItems ==
    ASSUME CommitmentInv, ScheduleInv, DatesInv, NEW date \in DueByToday
    PROVE  /\ ItemOn(date) \in Items /\ ItemOn(date).on = date
           /\ date \in Nat /\ date <= today
<1>1. PICK month \in MonthsBetween(MonthOf(series.versions[1].from), MonthOf(today)) :
          date \in Listed(month) /\ date <= today /\ OccurrenceView(date).remaining # 0
  BY DEF DueByToday
<1>2. month \in Calendar
  BY <1>1, MonthsDue
<1>3. date \in Nat
  BY <1>1, <1>2, ListedIs, DatesOfAMonth
<1>4. ItemOn(date) \in Items
  <2>1. CASE date \in DOMAIN rows
    BY <1>1, <1>2, <2>1, ListedRowIsAnItem DEF ItemOn, Items
  <2>2. CASE date \notin DOMAIN rows
    BY <1>1, <1>2, <2>2, ListedDateIsAnItem DEF ItemOn, Items
  <2> QED
    BY <2>1, <2>2
<1>5. ItemOn(date).on = date
  BY DEF ItemOn, MaterializedItem, ScheduledItem
<1> QED
  BY <1>1, <1>3, <1>4, <1>5

LEMMA ItemsAreDue ==
    ASSUME CommitmentInv, ScheduleInv, DatesInv, OneIsDue, NEW item \in Items,
           item.on <= today
    PROVE  item.on \in DueByToday
<1>1. PICK date, month : date = item.on /\ month = MonthOf(date)
  OBVIOUS
<1>2. /\ date \in Nat /\ month \in Calendar /\ date \in Listed(month)
      /\ date >= series.versions[1].from
      /\ OccurrenceView(date).remaining # 0
  BY <1>1, ItemsAreListed DEF IsListedItem
<1>3. series.versions[1].from \in Nat /\ today \in Nat
  BY FirstComesFirst, TodayIsADay
<1>4. MonthOf(series.versions[1].from) <= month /\ month <= MonthOf(today)
  BY <1>1, <1>2, <1>3 DEF MonthOf
<1>5. month \in MonthsBetween(MonthOf(series.versions[1].from), MonthOf(today))
  BY <1>2, <1>4, MonthsDue
<1> QED
  BY <1>1, <1>2, <1>5 DEF DueByToday

LEMMA FirstOfItems ==
    ASSUME NEW items, items # {}, \A item \in items : item.on \in Nat
    PROVE  /\ FirstOf(items) \in items
           /\ \A item \in items : FirstOf(items).on <= item.on
<1>1. PICK dates : dates = {item.on : item \in items}
  OBVIOUS
<1>2. dates \in SUBSET Nat /\ dates # {}
  BY <1>1
<1>3. PICK date \in dates : \A other \in dates : date <= other
  BY <1>2, LeastNatural
<1>4. PICK item \in items : item.on = date
  BY <1>1
<1>5. \A other \in items : item.on <= other.on
  BY <1>1, <1>3, <1>4
<1> QED
  BY <1>5 DEF FirstOf

LEMMA TodayItemIs ==
    ASSUME CommitmentInv, ScheduleInv, DatesInv, OneIsDue, NEW bucket
    PROVE  /\ ItemsOf(bucket) = {} => TodayItem(bucket) = NoItem
           /\ ItemsOf(bucket) # {} =>
                  /\ TodayItem(bucket) \in ItemsOf(bucket)
                  /\ \A item \in ItemsOf(bucket) : TodayItem(bucket).on <= item.on
<1>1. TodayItem(bucket) = FirstOf(ItemsOf(bucket))
  BY DEF TodayItem, ItemsOf, Items
<1>2. ItemsOf(bucket) = {} => TodayItem(bucket) = NoItem
  BY <1>1 DEF FirstOf
<1>3. \A item \in ItemsOf(bucket) : item.on \in Nat
  BY ItemsAreListed DEF ItemsOf, IsListedItem
<1> QED
  BY <1>1, <1>2, <1>3, FirstOfItems
\* A bucket of the past or of today shows the first date that is due in it.
LEMMA BucketsAreDue ==
    ASSUME CommitmentInv, ScheduleInv, DatesInv, OneIsDue, NEW bucket \in {"OVERDUE", "TODAY"}
    PROVE  TodayItem(bucket).on = FirstDate({date \in DueByToday : BucketOf(date) = bucket})
<1>1. PICK dates : dates = {date \in DueByToday : BucketOf(date) = bucket}
  OBVIOUS
<1>2. \A date \in dates : ItemOn(date) \in ItemsOf(bucket) /\ ItemOn(date).on = date /\ date \in Nat
  BY <1>1, DueAreItems DEF ItemsOf
<1>3. \A item \in ItemsOf(bucket) : item.on \in dates
  <2> SUFFICES ASSUME NEW item \in ItemsOf(bucket)
               PROVE  item.on \in dates
    OBVIOUS
  <2>1. item \in Items /\ BucketOf(item.on) = bucket
    BY DEF ItemsOf
  <2>2. item.on \in Nat /\ today \in Nat
    BY <2>1, ItemsAreListed, TodayIsADay DEF IsListedItem
  <2>3. item.on <= today
    BY <2>1, <2>2 DEF BucketOf
  <2> QED
    BY <1>1, <2>1, <2>3, ItemsAreDue
<1>4. CASE dates = {}
  <2>1. TodayItem(bucket) = NoItem
    BY <1>3, <1>4, TodayItemIs
  <2> QED
    BY <1>1, <1>4, <2>1 DEF FirstDate, NoItem
<1>5. CASE dates # {}
  <2>1. PICK first : first = TodayItem(bucket)
    OBVIOUS
  <2>2. first \in ItemsOf(bucket) /\ \A item \in ItemsOf(bucket) : first.on <= item.on
    BY <1>2, <1>5, <2>1, TodayItemIs
  <2>3. Min(dates) \in dates /\ \A date \in dates : Min(dates) <= date
    BY <1>2, <1>5, LeastIsMin
  <2>4. first.on \in dates /\ \A date \in dates : first.on <= date
    BY <1>2, <1>3, <2>2
  <2>5. first.on \in Nat /\ Min(dates) \in Nat
    BY <1>2, <2>3, <2>4
  <2>6. first.on = Min(dates)
    BY <2>3, <2>4, <2>5
  <2> QED
    BY <1>1, <1>5, <2>1, <2>6 DEF FirstDate
<1> QED
  BY <1>4, <1>5

MonthsAround == {MonthAfter(MonthOf(today), n) : n \in -12 .. 13}

Planned ==
    MaterializedItems \cup
        UNION {{ScheduledItem(v, date) : date \in DatesIn(v, MonthsAround)} :
                   v \in DOMAIN series.versions}

\* What is planned until today is on the screen of the day.
LEMMA PlannedAreItems ==
    ASSUME CommitmentInv, ScheduleInv, DatesInv, OneIsDue, NEW item \in Planned
    PROVE  IsListedItem(item) /\ (item.on <= today => item \in Items)
<1>1. CASE item \in MaterializedItems
  BY <1>1, MaterializedItemIs DEF Items
<1>2. CASE item \notin MaterializedItems
  <2>1. PICK v, date :
            /\ v \in DOMAIN series.versions
            /\ date \in DatesIn(v, MonthsAround) /\ item = ScheduledItem(v, date)
    BY <1>2 DEF Planned
  <2>2. PICK n, month : /\ n \in -12 .. 13 /\ month = MonthAfter(MonthOf(today), n)
                        /\ date = DateOf(v, month) /\ Schedules(v, date)
    BY <2>1 DEF DatesIn, DateOf, MonthsAround
  <2>3. month \in Int
    BY <2>2, TodayIsADay, MonthAfterIs
  <2>4. month >= 0
    <3>1. date = 100 * month + (IF series.versions[v].rule.day < DaysIn(month)
                                THEN series.versions[v].rule.day ELSE DaysIn(month))
      BY <2>2 DEF DateOf, ScheduledDate
    <3>2. date \in Int /\ date <= 100 * month + 31
      BY <2>1, <2>3, <3>1, DaysOfMonth, TermsOfVersion
    <3>3. date >= 0
      <4>1. PICK version : version = series.versions[v]
        OBVIOUS
      <4>2. version.rule.starts \in Nat /\ version.from \in Nat
        BY <2>1, <4>1, TermsOfVersion DEF IsDay
      <4>3. Max({version.rule.starts, version.from}) \in Nat
        BY <4>2, GreaterOfTwo
      <4>4. date >= Max({version.rule.starts, version.from})
        BY <2>2, <4>1 DEF Schedules
      <4> QED
        BY <3>2, <4>3, <4>4
    <3> QED
      BY <2>3, <3>2, <3>3
  <2>5. IsMonth(month)
    BY <2>2, <2>4, TodayIsADay, MonthAfterIs
  <2>6. IsListedItem(item)
    BY <2>1, <2>2, <2>5, ScheduledItemIs
  <2>7. /\ month \in Calendar /\ date \in Listed(month) /\ date \notin DOMAIN rows
        /\ Found(date) = v
    BY <2>1, <2>2, <2>5, ScheduledIsListed
  <2>8. item.on = date
    BY <2>1 DEF ScheduledItem
  <2>9. ASSUME date <= today
        PROVE  item \in Items
    BY <2>1, <2>7, <2>9, ListedDateIsAnItem DEF Items
  <2> QED
    BY <2>6, <2>8, <2>9
<1> QED
  BY <1>1, <1>2

\* What is on the screen until today is planned, of a commitment of the last year.
LEMMA ItemsArePlanned ==
    ASSUME CommitmentInv, ScheduleInv, DatesInv, OneIsDue, YearIsEnough,
           NEW item \in Items, item.on <= today
    PROVE  item \in Planned
<1>1. CASE item \in MaterializedItems
  BY <1>1 DEF Planned
<1>2. CASE item \notin MaterializedItems
  <2>1. PICK v, date, months :
            /\ v \in DOMAIN series.versions /\ date \in DatesIn(v, months)
            /\ item = ScheduledItem(v, date)
    BY <1>2 DEF Items, ScheduledItems
  <2>2. item.on = date
    BY <2>1 DEF ScheduledItem
  <2>3. PICK month : date = DateOf(v, month) /\ Schedules(v, date)
    BY <2>1 DEF DatesIn, DateOf
  <2>4. PICK now, listing : now = MonthOf(today) /\ listing = MonthOf(date)
    OBVIOUS
  <2>5. /\ date \in Nat /\ listing \in Calendar /\ date >= series.versions[1].from
        /\ item = ItemOn(date) /\ date \in Listed(listing)
    BY <2>2, <2>4, ItemsAreListed DEF IsListedItem
  <2>6. series.versions[1].from \in Nat /\ today \in Nat /\ IsMonth(now) /\ today \in Days
    BY <2>4, FirstComesFirst, TodayIsADay
  <2>7. listing <= now /\ MonthOf(series.versions[1].from) <= listing
    BY <2>2, <2>4, <2>5, <2>6 DEF MonthOf
  <2>8. MonthAfter(now, -12) <= MonthOf(series.versions[1].from)
    BY <2>4, <2>6 DEF YearIsEnough, DatesInv
  <2>9. IsMonth(listing) /\ MonthAfter(now, -12) <= listing
    <3>1. MonthAfter(now, -12) \in Int
      BY <2>6, MonthAfterIs
    <3>2. MonthOf(series.versions[1].from) \in Nat
      BY <2>6, MonthsAreNumbers
    <3> QED
      BY <2>5, <2>7, <2>8, <3>1, <3>2 DEF Calendar
  <2>10. listing \in MonthsAround
    BY <2>4, <2>6, <2>7, <2>9, MonthsOfAYear DEF MonthsAround
  <2>11. date \notin DOMAIN rows
    <3>1. RowsIn(listing) = {}
      BY <2>3, <2>4 DEF Schedules
    <3> QED
      BY <2>4, <3>1 DEF RowsIn
  <2>12. PICK w : w = Found(date)
    OBVIOUS
  <2>13. w \in DOMAIN series.versions /\ DateOf(w, listing) = date /\ Schedules(w, date)
    BY <2>5, <2>11, <2>12, ListedIsScheduled
  <2>14. date \in DatesIn(w, MonthsAround)
    BY <2>10, <2>13 DEF DatesIn, DateOf
  <2>15. item = ScheduledItem(w, date)
    BY <2>5, <2>11, <2>12 DEF ItemOn
  <2> QED
    BY <2>13, <2>14, <2>15 DEF Planned
<1> QED
  BY <1>1, <1>2
LEMMA PlannedIsShown ==
    ASSUME CommitmentInv, ScheduleInv, DatesInv, OneIsDue, YearIsEnough,
           PlannedItem # NoItem, ~ (PlannedItem.on > today)
    PROVE  \E bucket \in Buckets : PlannedItem = TodayItem(bucket)
<1>1. PICK item : item = PlannedItem
  OBVIOUS
<1>2. item = FirstOf(Planned)
  BY <1>1 DEF PlannedItem, Planned, MonthsAround
<1>3. Planned # {}
  BY <1>1, <1>2 DEF FirstOf
<1>4. \A other \in Planned : other.on \in Nat
  BY PlannedAreItems DEF IsListedItem
<1>5. item \in Planned /\ \A other \in Planned : item.on <= other.on
  BY <1>2, <1>3, <1>4, FirstOfItems
<1>6. item.on \in Nat /\ today \in Nat /\ item.on <= today
  BY <1>1, <1>4, <1>5, TodayIsADay
<1>7. item \in Items /\ IsListedItem(item)
  BY <1>5, <1>6, PlannedAreItems
<1>8. PICK bucket : bucket = BucketOf(item.on)
  OBVIOUS
<1>9. item \in ItemsOf(bucket)
  BY <1>7, <1>8 DEF ItemsOf
<1>10. PICK first : first = TodayItem(bucket)
  OBVIOUS
<1>11. first \in ItemsOf(bucket) /\ first.on <= item.on
  BY <1>9, <1>10, TodayItemIs
<1>12. first \in Items /\ IsListedItem(first) /\ first.on \in Nat
  BY <1>11, ItemsAreListed DEF ItemsOf, IsListedItem
<1>13. first.on <= today
  BY <1>6, <1>11, <1>12
<1>14. first \in Planned
  BY <1>12, <1>13, ItemsArePlanned
<1>15. first.on = item.on
  BY <1>5, <1>6, <1>11, <1>12, <1>14
<1>16. first = item
  BY <1>7, <1>12, <1>15 DEF IsListedItem
<1>17. bucket \in Buckets
  BY <1>8 DEF Buckets, BucketOf
<1> QED
  BY <1>1, <1>10, <1>16, <1>17

LEMMA TodayIsAsListed ==
    ASSUME CommitmentInv, ScheduleInv, DatesInv, OneIsDue, YearIsEnough
    PROVE  TodayIsListed
<1>1. PICK items : items = [bucket \in Buckets |-> TodayItem(bucket)]
  OBVIOUS
<1>2. \A bucket \in {"OVERDUE", "TODAY"} :
          items[bucket].on = FirstDate({date \in DueByToday : BucketOf(date) = bucket})
  <2> SUFFICES ASSUME NEW bucket \in {"OVERDUE", "TODAY"}
               PROVE  items[bucket].on
                          = FirstDate({date \in DueByToday : BucketOf(date) = bucket})
    OBVIOUS
  <2>1. items[bucket] = TodayItem(bucket)
    BY <1>1 DEF Buckets
  <2> QED
    BY <2>1, BucketsAreDue
<1>3. \A item \in {items[bucket] : bucket \in Buckets} \ {NoItem} :
          /\ item.on \in Listed(MonthOf(item.on))
          /\ item.remaining = OccurrenceView(item.on).remaining
  <2> SUFFICES ASSUME NEW bucket \in Buckets, TodayItem(bucket) # NoItem
               PROVE  IsListedItem(TodayItem(bucket))
    BY <1>1 DEF IsListedItem
  <2>1. TodayItem(bucket) \in ItemsOf(bucket)
    BY TodayItemIs
  <2> QED
    BY <2>1, ItemsAreListed DEF ItemsOf
<1>4. \A item \in {PlannedItem} \ {NoItem} :
          item \in {items[bucket] : bucket \in Buckets} \/ item.on > today
  BY <1>1, PlannedIsShown
<1> QED
  BY <1>1, <1>2, <1>3, <1>4 DEF TodayIsListed

\* Whenever no two versions are due in one month, what the screens show of a recurring
\* commitment agrees: the listing with the projection, the totals with the occurrences,
\* the next occurrence with the months, what is listed with what can be paid, and the
\* screen of the day with what the listing has as due.
THEOREM SeriesIsShownAsListed ==
    ASSUME SearchIsEnough, YearIsEnough
    PROVE  Spec => [](OneIsDue => SeriesIsShown)
<1>1. CommitmentInv /\ ScheduleInv /\ DatesInv /\ OneIsDue => SeriesIsShown
  BY ListingIsProjected, TotalsAreEqual, NextIsFirstListed, ListedIsPaid, OriginsAreWhole,
     TodayIsAsListed
  DEF SeriesIsShown
<1> QED
  BY <1>1, DatesAreSound, PTL
\* Terms that never move the day of the month.
DayIsKept == \A terms, other \in Agreed : terms.rule.day = other.rule.day

\* Two versions are not due on the same day.
LEMMA OneOfADay ==
    ASSUME CommitmentInv, ScheduleInv, NEW month \in Calendar,
           NEW v \in DueVersions(month), NEW w \in DueVersions(month),
           DateOf(v, month) = DateOf(w, month)
    PROVE  v = w
<1>1. PICK s, n : s = series.versions /\ n = Len(s)
  OBVIOUS
<1>2. s \in Seq(Agreed) /\ n \in Nat /\ v \in 1 .. n /\ w \in 1 .. n
  BY <1>1, TypesOfState DEF DueVersions
<1>3. \A i \in 1 .. n : s[i].from \in Nat
  <2>1. \A i \in 1 .. n : s[i] \in Agreed
    BY <1>1, <1>2
  <2> QED
    BY <2>1, FromsAreNumbers
<1>4. PICK date : date = DateOf(v, month) /\ date \in Nat
  BY <1>1, <1>2, DatesOfMonth DEF CommitmentInv
<1>5. ASSUME NEW i \in 1 .. n, NEW j \in 1 .. n, i < j,
             i \in DueVersions(month), j \in DueVersions(month),
             DateOf(i, month) = date, DateOf(j, month) = date
      PROVE  FALSE
  <2>1. PICK next : next = i + 1
    OBVIOUS
  <2>2. next \in 1 .. n /\ (next = j \/ next < j) /\ i < n
    BY <1>2, <1>5, <2>1
  <2>3. date < s[next].from /\ s[j].from <= date
    BY <1>1, <1>5, <2>1, <2>2 DEF DueVersions, IsDue, InEffect
  <2>4. next < j => s[next].from < s[j].from
    BY <1>1, <1>2, <2>2 DEF ScheduleInv, VersionsAscend
  <2>5. s[next].from \in Nat /\ s[j].from \in Nat
    BY <1>3, <2>2
  <2> QED
    BY <1>4, <2>2, <2>3, <2>4, <2>5
<1>6. v < w \/ w < v \/ v = w
  BY <1>2
<1> QED
  BY <1>2, <1>4, <1>5, <1>6

LEMMA OneDayIsOneDue ==
    ASSUME CommitmentInv, ScheduleInv, DayIsKept
    PROVE  OneIsDue
<1> SUFFICES ASSUME NEW month \in Calendar, NEW v \in DueVersions(month),
                    NEW w \in DueVersions(month)
             PROVE  v = w
  BY DEF OneIsDue
<1>1. PICK s : s = series.versions
  OBVIOUS
<1>2. s[v] \in Agreed /\ s[w] \in Agreed
  BY <1>1, TypesOfState DEF DueVersions
<1>3. s[v].rule.day = s[w].rule.day
  BY <1>2 DEF DayIsKept
<1>4. DateOf(v, month) = DateOf(w, month)
  BY <1>1, <1>3 DEF DateOf
<1> QED
  BY <1>4, OneOfADay

\* A commitment whose terms never move the day of the month is shown alike on all screens.
THEOREM SeriesOfOneDay ==
    ASSUME SearchIsEnough, YearIsEnough, DayIsKept
    PROVE  Spec => []SeriesIsShown
<1>1. CommitmentInv /\ ScheduleInv => OneIsDue
  BY OneDayIsOneDue
<1> QED
  BY <1>1, ScheduleIsSound, SeriesIsShownAsListed, PTL

-----------------------------------------------------------------------------
(***************************************************************************)
(* The steps that change a series.                                         *)
(***************************************************************************)
\* An open space has no cutoff.
CutoffInv == space.status = "ACTIVE" => space.cutoff = NoEnd

LEMMA StepsOfSeries ==
    ASSUME CommitmentInv, [Next]_vars
    PROVE  /\ space' = space \/ OnSpace(Cutoffs)
           /\ \/ series'.versions = series.versions /\ series'.ends = series.ends
              \/ OnSpace(Cutoffs)
              \/ \E view, c : c \in Configurations /\ ChangeVersion(view, c)
              \/ \E view, endsOn : endsOn \in Endings /\ Terminate(view, endsOn)
<1>1. series \in Statement
  BY TypesOfState
<1>2. CASE OnCommitment(Months, Kinds, MaxAmount, MaxFacts)
  <2>1. CASE ChangesOccurrence
    <3>1. PICK view, row, n : RowBecomes(view, row, n)
      BY <2>1 DEF ChangesOccurrence
    <3> QED
      BY <1>1, <3>1 DEF RowBecomes, Write, Statement
  <2>2. CASE \E date \in Dates(Months) : Look(date)
    BY <2>2 DEF Look
  <2> QED
    BY <1>2, <2>1, <2>2, CommitmentCommands
<1>3. ASSUME NEW view \in Fresh(Months), OnSeries(view, Configurations, Endings)
      PROVE  /\ space' = space
             /\ \/ \E c : c \in Configurations /\ ChangeVersion(view, c)
                \/ \E endsOn : endsOn \in Endings /\ Terminate(view, endsOn)
  BY <1>3 DEF OnSeries, ChangeVersion, Terminate, ChangesSeries
<1>4. CASE NextDay \/ UNCHANGED vars
  BY <1>4 DEF NextDay, vars
<1> QED
  BY <1>2, <1>3, <1>4 DEF Next

LEMMA CutoffStep ==
    ASSUME CommitmentInv, CutoffInv, [Next]_vars
    PROVE  CutoffInv'
<1>1. space \in Spaces
  BY TypesOfState
<1>2. CASE space' = space
  BY <1>2 DEF CutoffInv
<1>3. CASE OnSpace(Cutoffs)
  <2>1. CASE StartClosure
    BY <1>1, <2>1 DEF StartClosure, SpaceChanges, Spaces, CutoffInv
  <2>2. CASE CancelClosure
    BY <1>1, <2>2 DEF CancelClosure, SpaceChanges, Spaces, CutoffInv
  <2>3. CASE \E cutoff \in Cutoffs : ApprovePlan(cutoff)
    <3>1. PICK cutoff \in Cutoffs : ApprovePlan(cutoff)
      BY <2>3
    <3>2. space'.status = "CLOSING"
      BY <1>1, <3>1 DEF ApprovePlan, SpaceChanges, Spaces
    <3> QED
      BY <3>2 DEF CutoffInv
  <2> QED
    BY <1>3, <2>1, <2>2, <2>3 DEF OnSpace
<1> QED
  BY <1>2, <1>3, StepsOfSeries

\* The eve of a day comes before it.
LEMMA EveIsBefore ==
    ASSUME NEW date, IsDay(date)
    PROVE  DayBefore(date) \in Int /\ DayBefore(date) < date
<1>1. PICK month, eve : month = MonthOf(date) /\ eve = MonthAfter(month, -1)
  OBVIOUS
<1>2. date \in Nat /\ IsMonth(month) /\ date >= 100 * month + 1
  BY <1>1, MonthsAreNumbers DEF IsDay, IsMonth, MonthOf
<1>3. eve \in Int /\ (eve >= 0 => IsMonth(eve) /\ Rank(eve) = Rank(month) + (-1))
  BY <1>1, <1>2, MonthAfterIs
<1>4. eve < month
  <2>1. CASE eve >= 0
    <3>1. ~ (Rank(month) <= Rank(eve))
      BY <1>2, <1>3, <2>1, MonthsInOrder
    <3> QED
      BY <1>2, <1>3, <2>1, <3>1, MonthsInOrder DEF IsMonth
  <2>2. CASE ~ (eve >= 0)
    BY <1>2, <1>3, <2>2 DEF IsMonth
  <2> QED
    BY <2>1, <2>2
<1>5. PICK days : days = DaysIn(eve)
  OBVIOUS
<1>6. days \in 28 .. 31
  BY <1>3, <1>5, DaysOfMonth
<1>7. DayBefore(date) = IF date % 100 > 1 THEN date - 1 ELSE 100 * eve + days
  BY <1>1, <1>5 DEF DayBefore
<1>8. 100 * eve + days < 100 * month + 1
  BY <1>2, <1>3, <1>4, <1>6 DEF IsMonth
<1> QED
  BY <1>2, <1>3, <1>6, <1>7, <1>8 DEF IsMonth

\* What a series is before its terms or its end are changed.
LEMMA OpenIs ==
    ASSUME CommitmentInv, ScheduleInv, CutoffInv, NEW view, ChangesSeries(view)
    PROVE  /\ space.effect = NoEffect /\ space.cutoff = NoEnd /\ series.ends = NoEnd
           /\ space.effect.cutoff = NoEnd /\ NoEnd \in Nat
           /\ rows' = rows /\ space' = space
<1>1. Root.terminatedOn = NoEnd
  BY DEF ChangesSeries
<1>2. NoEnd \in Nat /\ series.ends \in Int
  BY CutoffIsADay
<1>3. space.effect = NoEffect
  <2> SUFFICES ASSUME space.effect # NoEffect
               PROVE  FALSE
    OBVIOUS
  <2>1. PICK cutoff \in Cutoffs : cutoff = space.effect.cutoff
    BY DEF ScheduleInv, EffectIsAgreed
  <2>2. PICK eve : eve = DayBefore(cutoff)
    OBVIOUS
  <2>3. eve \in Int /\ eve < NoEnd
    BY <1>2, <2>2, EveIsBefore, CalendarAssumption DEF IsDay
  <2>4. Root.terminatedOn = Min({series.ends, eve})
    BY <2>1, <2>2 DEF Root
  <2>5. Root.terminatedOn = IF series.ends <= eve THEN series.ends ELSE eve
    BY <1>2, <2>3, <2>4, SmallerOfTwo
  <2> QED
    BY <1>1, <1>2, <2>3, <2>5
<1>4. series.ends = NoEnd
  BY <1>1, <1>3 DEF Root
<1>5. space.effect.cutoff = NoEnd
  BY <1>3 DEF NoEffect
<1> QED
  BY <1>2, <1>3, <1>4, <1>5 DEF ChangesSeries, CutoffInv

-----------------------------------------------------------------------------
(***************************************************************************)
(* What the months list and project, before a step and after it.           *)
(***************************************************************************)
IsProjected(month) ==
    LET p == Projection(Root, month)
    IN  IF DueVersions(month) = {} THEN p = NoProjection
        ELSE /\ p.terms \in DueVersions(month) /\ p.on = DateOf(p.terms, month)
             /\ \A v \in DueVersions(month) : p.on <= DateOf(v, month)
             /\ p.on \in Nat \ {0} /\ MonthOf(p.on) = month

IsListing(month) ==
    IF RowsIn(month) = {} THEN
        Listed(month) = {date \in {Projection(Root, month).on} : date # NoDate
                                                                 /\ date < space.cutoff}
    ELSE Listed(month) = {date \in RowsIn(month) : /\ rows[date].status # "CANCELLED"
                                                   /\ ~ AfterCutoff(date)}

MonthsAgree == \A month \in Calendar : IsProjected(month) /\ IsListing(month)

LEMMA MonthsAreAgreed == CommitmentInv /\ ScheduleInv => MonthsAgree
<1> SUFFICES ASSUME CommitmentInv, ScheduleInv, NEW month \in Calendar
             PROVE  IsProjected(month) /\ IsListing(month)
  BY DEF MonthsAgree
<1>1. IsProjected(month)
  <2>1. CASE DueVersions(month) = {}
    BY <2>1, ProjectionIsFirst DEF IsProjected
  <2>2. CASE DueVersions(month) # {}
    <3>1. PICK p : p = Projection(Root, month)
      OBVIOUS
    <3>2. /\ p.terms \in DueVersions(month) /\ p.on = DateOf(p.terms, month)
          /\ \A v \in DueVersions(month) : p.on <= DateOf(v, month)
      BY <2>2, <3>1, ProjectionIsFirst
    <3>3. p.on \in Nat \ {0} /\ MonthOf(p.on) = month
      BY <3>2, DatesOfMonth DEF DueVersions, CommitmentInv
    <3> QED
      BY <2>2, <3>1, <3>2, <3>3 DEF IsProjected
  <2> QED
    BY <2>1, <2>2
<1>2. IsListing(month)
  <2>1. CASE RowsIn(month) = {}
    BY <2>1, FreeMonthLists DEF IsListing
  <2>2. CASE RowsIn(month) # {}
    BY <2>2, ListedIs DEF IsListing, MayBeListed
  <2> QED
    BY <2>1, <2>2
<1> QED
  BY <1>1, <1>2

LEMMA MonthsAgreeNext == CommitmentInv' /\ ScheduleInv' => MonthsAgree'
BY MonthsAreAgreed, PTL

-----------------------------------------------------------------------------
(***************************************************************************)
(* What a termination leaves.                                              *)
(***************************************************************************)
LEMMA TerminationLeaves ==
    ASSUME CommitmentInv, ScheduleInv, DatesInv, CutoffInv, CommitmentInv', ScheduleInv',
           NEW view, NEW endsOn \in Endings, Terminate(view, endsOn)
    PROVE  TerminatesAsPreviewed
<1>1. /\ space.effect = NoEffect /\ space.effect.cutoff = NoEnd /\ space.cutoff = NoEnd
      /\ NoEnd \in Nat /\ rows' = rows /\ space' = space
  BY OpenIs DEF Terminate
<1>2. series'.ends = endsOn
  BY TypesOfState DEF Terminate, Terminated, Statement
<1> SUFFICES ASSUME NEW month \in Months, NEW date
             PROVE  date \in Listed(month)' /\ date > endsOn
                        <=> /\ date \in DOMAIN rows /\ date > endsOn
                            /\ MonthOf(date) = month /\ rows[date].status # "CANCELLED"
  BY <1>2 DEF TerminatesAsPreviewed, TerminationPreview
<1>3. month \in Calendar /\ endsOn \in Int
  BY MonthsAreMonths, RecurringAssumption
<1>4. (IsProjected(month) /\ IsListing(month))'
  BY <1>3, MonthsAgreeNext DEF MonthsAgree
<1>5. RowsIn(month)' = RowsIn(month)
  BY <1>1 DEF RowsIn
<1>6. CASE RowsIn(month) = {}
  <2>1. ASSUME date \in Listed(month)'
        PROVE  date <= endsOn
    <3>1. date = Projection(Root, month)'.on /\ date # NoDate
      BY <1>4, <1>5, <1>6, <2>1 DEF IsListing
    <3>2. DueVersions(month)' # {}
      BY <1>4, <3>1 DEF IsProjected, NoProjection
    <3>3. \E v \in DueVersions(month)' : date = DateOf(v, month)'
      BY <1>4, <3>1, <3>2 DEF IsProjected
    <3> QED
      BY <1>2, <3>3 DEF DueVersions, IsDue
  <2>2. date \in Listed(month)' => date \in Int
    <3> SUFFICES ASSUME date \in Listed(month)'
                 PROVE  date \in Int
      OBVIOUS
    <3>1. date = Projection(Root, month)'.on /\ date # NoDate
      BY <1>4, <1>5, <1>6 DEF IsListing
    <3> QED
      BY <1>4, <3>1 DEF IsProjected, NoProjection
  <2>3. ~ (date \in DOMAIN rows /\ MonthOf(date) = month)
    BY <1>6 DEF RowsIn
  <2> QED
    BY <1>3, <2>1, <2>2, <2>3
<1>7. CASE RowsIn(month) # {}
  <2>1. Listed(month)' = {d \in RowsIn(month) : /\ rows[d].status # "CANCELLED"
                                                /\ ~ AfterCutoff(d)'}
    BY <1>1, <1>4, <1>5, <1>7 DEF IsListing
  <2>2. \A d \in RowsIn(month) : ~ AfterCutoff(d)'
    <3> SUFFICES ASSUME NEW d \in RowsIn(month)
                 PROVE  ~ AfterCutoff(d)'
      OBVIOUS
    <3>1. d \in Nat /\ d < NoEnd
      BY DEF RowsIn, DatesInv, IsDay
    <3> QED
      BY <1>1, <3>1 DEF AfterCutoff
  <2> QED
    BY <2>1, <2>2 DEF RowsIn
<1> QED
  BY <1>6, <1>7
-----------------------------------------------------------------------------
(***************************************************************************)
(* What a change of the terms does.                                        *)
(***************************************************************************)
MonthsFrom(day) == {MonthAfter(MonthOf(day), n) : n \in 0 .. Window - 1}

\* The months that are shown do not go beyond those that a change is judged on.
WindowIsEnough ==
    \A terms \in Configurations :
        /\ MonthsFrom(terms.from) \subseteq Calendar
        /\ \A month \in Months : month >= MonthOf(terms.from) => month \in MonthsFrom(terms.from)

\* All terms are those of the members, of whom there is at most one but the actor.
TwoMembers ==
    /\ \A terms \in Agreed : DOMAIN terms.shares = Members
    /\ \A m, other \in Members \ {Actor} : m = other

\* The series becomes the one whose projections are previewed.
LEMMA ChangeIs ==
    ASSUME CommitmentInv, ScheduleInv, CutoffInv, NEW view, NEW c \in Configurations,
           ChangeVersion(view, c)
    PROVE  LET s == series.versions
               n == Len(s)
           IN  /\ s \in Seq(Agreed) /\ n \in Nat \ {0} /\ c \in Agreed
               /\ c.from > today /\ c.from > s[n].from
               /\ series'.versions = Append(s, c) /\ series'.ends = NoEnd
               /\ Len(series'.versions) = n + 1 /\ series'.versions[n + 1] = c
               /\ DOMAIN series'.versions = 1 .. n + 1
               /\ \A v \in 1 .. n : series'.versions[v] = s[v] /\ s[v] \in Agreed
               /\ Root' = WithCandidate(c)
<1>1. PICK s, n : s = series.versions /\ n = Len(s)
  OBVIOUS
<1>2. s \in Seq(Agreed) /\ n \in Nat \ {0} /\ c \in Agreed
  BY <1>1, TypesOfState DEF Agreed
<1>3. /\ space.effect = NoEffect /\ series.ends = NoEnd
      /\ rows' = rows /\ space' = space
  BY OpenIs DEF ChangeVersion
<1>4. series' = [version |-> series.version + 1, versions |-> Append(s, c), ends |-> NoEnd]
  BY <1>1, <1>3, TypesOfState DEF ChangeVersion, WithVersion, Statement
<1>5. PICK t : t = Append(s, c)
  OBVIOUS
<1>6. /\ Len(t) = n + 1 /\ t[n + 1] = c /\ DOMAIN t = 1 .. n + 1
      /\ \A v \in 1 .. n : t[v] = s[v] /\ s[v] \in Agreed
  BY <1>1, <1>2, <1>5
<1>7. Root' = WithCandidate(c)
  BY <1>1, <1>3, <1>4 DEF Root, WithCandidate
<1>8. c.from > today /\ c.from > s[n].from
  BY <1>1 DEF ChangeVersion
<1> QED
  BY <1>1, <1>2, <1>4, <1>5, <1>6, <1>7, <1>8

\* What is due before the change takes effect stays due, and nothing else of the earlier
\* versions; after it only the last version was due.
LEMMA DueAfterChange ==
    ASSUME CommitmentInv, ScheduleInv, CutoffInv, NEW view, NEW c \in Configurations,
           ChangeVersion(view, c), NEW month \in Calendar
    PROVE  LET n == Len(series.versions)
           IN  /\ \A v \in DueVersions(month) :
                      /\ v \in 1 .. n /\ DateOf(v, month)' = DateOf(v, month)
                      /\ DateOf(v, month) < c.from => v \in DueVersions(month)'
                      /\ ~ (DateOf(v, month) < c.from) => v = n
               /\ \A v \in DueVersions(month)' :
                      \/ v = n + 1 /\ DateOf(v, month)' >= c.from
                      \/ v \in DueVersions(month) /\ DateOf(v, month)' < c.from
<1>1. PICK s, n, t : s = series.versions /\ n = Len(s) /\ t = series'.versions
  OBVIOUS
<1>2. /\ s \in Seq(Agreed) /\ n \in Nat \ {0} /\ c \in Agreed /\ DOMAIN s = 1 .. n
      /\ c.from > s[n].from
      /\ Len(t) = n + 1 /\ t[n + 1] = c /\ DOMAIN t = 1 .. n + 1
      /\ \A v \in 1 .. n : t[v] = s[v] /\ s[v] \in Agreed
      /\ series'.ends = NoEnd /\ series.ends = NoEnd
  BY <1>1, ChangeIs, OpenIs DEF ChangeVersion
<1>3. \A v \in 1 .. n + 1 : t[v].from \in Nat
  BY <1>2, FromsAreNumbers
<1>4. \A v, w \in 1 .. n : v < w => s[v].from < s[w].from
  BY <1>1, <1>2 DEF ScheduleInv, VersionsAscend
<1>5. \A v \in 1 .. n : s[v].from < c.from /\ s[v].from \in Nat /\ c.from \in Nat
  <2> SUFFICES ASSUME NEW v \in 1 .. n
               PROVE  s[v].from < c.from /\ s[v].from \in Nat /\ c.from \in Nat
    OBVIOUS
  <2>1. v = n \/ v < n
    BY <1>2
  <2>2. s[v].from \in Nat /\ s[n].from \in Nat /\ c.from \in Nat
    BY <1>2, <1>3
  <2> QED
    BY <1>2, <1>4, <2>1, <2>2
<1>6. space' = space
  BY OpenIs DEF ChangeVersion
<1>7. \A v \in 1 .. n : DateOf(v, month)' = DateOf(v, month) /\ DateOf(v, month) \in Nat
  <2> SUFFICES ASSUME NEW v \in 1 .. n
               PROVE  DateOf(v, month)' = DateOf(v, month) /\ DateOf(v, month) \in Nat
    OBVIOUS
  <2>1. DateOf(v, month) \in Nat
    BY <1>1, <1>2, DatesOfMonth DEF CommitmentInv
  <2> QED
    BY <1>1, <1>2, <2>1 DEF DateOf
<1>8. ASSUME NEW v \in 1 .. n
      PROVE  InEffect(v, DateOf(v, month))'
                 <=> InEffect(v, DateOf(v, month)) /\ DateOf(v, month) < c.from
  <2>1. PICK d : d = DateOf(v, month) /\ d = DateOf(v, month)' /\ d \in Nat
    BY <1>7
  <2>2. InEffect(v, d) <=> s[v].from <= d /\ (v < n => d < s[v + 1].from)
    BY <1>1 DEF InEffect
  <2>3. InEffect(v, DateOf(v, month))' <=> s[v].from <= d /\ d < t[v + 1].from
    BY <1>1, <1>2, <2>1 DEF InEffect
  <2>4. CASE v = n
    BY <1>2, <2>1, <2>2, <2>3, <2>4
  <2>5. CASE v < n
    <3>1. v + 1 \in 1 .. n
      BY <1>2, <2>5
    <3>2. t[v + 1] = s[v + 1] /\ s[v + 1].from < c.from
          /\ s[v + 1].from \in Nat /\ c.from \in Nat
      BY <1>2, <1>5, <3>1
    <3> QED
      BY <2>1, <2>2, <2>3, <2>5, <3>2
  <2> QED
    BY <1>2, <2>4, <2>5
<1>9. \A v \in 1 .. n : v \in DueVersions(month)'
                            <=> v \in DueVersions(month) /\ DateOf(v, month) < c.from
  <2> SUFFICES ASSUME NEW v \in 1 .. n
               PROVE  v \in DueVersions(month)'
                          <=> v \in DueVersions(month) /\ DateOf(v, month) < c.from
    OBVIOUS
  <2>1. InRule(v, month)' <=> InRule(v, month)
    BY <1>1, <1>2, <1>7 DEF InRule
  <2>2. v \in DOMAIN series.versions /\ v \in DOMAIN series'.versions
    BY <1>1, <1>2
  <2> QED
    BY <1>2, <1>6, <1>7, <1>8, <2>1, <2>2 DEF DueVersions, IsDue
<1>10. \A v \in DueVersions(month) : v \in 1 .. n
  BY <1>1, <1>2 DEF DueVersions
<1>11. ASSUME NEW v \in DueVersions(month), ~ (DateOf(v, month) < c.from)
       PROVE  v = n
  <2> SUFFICES ASSUME v # n
               PROVE  FALSE
    OBVIOUS
  <2>1. v < n /\ v + 1 \in 1 .. n
    BY <1>2, <1>10
  <2>2. DateOf(v, month) < s[v + 1].from
    BY <1>1, <2>1 DEF DueVersions, IsDue, InEffect
  <2> QED
    BY <1>5, <1>7, <1>10, <1>11, <2>1, <2>2
<1>12. ASSUME NEW v \in DueVersions(month)', v \notin 1 .. n
       PROVE  v = n + 1 /\ DateOf(v, month)' >= c.from
  <2>1. v = n + 1
    BY <1>1, <1>2, <1>12 DEF DueVersions
  <2>2. t[v].from <= DateOf(v, month)'
    BY <1>1 DEF DueVersions, IsDue, InEffect
  <2> QED
    BY <1>2, <2>1, <2>2
<1> QED
  BY <1>1, <1>7, <1>9, <1>10, <1>11, <1>12
\* What a change projects, in the months without a row that it is judged on.
LEMMA ProjectedAfterChange ==
    ASSUME CommitmentInv, ScheduleInv, CutoffInv, CommitmentInv', ScheduleInv',
           WindowIsEnough, NEW view, NEW c \in Configurations, ChangeVersion(view, c),
           NEW p
    PROVE  p \in Projections(WithCandidate(c), c.from)
               <=> \E month \in MonthsFrom(c.from) :
                       /\ RowsIn(month) = {} /\ p = Projection(Root', month)
                       /\ p.on >= c.from /\ p.on # NoDate /\ p.on \in Nat
                       /\ MonthOf(p.on) = month
<1>1. Root' = WithCandidate(c)
  BY ChangeIs
<1>2. PICK free : free = MonthsFrom(c.from) \ {MonthOf(date) : date \in DOMAIN rows}
  OBVIOUS
<1>3. p \in Projections(WithCandidate(c), c.from)
          <=> \E month \in free : p = Projection(Root', month) /\ p.on >= c.from
  BY <1>1, <1>2 DEF Projections, MonthsFrom
<1>4. \A month \in MonthsFrom(c.from) : month \in free <=> RowsIn(month) = {}
  BY <1>2 DEF RowsIn
<1>5. c.from \in Nat \ {0}
  <2>1. IsDay(c.from)
    BY CalendarAssumption
  <2>2. MonthOf(0) % 100 = 0
    BY DEF MonthOf
  <2> QED
    BY <2>1, <2>2 DEF IsDay
<1>6. ASSUME NEW month \in MonthsFrom(c.from), Projection(Root', month).on >= c.from
      PROVE  LET on == Projection(Root', month).on
             IN  on # NoDate /\ on \in Nat /\ MonthOf(on) = month
  <2>1. IsProjected(month)'
    BY MonthsAgreeNext DEF MonthsAgree, WindowIsEnough
  <2>2. Projection(Root, month)' = Projection(Root', month)
    OBVIOUS
  <2>3. Projection(Root', month) # NoProjection
    BY <1>5, <1>6 DEF NoProjection, NoDate
  <2> QED
    BY <1>5, <1>6, <2>1, <2>2, <2>3 DEF IsProjected, NoDate
<1> QED
  BY <1>2, <1>3, <1>4, <1>6

\* The same, of what was projected before.
LEMMA ProjectedBeforeChange ==
    ASSUME CommitmentInv, ScheduleInv, WindowIsEnough, NEW c \in Configurations, NEW p
    PROVE  p \in Projections(Root, c.from)
               <=> \E month \in MonthsFrom(c.from) :
                       /\ RowsIn(month) = {} /\ p = Projection(Root, month)
                       /\ p.on >= c.from /\ p.on # NoDate /\ p.on \in Nat
                       /\ MonthOf(p.on) = month
<1>1. PICK free : free = MonthsFrom(c.from) \ {MonthOf(date) : date \in DOMAIN rows}
  OBVIOUS
<1>2. p \in Projections(Root, c.from)
          <=> \E month \in free : p = Projection(Root, month) /\ p.on >= c.from
  BY <1>1 DEF Projections, MonthsFrom
<1>3. \A month \in MonthsFrom(c.from) : month \in free <=> RowsIn(month) = {}
  BY <1>1 DEF RowsIn
<1>4. c.from \in Nat \ {0}
  <2>1. IsDay(c.from)
    BY CalendarAssumption
  <2>2. MonthOf(0) % 100 = 0
    BY DEF MonthOf
  <2> QED
    BY <2>1, <2>2 DEF IsDay
<1>5. ASSUME NEW month \in MonthsFrom(c.from), Projection(Root, month).on >= c.from
      PROVE  LET on == Projection(Root, month).on
             IN  on # NoDate /\ on \in Nat /\ MonthOf(on) = month
  <2>1. IsProjected(month)
    BY MonthsAreAgreed DEF MonthsAgree, WindowIsEnough
  <2>2. Projection(Root, month) # NoProjection
    BY <1>4, <1>5 DEF NoProjection, NoDate
  <2> QED
    BY <1>4, <1>5, <2>1, <2>2 DEF IsProjected, NoDate
<1> QED
  BY <1>1, <1>2, <1>3, <1>5

\* The dates that a change was said to bring, and to leave, are those that are listed.
LEMMA ChangeLists ==
    ASSUME CommitmentInv, ScheduleInv, DatesInv, CutoffInv, CommitmentInv', ScheduleInv',
           WindowIsEnough, NEW view, NEW c \in Configurations, ChangeVersion(view, c),
           NEW month \in Months, NEW date
    PROVE  date \in Listed(month)' /\ date >= c.from
               <=> /\ date \in ChangeImpact(c).proposed \cup ChangeImpact(c).preserved
                   /\ MonthOf(date) = month
                   /\ date \in DOMAIN rows => rows[date].status # "CANCELLED"
<1>1. /\ space.effect = NoEffect /\ space.effect.cutoff = NoEnd /\ space.cutoff = NoEnd
      /\ NoEnd \in Nat /\ rows' = rows /\ space' = space
  BY OpenIs DEF ChangeVersion
<1>2. month \in Calendar /\ c.from \in Nat
  BY MonthsAreMonths, CalendarAssumption DEF IsDay
<1>3. (IsProjected(month) /\ IsListing(month))'
  BY <1>2, MonthsAgreeNext DEF MonthsAgree
<1>4. RowsIn(month)' = RowsIn(month)
  BY <1>1 DEF RowsIn
<1>5. date \in ChangeImpact(c).preserved <=> date \in DOMAIN rows /\ date >= c.from
  BY DEF ChangeImpact
<1>6. date \in ChangeImpact(c).proposed
          <=> \E m \in MonthsFrom(c.from) :
                  /\ RowsIn(m) = {} /\ date = Projection(Root', m).on
                  /\ date >= c.from /\ date # NoDate /\ date \in Nat /\ MonthOf(date) = m
  <2>1. date \in ChangeImpact(c).proposed
            <=> \E p \in Projections(WithCandidate(c), c.from) : date = p.on
    BY DEF ChangeImpact
  <2> QED
    BY <2>1, ProjectedAfterChange
<1>7. CASE RowsIn(month) = {}
  <2>1. date \in Listed(month)' <=> /\ date = Projection(Root', month).on
                                    /\ date # NoDate /\ date < NoEnd
    BY <1>1, <1>3, <1>4, <1>7 DEF IsListing
  <2>2. ~ (date \in DOMAIN rows /\ MonthOf(date) = month)
    BY <1>7 DEF RowsIn
  <2>3. ASSUME date = Projection(Root', month).on, date # NoDate
        PROVE  /\ date \in Nat /\ MonthOf(date) = month /\ date < NoEnd
               /\ date >= c.from => month \in MonthsFrom(c.from)
    <3>1. Projection(Root, month)' = Projection(Root', month)
      OBVIOUS
    <3>2. date \in Nat /\ MonthOf(date) = month
      BY <1>3, <2>3, <3>1 DEF IsProjected, NoProjection
    <3>3. \E v \in DueVersions(month)' : date = DateOf(v, month)'
      BY <1>3, <2>3, <3>1 DEF IsProjected, NoProjection
    <3>4. date < NoEnd
      BY <1>1, <3>3 DEF DueVersions, IsDue
    <3>5. date >= c.from => month >= MonthOf(c.from)
      BY <1>2, <3>2 DEF MonthOf
    <3> QED
      BY <3>2, <3>4, <3>5 DEF WindowIsEnough
  <2> QED
    BY <1>5, <1>6, <1>7, <2>1, <2>2, <2>3
<1>8. CASE RowsIn(month) # {}
  <2>1. Listed(month)' = {d \in RowsIn(month) : /\ rows[d].status # "CANCELLED"
                                                /\ ~ AfterCutoff(d)'}
    BY <1>1, <1>3, <1>4, <1>8 DEF IsListing
  <2>2. \A d \in RowsIn(month) : ~ AfterCutoff(d)'
    <3> SUFFICES ASSUME NEW d \in RowsIn(month)
                 PROVE  ~ AfterCutoff(d)'
      OBVIOUS
    <3>1. d \in Nat /\ d < NoEnd
      BY DEF RowsIn, DatesInv, IsDay
    <3> QED
      BY <1>1, <3>1 DEF AfterCutoff
  <2>3. date \in Listed(month)'
            <=> date \in DOMAIN rows /\ MonthOf(date) = month /\ rows[date].status # "CANCELLED"
    BY <2>1, <2>2 DEF RowsIn
  <2> QED
    BY <1>5, <1>6, <1>8, <2>3
<1> QED
  BY <1>7, <1>8
-----------------------------------------------------------------------------
(***************************************************************************)
(* What the members bear of a month.                                       *)
(***************************************************************************)
LEMMA SumOfTwo ==
    ASSUME NEW a, NEW b, a # b, NEW f, DOMAIN f = {a, b}, f[a] \in Int, f[b] \in Int
    PROVE  SumOf(f) = f[a] + f[b]
<1>1. IsFiniteSet({a, b}) /\ IsFiniteSet({b})
  <2>1. IsFiniteSet({a}) /\ IsFiniteSet({b})
    BY FS_Singleton
  <2>2. IsFiniteSet({a} \cup {b})
    BY <2>1, FS_AddElement
  <2>3. {a, b} = {a} \cup {b}
    OBVIOUS
  <2> QED
    BY <2>1, <2>2, <2>3
<1>2. SumFunctionOnSet(f, {a, b}) = f[a] + SumFunctionOnSet(f, {b})
  <2>1. {a, b} \ {a} = {b}
    OBVIOUS
  <2> QED
    BY <1>1, <2>1, SumOfOthers
<1>3. SumFunctionOnSet(f, {b}) = f[b] + SumFunctionOnSet(f, {})
  <2>1. {b} \ {b} = {}
    OBVIOUS
  <2> QED
    BY <1>1, <2>1, SumOfOthers
<1>4. SumFunctionOnSet(f, {}) = 0
  BY SumOfNone
<1> QED
  BY <1>2, <1>3, <1>4 DEF SumOf, SumFunction

\* The basis points of a whole.
Whole == 10000

LEMMA BasisPoints ==
    ASSUME NEW x \in Nat
    PROVE  /\ x \div Whole \in Nat /\ x % Whole \in Nat /\ x % Whole < Whole
           /\ x = Whole * (x \div Whole) + (x % Whole)
BY DEF Whole

LEMMA RealizedIs ==
    ASSUME NEW w, SumOf(w) # 0, NEW b \in DOMAIN w, NEW amount
    PROVE  LET rest(o) == (amount * w[o]) % SumOf(w)
               part(o) == (amount * w[o]) \div SumOf(w)
           IN  Realized(w, amount)[b] =
                   part(b) + IF Cardinality({o \in DOMAIN w : \/ rest(o) > rest(b)
                                                              \/ rest(o) = rest(b) /\ o < b})
                                < amount - SumOf([o \in DOMAIN w |-> part(o)])
                             THEN 1 ELSE 0
BY Zenon DEF Realized

\* The part p of b, whose remainder is r, and the part q of a, whose remainder is t.
PartBeside(p, q, r, t, a, b, amount) ==
    p + IF (IF t > r \/ (t = r /\ a < b) THEN 1 ELSE 0) < amount - (q + p) THEN 1 ELSE 0

\* The nearest to x basis points; a half goes to the member with the smaller id.
Nearest(x, a, b) ==
    (x \div Whole)
    + IF 2 * (x % Whole) > Whole \/ (2 * (x % Whole) = Whole /\ b < a) THEN 1 ELSE 0

\* What is left of two parts goes to the one with the larger remainder.
LEMMA PartsOfTwo ==
    ASSUME NEW a \in Int, NEW b \in Int, a # b, NEW w, DOMAIN w = {a, b},
           w[a] \in Nat, w[b] \in Nat, SumOf(w) = Whole, NEW amount \in Nat
    PROVE  Realized(w, amount)[b] =
               PartBeside((amount * w[b]) \div Whole, (amount * w[a]) \div Whole,
                          (amount * w[b]) % Whole, (amount * w[a]) % Whole, a, b, amount)
<1>0. PICK x, y : x = amount * w[b] /\ y = amount * w[a] /\ x \in Nat /\ y \in Nat
  OBVIOUS
<1> PICK p, q, r, t : /\ (amount * w[b]) \div Whole = p /\ (amount * w[b]) % Whole = r
                      /\ (amount * w[a]) \div Whole = q /\ (amount * w[a]) % Whole = t
                      /\ p \in Int /\ q \in Int /\ r \in Int
  <2>1. x \div Whole \in Nat /\ x % Whole \in Nat /\ y \div Whole \in Nat
    BY <1>0, BasisPoints, Zenon
  <2>2. x \div Whole \in Int /\ x % Whole \in Int /\ y \div Whole \in Int
    BY <2>1
  <2> QED
    BY <1>0, <2>2, Zenon
<1> DEFINE before == {o \in {a, b} : \/ (amount * w[o]) % Whole > r
                                     \/ (amount * w[o]) % Whole = r /\ o < b}
           parts  == [o \in {a, b} |-> (amount * w[o]) \div Whole]
<1>1. b \in DOMAIN w /\ SumOf(w) # 0
  BY DEF Whole
<1>2. Realized(w, amount)[b] = p + IF Cardinality(before) < amount - SumOf(parts)
                                   THEN 1 ELSE 0
  BY <1>1, RealizedIs, Zenon
<1>3. SumOf(parts) = q + p
  <2>1. DOMAIN parts = {a, b} /\ parts[a] = q /\ parts[b] = p
    BY Zenon
  <2>2. parts[a] \in Int /\ parts[b] \in Int
    BY <2>1, Zenon
  <2>3. SumOf(parts) = parts[a] + parts[b]
    BY <2>1, <2>2, SumOfTwo, Zenon
  <2> QED
    BY <2>1, <2>3, Zenon
<1>4. Cardinality(before) = IF t > r \/ (t = r /\ a < b) THEN 1 ELSE 0
  <2>1. a \in before <=> t > r \/ (t = r /\ a < b)
    BY Zenon
  <2>2. b \notin before
    <3>1. ~ (r > r) /\ ~ (b < b)
      OBVIOUS
    <3> QED
      BY <3>1, Zenon
  <2>3. before \subseteq {a, b}
    BY Zenon
  <2> HIDE DEF before
  <2>4. Cardinality({a}) = 1 /\ Cardinality({}) = 0
    BY FS_Singleton, FS_EmptySet, Zenon
  <2>5. CASE a \in before
    <3>1. before = {a}
      BY <2>2, <2>3, <2>5, Zenon
    <3> QED
      BY <2>1, <2>4, <2>5, <3>1, Zenon
  <2>6. CASE a \notin before
    <3>1. before = {}
      BY <2>2, <2>3, <2>6, Zenon
    <3> QED
      BY <2>1, <2>4, <2>6, <3>1, Zenon
  <2> QED
    BY <2>5, <2>6, Zenon
<1> HIDE DEF before, parts
<1> QED
  BY <1>2, <1>3, <1>4, Zenon DEF PartBeside

\* So each bears its part, rounded to the nearest.
LEMMA NearestPart ==
    ASSUME NEW a \in Int, NEW b \in Int, a # b, NEW w, DOMAIN w = {a, b},
           w[a] \in Nat, w[b] \in Nat, SumOf(w) = Whole, NEW amount \in Nat
    PROVE  /\ amount * w[b] \in Nat
           /\ Realized(w, amount)[b] = Nearest(amount * w[b], a, b)
<1>1. PICK x, y, k, l : x = amount * l /\ y = amount * k /\ k = w[a] /\ l = w[b]
  BY Zenon
<1>2. k + l = Whole /\ k \in Nat /\ l \in Nat /\ x = amount * l
  <2>1. SumOf(w) = w[a] + w[b]
    <3>1. w[a] \in Int /\ w[b] \in Int
      OBVIOUS
    <3> QED
      BY <3>1, SumOfTwo, Zenon
  <2> QED
    BY <1>1, <2>1, Zenon
<1>3. x \in Nat /\ y \in Nat /\ x + y = Whole * amount
  <2>1. amount * k \in Nat /\ amount * l \in Nat
    BY <1>2
  <2>2. amount * (k + l) = amount * k + amount * l
    BY <1>2
  <2>3. Whole \in Nat /\ amount * Whole = Whole * amount
    BY DEF Whole
  <2> QED
    BY <1>1, <1>2, <2>1, <2>2, <2>3
<1>4. PICK p, r, q, t : p = x \div Whole /\ r = x % Whole /\ q = y \div Whole /\ t = y % Whole
  BY Zenon
<1>5. /\ p \in Nat /\ q \in Nat /\ r \in Nat /\ r < Whole /\ t \in Nat /\ t < Whole
      /\ x = Whole * p + r /\ y = Whole * q + t
  BY <1>3, <1>4, BasisPoints, Zenon
<1>6. Realized(w, amount)[b] = PartBeside(p, q, r, t, a, b, amount)
  <2>1. /\ (amount * w[b]) \div Whole = p /\ (amount * w[b]) % Whole = r
        /\ (amount * w[a]) \div Whole = q /\ (amount * w[a]) % Whole = t
    BY <1>1, <1>2, <1>4, Zenon
  <2>2. Realized(w, amount)[b] =
            PartBeside((amount * w[b]) \div Whole, (amount * w[a]) \div Whole,
                       (amount * w[b]) % Whole, (amount * w[a]) % Whole, a, b, amount)
    BY PartsOfTwo, Zenon
  <2> QED
    BY <2>1, <2>2, Zenon
<1>7. PICK left : left = amount - (q + p)
  OBVIOUS
<1>8. r + t = Whole * left /\ left \in {0, 1}
  BY <1>3, <1>5, <1>7 DEF Whole
<1>9. (IF t > r \/ (t = r /\ a < b) THEN 1 ELSE 0) < left
          <=> 2 * r > Whole \/ (2 * r = Whole /\ b < a)
  <2>1. CASE left = 0
    BY <1>5, <1>8, <2>1 DEF Whole
  <2>2. CASE left = 1
    BY <1>5, <1>8, <2>2 DEF Whole
  <2> QED
    BY <1>8, <2>1, <2>2
<1>10. PartBeside(p, q, r, t, a, b, amount) = Nearest(x, a, b)
  BY <1>4, <1>7, <1>9, Zenon DEF PartBeside, Nearest
<1> QED
  BY <1>1, <1>3, <1>6, <1>10, Zenon

\* The member with the smaller share bears no more, and the one without a share nothing.
LEMMA SmallerPart ==
    ASSUME NEW a \in Int, NEW b \in Int, a # b, NEW w, DOMAIN w = {a, b},
           w[a] \in Nat, w[b] \in Nat, SumOf(w) = Whole,
           NEW u, DOMAIN u = {a, b}, u[a] \in Nat, u[b] \in Nat, SumOf(u) = Whole,
           u[b] <= w[b], NEW amount \in Nat
    PROVE  Realized(u, amount)[b] <= Realized(w, amount)[b]
<1>1. PICK x, y, k, l : x = amount * k /\ y = amount * l /\ k = w[b] /\ l = u[b]
  BY Zenon
<1>2. x \in Nat /\ y \in Nat /\ y <= x
  <2>1. PICK d : d = k - l
    OBVIOUS
  <2>2. d \in Nat /\ k \in Nat /\ l \in Nat /\ k = l + d
    BY <1>1, <2>1
  <2>3. amount * (l + d) = amount * l + amount * d
    BY <2>2
  <2>4. amount * d \in Nat /\ amount * l \in Nat
    BY <2>2
  <2> QED
    BY <1>1, <2>2, <2>3, <2>4
<1>3. PICK p, r, q, t : p = x \div Whole /\ r = x % Whole /\ q = y \div Whole /\ t = y % Whole
  BY Zenon
<1>4. /\ p \in Nat /\ q \in Nat /\ r \in Nat /\ r < Whole /\ t \in Nat /\ t < Whole
      /\ x = Whole * p + r /\ y = Whole * q + t
  BY <1>2, <1>3, BasisPoints, Zenon
<1>5. Realized(w, amount)[b] = Nearest(x, a, b) /\ Realized(u, amount)[b] = Nearest(y, a, b)
  BY <1>1, NearestPart, Zenon
<1>6. Nearest(x, a, b) = p + IF 2 * r > Whole \/ (2 * r = Whole /\ b < a) THEN 1 ELSE 0
  BY <1>3, Zenon DEF Nearest
<1>7. Nearest(y, a, b) = q + IF 2 * t > Whole \/ (2 * t = Whole /\ b < a) THEN 1 ELSE 0
  BY <1>3, Zenon DEF Nearest
<1>8. q < p \/ (q = p /\ t <= r)
  BY <1>2, <1>4 DEF Whole
<1> QED
  BY <1>4, <1>5, <1>6, <1>7, <1>8 DEF Whole

LEMMA NoPart ==
    ASSUME NEW a \in Int, NEW b \in Int, a # b, NEW w, DOMAIN w = {a, b},
           w[a] \in Nat, w[b] = 0, SumOf(w) = Whole, NEW amount \in Nat
    PROVE  Realized(w, amount)[b] = 0
<1>1. PICK x, share : x = amount * share /\ share = w[b]
  BY Zenon
<1>2. Realized(w, amount)[b] = Nearest(x, a, b)
  <2>1. share \in Nat
    BY <1>1
  <2> QED
    BY <1>1, <2>1, NearestPart, Zenon
<1>3. Nearest(x, a, b) = 0
  <2>1. x = 0
    BY <1>1
  <2> QED
    BY <2>1 DEF Nearest, Whole
<1> QED
  BY <1>2, <1>3

\* What is borne is not negative.
LEMMA SomePart ==
    ASSUME NEW a \in Int, NEW b \in Int, a # b, NEW w, DOMAIN w = {a, b},
           w[a] \in Nat, w[b] \in Nat, SumOf(w) = Whole, NEW amount \in Nat
    PROVE  Realized(w, amount)[b] \in Nat
<1>1. PICK x : x = amount * w[b]
  BY Zenon
<1>2. x \in Nat /\ Realized(w, amount)[b] = Nearest(x, a, b)
  BY <1>1, NearestPart, Zenon
<1>3. x \div Whole \in Nat
  BY <1>2, BasisPoints, Zenon
<1> QED
  BY <1>2, <1>3 DEF Nearest

\* The terms of two members.
LEMMA TermsOfTwo ==
    ASSUME TwoMembers, NEW terms \in Agreed, NEW m \in Members \ {Actor}
    PROVE  /\ DOMAIN terms.shares = {Actor, m} /\ Actor \in Int /\ m \in Int /\ Actor # m
           /\ terms.shares[Actor] \in Nat /\ terms.shares[m] \in Nat
           /\ terms.amount \in Nat \ {0} /\ terms.mode \in {"FIXED", "VARIABLE"}
           /\ terms.mode = "VARIABLE" => terms.split = "PERCENTAGES"
           /\ terms.split # "AMOUNTS" => SumOf(terms.shares) = Whole
<1>1. DOMAIN terms.shares = Members /\ Members \subseteq {Actor, m}
  BY DEF TwoMembers
<1>2. Actor \in Members
  <2>1. PICK other \in Created : m \in DOMAIN other.shares
    BY DEF Members
  <2> QED
    BY <2>1, ViewsAssumption DEF Members
<1>3. /\ ConfigurationIsValid(terms) /\ DOMAIN terms.shares \subseteq Int
      /\ \A other \in DOMAIN terms.shares : terms.shares[other] \in Nat
  BY CalendarAssumption DEF Agreed
<1>4. terms.amount \in Nat \ {0} /\ terms.mode \in {"FIXED", "VARIABLE"}
  BY RecurringAssumption DEF Agreed
<1> QED
  BY <1>1, <1>2, <1>3, <1>4 DEF ConfigurationIsValid, IsDistribution, Whole
\* What a member bears of an amount, in terms of two members.
LEMMA BearsOf ==
    ASSUME TwoMembers, NEW terms \in Agreed, NEW m \in Members \ {Actor}, NEW reading \in Nat
    PROVE  /\ EffectiveSplit(terms, reading)[m] \in Nat
           /\ terms.mode = "FIXED" =>
                  EffectiveSplit(terms, reading) = EffectiveSplit(terms, terms.amount)
           /\ terms.mode = "FIXED" => EffectiveSplit(terms, 0) = EffectiveSplit(terms, terms.amount)
           /\ terms.mode = "VARIABLE" =>
                  /\ EffectiveSplit(terms, reading) = Realized(terms.shares, reading)
                  /\ terms.split = "PERCENTAGES" /\ SumOf(terms.shares) = Whole
<1>1. /\ DOMAIN terms.shares = {Actor, m} /\ Actor \in Int /\ m \in Int /\ Actor # m
      /\ terms.shares[Actor] \in Nat /\ terms.shares[m] \in Nat
      /\ terms.amount \in Nat \ {0} /\ terms.mode \in {"FIXED", "VARIABLE"}
      /\ terms.mode = "VARIABLE" => terms.split = "PERCENTAGES"
      /\ terms.split # "AMOUNTS" => SumOf(terms.shares) = Whole
  BY TermsOfTwo
<1>2. PICK w : w = terms.shares
  OBVIOUS
<1>3. ASSUME SumOf(w) = Whole
      PROVE  \A amount \in Nat : Realized(w, amount)[m] \in Nat
  BY <1>1, <1>2, <1>3, SomePart, Zenon
<1>4. EffectiveSplit(terms, reading)[m] \in Nat
  <2>1. CASE terms.split = "AMOUNTS"
    BY <1>1, <2>1 DEF EffectiveSplit
  <2>2. CASE terms.split # "AMOUNTS"
    <3>1. PICK amount \in Nat : EffectiveSplit(terms, reading) = Realized(w, amount)
      BY <1>1, <1>2, <2>2 DEF EffectiveSplit
    <3> QED
      BY <1>1, <1>2, <1>3, <2>2, <3>1
  <2> QED
    BY <2>1, <2>2
<1> QED
  BY <1>1, <1>4 DEF EffectiveSplit

\* A member of whom the new terms do not ask more bears no more, whatever is read.
LEMMA NoMore ==
    ASSUME TwoMembers, NEW old \in Agreed, NEW new \in Agreed,
           NEW m \in Members \ {Actor}, NEW reading \in Nat,
           new.mode = "FIXED" =>
               EffectiveSplit(new, new.amount)[m]
                   <= IF old.mode = "FIXED" THEN EffectiveSplit(old, old.amount)[m] ELSE 0,
           new.mode = "VARIABLE" =>
               IF old.mode = "VARIABLE" THEN new.shares[m] <= old.shares[m]
               ELSE new.shares[m] = 0
    PROVE  EffectiveSplit(new, reading)[m] <= EffectiveSplit(old, reading)[m]
<1>1. PICK w, u : w = old.shares /\ u = new.shares
  OBVIOUS
<1>2. /\ DOMAIN w = {Actor, m} /\ Actor \in Int /\ m \in Int /\ Actor # m
      /\ w[Actor] \in Nat /\ w[m] \in Nat
      /\ DOMAIN u = {Actor, m} /\ u[Actor] \in Nat /\ u[m] \in Nat
      /\ old.mode \in {"FIXED", "VARIABLE"} /\ new.mode \in {"FIXED", "VARIABLE"}
  BY <1>1, TermsOfTwo
<1>3. EffectiveSplit(new, reading)[m] \in Nat /\ EffectiveSplit(old, reading)[m] \in Nat
  BY BearsOf
<1>4. CASE new.mode = "FIXED"
  <2>1. EffectiveSplit(new, reading) = EffectiveSplit(new, new.amount)
    BY <1>4, BearsOf
  <2>2. CASE old.mode = "FIXED"
    <3>1. EffectiveSplit(old, reading) = EffectiveSplit(old, old.amount)
      BY <2>2, BearsOf
    <3> QED
      BY <1>4, <2>1, <2>2, <3>1
  <2>3. CASE old.mode = "VARIABLE"
    BY <1>3, <1>4, <2>1, <2>3
  <2> QED
    BY <1>2, <2>2, <2>3
<1>5. CASE new.mode = "VARIABLE"
  <2>1. EffectiveSplit(new, reading) = Realized(u, reading) /\ SumOf(u) = Whole
    BY <1>1, <1>5, BearsOf
  <2>2. CASE old.mode = "FIXED"
    <3>1. u[m] = 0
      BY <1>1, <1>5, <2>2
    <3>2. /\ DOMAIN u = {Actor, m} /\ Actor \in Int /\ m \in Int /\ Actor # m
          /\ u[Actor] \in Nat
      BY <1>2
    <3>3. Realized(u, reading)[m] = 0
      BY <2>1, <3>1, <3>2, NoPart, Zenon
    <3> QED
      BY <1>3, <2>1, <3>3
  <2>3. CASE old.mode = "VARIABLE"
    <3>1. EffectiveSplit(old, reading) = Realized(w, reading) /\ SumOf(w) = Whole
      BY <1>1, <2>3, BearsOf
    <3>2. u[m] <= w[m]
      BY <1>1, <1>5, <2>3
    <3>3. Realized(u, reading)[m] <= Realized(w, reading)[m]
      BY <1>2, <2>1, <3>1, <3>2, SmallerPart, Zenon
    <3> QED
      BY <2>1, <3>1, <3>3
  <2> QED
    BY <1>2, <2>2, <2>3
<1> QED
  BY <1>2, <1>4, <1>5

\* A member of whom the new terms ask nothing bears nothing.
LEMMA Nothing ==
    ASSUME TwoMembers, NEW new \in Agreed, NEW m \in Members \ {Actor}, NEW reading \in Nat,
           new.mode = "FIXED" => EffectiveSplit(new, new.amount)[m] <= 0,
           new.mode = "VARIABLE" => new.shares[m] = 0
    PROVE  EffectiveSplit(new, reading)[m] <= 0
<1>1. PICK u : u = new.shares
  OBVIOUS
<1>2. /\ DOMAIN u = {Actor, m} /\ Actor \in Int /\ m \in Int /\ Actor # m
      /\ u[Actor] \in Nat /\ new.mode \in {"FIXED", "VARIABLE"}
  BY <1>1, TermsOfTwo
<1>3. CASE new.mode = "FIXED"
  BY <1>3, BearsOf
<1>4. CASE new.mode = "VARIABLE"
  <2>1. EffectiveSplit(new, reading) = Realized(u, reading) /\ SumOf(u) = Whole /\ u[m] = 0
    BY <1>1, <1>4, BearsOf
  <2>2. Realized(u, reading)[m] = 0
    BY <1>2, <2>1, NoPart, Zenon
  <2> QED
    BY <2>1, <2>2
<1> QED
  BY <1>2, <1>3, <1>4
LEMMA ProjectionsAreFinite ==
    ASSUME NEW root, NEW from
    PROVE  IsFiniteSet(Projections(root, from))
<1>1. PICK f : f = [k \in 0 .. Window - 1 |->
                        Projection(root, MonthAfter(MonthOf(from), k))]
  BY Zenon
<1>2. PICK T : T = {f[k] : k \in 0 .. Window - 1}
  BY Zenon
<1>3. f \in Surjection(0 .. Window - 1, T)
  BY <1>1, <1>2, Zenon DEF Surjection
<1>4. IsFiniteSet(0 .. Window - 1)
  <2>1. 0 \in Int /\ Window - 1 \in Int
    BY ViewsAssumption
  <2> QED
    BY <2>1, FS_Interval, Zenon
<1>5. IsFiniteSet(T)
  BY <1>3, <1>4, FS_Surjection, Zenon
<1>6. Projections(root, from) \subseteq T
  <2> SUFFICES ASSUME NEW p \in Projections(root, from)
               PROVE  p \in T
    OBVIOUS
  <2>1. PICK k \in 0 .. Window - 1 : p = Projection(root, MonthAfter(MonthOf(from), k))
    BY Zenon DEF Projections
  <2> QED
    BY <1>1, <1>2, <2>1, Zenon
<1> QED
  BY <1>5, <1>6, FS_Subset, Zenon

\* What a month without a row projects after a change: before its first day what was
\* projected, from there on the new terms, in the place of the last ones.
LEMMA ProjectedInMonth ==
    ASSUME CommitmentInv, ScheduleInv, CutoffInv, CommitmentInv', ScheduleInv',
           NEW view, NEW c \in Configurations, ChangeVersion(view, c), NEW month \in Calendar
    PROVE  LET n == Len(series.versions)
               p == Projection(Root, month)
               q == Projection(Root', month)
           IN  /\ p # NoProjection => p.on \in Nat \ {0} /\ p.terms \in 1 .. n
               /\ p # NoProjection /\ p.on >= c.from => p.terms = n
               /\ q # NoProjection => q.on \in Nat \ {0}
               /\ q # NoProjection /\ q.on < c.from => q.terms \in 1 .. n /\ p # NoProjection
                                                       /\ p.terms = q.terms
               /\ q # NoProjection /\ q.on >= c.from =>
                      /\ q.terms = n + 1
                      /\ p # NoProjection => p.terms = n /\ p.on >= c.from
<1>1. PICK n, p, q : /\ n = Len(series.versions)
                     /\ p = Projection(Root, month) /\ q = Projection(Root', month)
  OBVIOUS
<1>2. /\ n \in Nat /\ c.from \in Nat
      /\ \A v \in DueVersions(month) :
             /\ v \in 1 .. n /\ DateOf(v, month)' = DateOf(v, month)
             /\ DateOf(v, month) < c.from => v \in DueVersions(month)'
             /\ ~ (DateOf(v, month) < c.from) => v = n
      /\ \A v \in DueVersions(month)' :
             \/ v = n + 1 /\ DateOf(v, month)' >= c.from
             \/ v \in DueVersions(month) /\ DateOf(v, month)' < c.from
  <2>1. n \in Nat /\ c.from \in Nat
    BY <1>1, TypesOfState, CalendarAssumption DEF IsDay
  <2> QED
    BY <1>1, <2>1, DueAfterChange
<1>3. \/ DueVersions(month) = {} /\ p = NoProjection
      \/ /\ p # NoProjection /\ p.terms \in DueVersions(month) /\ p.on = DateOf(p.terms, month)
         /\ \A v \in DueVersions(month) : p.on <= DateOf(v, month)
         /\ p.on \in Nat \ {0}
  <2>1. IsProjected(month)
    BY MonthsAreAgreed DEF MonthsAgree
  <2> QED
    BY <1>1, <2>1 DEF IsProjected, NoProjection, NoDate
<1>4. \/ DueVersions(month)' = {} /\ q = NoProjection
      \/ /\ q # NoProjection /\ q.terms \in DueVersions(month)'
         /\ q.on = DateOf(q.terms, month)'
         /\ \A v \in DueVersions(month)' : q.on <= DateOf(v, month)'
         /\ q.on \in Nat \ {0}
  <2>1. IsProjected(month)'
    BY MonthsAgreeNext DEF MonthsAgree
  <2>2. Projection(Root, month)' = q
    BY <1>1
  <2> QED
    BY <2>1, <2>2 DEF IsProjected, NoProjection, NoDate
<1>5. p # NoProjection /\ p.on >= c.from => p.terms = n
  BY <1>2, <1>3
<1>6. ASSUME q # NoProjection, q.on < c.from
      PROVE  q.terms \in 1 .. n /\ p # NoProjection /\ p.terms = q.terms
  <2>1. q.terms \in DueVersions(month) /\ q.on = DateOf(q.terms, month) /\ q.terms \in 1 .. n
    BY <1>2, <1>4, <1>6
  <2>2. p # NoProjection /\ p.on <= q.on /\ p.terms \in DueVersions(month)
        /\ p.on = DateOf(p.terms, month)
    BY <1>3, <2>1
  <2>3. p.terms \in DueVersions(month)' /\ DateOf(p.terms, month)' = p.on
    BY <1>2, <1>3, <1>4, <1>6, <2>2
  <2>4. p.on = q.on
    BY <1>3, <1>4, <2>2, <2>3
  <2> QED
    BY <2>1, <2>2, <2>4, OneOfADay
<1>7. ASSUME q # NoProjection, q.on >= c.from
      PROVE  /\ q.terms = n + 1
             /\ p # NoProjection => p.terms = n /\ p.on >= c.from
  <2>1. q.terms = n + 1
    BY <1>2, <1>4, <1>7
  <2>2. ASSUME p # NoProjection, ~ (p.on >= c.from)
        PROVE  FALSE
    <3>1. p.terms \in DueVersions(month)' /\ DateOf(p.terms, month)' = p.on
      BY <1>2, <1>3, <2>2
    <3> QED
      BY <1>2, <1>3, <1>4, <1>7, <2>2, <3>1
  <2> QED
    BY <1>5, <2>1, <2>2
<1>8. p # NoProjection => p.on \in Nat \ {0} /\ p.terms \in 1 .. n
  BY <1>2, <1>3
<1>9. q # NoProjection => q.on \in Nat \ {0}
  BY <1>4
<1> QED
  BY <1>1, <1>5, <1>6, <1>7, <1>8, <1>9
\* What terms expose a member to.
ExposedTo(terms, m) ==
    [amount      |-> IF terms.mode = "FIXED" THEN EffectiveSplit(terms, terms.amount)[m] ELSE 0,
     numerator   |-> terms.shares[m],
     denominator |-> IF terms.split = "PERCENTAGES" THEN Whole ELSE terms.amount]

LEMMA ExposureOf ==
    ASSUME NEW versions, NEW P, NEW month, NEW m, NEW n \in Nat,
           \E p \in P : MonthOf(p.on) = month, \A q \in P : q.terms = n
    PROVE  Exposure(versions, P, month, m) = ExposedTo(versions[n], m)
<1>1. PICK terms : terms = {q.terms : q \in {r \in P : MonthOf(r.on) = month}}
  OBVIOUS
<1>2. terms = {n}
  BY <1>1
<1>3. Min(terms) = n /\ terms # {}
  BY <1>2, MinOfOne
<1> QED
  BY <1>1, <1>3 DEF Exposure, ExposedTo, Whole

LEMMA NoExposure ==
    ASSUME NEW versions, NEW P, NEW month, NEW m, \A q \in P : MonthOf(q.on) # month
    PROVE  Exposure(versions, P, month, m) = [amount |-> 0, numerator |-> 0, denominator |-> 1]
BY DEF Exposure

\* What projections weigh on a member whose variable terms they are.
LEMMA NoWeight ==
    ASSUME NEW versions, NEW P, IsFiniteSet(P), NEW m,
           \A p \in P : versions[p.terms].mode # "VARIABLE"
    PROVE  VariableWeight(versions, P, m) = 0
<1>1. PICK f : f = [p \in P |-> IF versions[p.terms].mode = "VARIABLE"
                                THEN versions[p.terms].shares[m] ELSE 0]
  BY Zenon
<1>2. \A p \in P : f[p] \in {0}
  BY <1>1
<1>3. SumFunctionOnSet(f, P) \in {0}
  <2>1. {0} \in SUBSET Int /\ 0 \in {0} /\ \A a, b \in {0} : a + b \in {0}
    OBVIOUS
  <2> QED
    BY <1>2, <2>1, SumIsIn
<1>4. VariableWeight(versions, P, m) = SumOf(f) /\ DOMAIN f = P
  BY <1>1, Zenon DEF VariableWeight
<1> QED
  BY <1>3, <1>4 DEF SumOf, SumFunction

LEMMA WeightOfOne ==
    ASSUME NEW versions, NEW P, IsFiniteSet(P), NEW m, NEW n,
           \A p \in P : p.terms = n, versions[n].mode = "VARIABLE",
           versions[n].shares[m] \in Nat, P # {}
    PROVE  /\ VariableWeight(versions, P, m) \in Nat
           /\ versions[n].shares[m] <= VariableWeight(versions, P, m)
<1>1. PICK f : f = [p \in P |-> IF versions[p.terms].mode = "VARIABLE"
                                THEN versions[p.terms].shares[m] ELSE 0]
  BY Zenon
<1>2. DOMAIN f = P /\ \A p \in P : f[p] = versions[n].shares[m]
  BY <1>1, Zenon
<1>3. SumFunction(f) \in Nat /\ \A p \in P : f[p] <= SumFunction(f)
  <2>1. IsFiniteSet(DOMAIN f) /\ \A p \in DOMAIN f : f[p] \in Nat
    BY <1>2
  <2> QED
    BY <1>2, <2>1, TotalIsAtLeast
<1>4. VariableWeight(versions, P, m) = SumFunction(f)
  BY <1>1, Zenon DEF VariableWeight, SumOf
<1> QED
  BY <1>2, <1>3, <1>4

\* The projections that a change is judged on are those of the last terms and of the new.
LEMMA JudgedOn ==
    ASSUME CommitmentInv, ScheduleInv, CutoffInv, CommitmentInv', ScheduleInv',
           WindowIsEnough, NEW view, NEW c \in Configurations, ChangeVersion(view, c)
    PROVE  LET n == Len(series.versions)
           IN  /\ \A p \in Projections(Root, c.from) : p.terms = n
               /\ \A p \in Projections(WithCandidate(c), c.from) : p.terms = n + 1
<1>1. \A p \in Projections(Root, c.from) : p.terms = Len(series.versions)
  <2> SUFFICES ASSUME NEW p \in Projections(Root, c.from)
               PROVE  p.terms = Len(series.versions)
    OBVIOUS
  <2>1. PICK month \in MonthsFrom(c.from) : /\ p = Projection(Root, month)
                                            /\ p.on >= c.from /\ p.on # NoDate
    BY ProjectedBeforeChange
  <2>2. month \in Calendar /\ p # NoProjection
    BY <2>1 DEF WindowIsEnough, NoProjection
  <2> QED
    BY <2>1, <2>2, ProjectedInMonth
<1>2. \A p \in Projections(WithCandidate(c), c.from) : p.terms = Len(series.versions) + 1
  <2> SUFFICES ASSUME NEW p \in Projections(WithCandidate(c), c.from)
               PROVE  p.terms = Len(series.versions) + 1
    OBVIOUS
  <2>1. PICK month \in MonthsFrom(c.from) : /\ p = Projection(Root', month)
                                            /\ p.on >= c.from /\ p.on # NoDate
    BY ProjectedAfterChange
  <2>2. month \in Calendar /\ p # NoProjection
    BY <2>1 DEF WindowIsEnough, NoProjection
  <2> QED
    BY <2>1, <2>2, ProjectedInMonth
<1> QED
  BY <1>1, <1>2

\* Terms that expose a member to no more, in a month of which both are projected.
LEMMA ExposedToNoMore ==
    ASSUME TwoMembers, NEW t, NEW n \in Nat, t[n] \in Agreed, t[n + 1] \in Agreed,
           NEW m \in Members \ {Actor}, NEW before, NEW after, NEW p \in before, NEW q \in after,
           IsFiniteSet(before), IsFiniteSet(after),
           \A r \in before : r.terms = n, \A r \in after : r.terms = n + 1,
           MonthOf(p.on) = MonthOf(q.on), ~ Onerous(t, before, after, m), NEW reading \in Nat
    PROVE  EffectiveSplit(t[n + 1], reading)[m] <= EffectiveSplit(t[n], reading)[m]
<1>1. PICK old, new, month : old = t[n] /\ new = t[n + 1] /\ month = MonthOf(q.on)
  OBVIOUS
<1>2. /\ old \in Agreed /\ new \in Agreed /\ m # Actor
      /\ old.shares[m] \in Nat /\ new.shares[m] \in Nat
      /\ old.mode \in {"FIXED", "VARIABLE"} /\ new.mode \in {"FIXED", "VARIABLE"}
      /\ old.mode = "VARIABLE" => old.split = "PERCENTAGES"
      /\ new.mode = "VARIABLE" => new.split = "PERCENTAGES"
  BY <1>1, TermsOfTwo
<1>3. EffectiveSplit(old, old.amount)[m] \in Nat /\ EffectiveSplit(new, new.amount)[m] \in Nat
  <2>1. old.amount \in Nat /\ new.amount \in Nat
    BY <1>2, TermsOfTwo
  <2> QED
    BY <1>2, <2>1, BearsOf
<1>4. PICK x, y : x = Exposure(t, before, month, m) /\ y = Exposure(t, after, month, m)
  OBVIOUS
<1>5. x = ExposedTo(old, m)
  <2>1. \E r \in before : MonthOf(r.on) = month
    BY <1>1
  <2>2. Exposure(t, before, month, m) = ExposedTo(t[n], m)
    BY <2>1, ExposureOf
  <2> QED
    BY <1>1, <1>4, <2>2
<1>6. y = ExposedTo(new, m)
  <2>1. \E r \in after : MonthOf(r.on) = month
    BY <1>1
  <2>2. PICK next \in Nat : next = n + 1
    OBVIOUS
  <2>3. next \in Nat /\ \A r \in after : r.terms = next
    BY <2>2
  <2>4. Exposure(t, after, month, m) = ExposedTo(t[next], m)
    BY <2>1, <2>3, ExposureOf
  <2> QED
    BY <1>1, <1>4, <2>2, <2>4
<1>7. ~ (y.amount > x.amount) /\ ~ (y.numerator * x.denominator > x.numerator * y.denominator)
  <2>1. ~ MonthlyOnerous(t, before, after, m)
    BY <1>2, Zenon DEF Onerous
  <2>2. month \in {MonthOf(r.on) : r \in before \cup after}
    BY <1>1, Zenon
  <2> QED
    BY <1>4, <2>1, <2>2, Zenon DEF MonthlyOnerous
<1>8. CASE new.mode = "FIXED"
  <2>1. EffectiveSplit(new, new.amount)[m]
            <= IF old.mode = "FIXED" THEN EffectiveSplit(old, old.amount)[m] ELSE 0
    BY <1>3, <1>5, <1>6, <1>7, <1>8 DEF ExposedTo
  <2> QED
    BY <1>1, <1>2, <1>8, <2>1, NoMore
<1>9. CASE new.mode = "VARIABLE" /\ old.mode = "VARIABLE"
  <2>1. x.denominator = Whole /\ y.denominator = Whole
    BY <1>2, <1>5, <1>6, <1>9 DEF ExposedTo
  <2>2. new.shares[m] <= old.shares[m]
    BY <1>2, <1>5, <1>6, <1>7, <2>1 DEF Whole, ExposedTo
  <2> QED
    BY <1>1, <1>2, <1>9, <2>2, NoMore
<1>10. CASE new.mode = "VARIABLE" /\ old.mode = "FIXED"
  <2>1. VariableWeight(t, before, m) = 0
    BY <1>1, <1>10, NoWeight
  <2>2. /\ VariableWeight(t, after, m) \in Nat
        /\ new.shares[m] <= VariableWeight(t, after, m)
    BY <1>1, <1>2, <1>10, WeightOfOne
  <2>3. ~ (VariableWeight(t, after, m) > VariableWeight(t, before, m))
    BY <1>2, Zenon DEF Onerous
  <2>4. new.shares[m] = 0
    BY <1>2, <2>1, <2>2, <2>3
  <2> QED
    BY <1>1, <1>2, <1>10, <2>4, NoMore
<1> QED
  BY <1>2, <1>8, <1>9, <1>10

\* The same, in a month of which nothing was projected.
LEMMA ExposedToNothing ==
    ASSUME TwoMembers, NEW t, NEW n \in Nat, t[n + 1] \in Agreed,
           NEW m \in Members \ {Actor}, NEW before, NEW after, NEW q \in after,
           \A r \in after : r.terms = n + 1,
           \A r \in before : MonthOf(r.on) # MonthOf(q.on),
           ~ Onerous(t, before, after, m), NEW reading \in Nat
    PROVE  EffectiveSplit(t[n + 1], reading)[m] <= 0
<1>1. PICK new, month : new = t[n + 1] /\ month = MonthOf(q.on)
  OBVIOUS
<1>2. /\ new \in Agreed /\ m # Actor /\ new.shares[m] \in Nat /\ new.amount \in Nat \ {0}
      /\ new.mode \in {"FIXED", "VARIABLE"}
  BY <1>1, TermsOfTwo
<1>3. PICK x, y : x = Exposure(t, before, month, m) /\ y = Exposure(t, after, month, m)
  OBVIOUS
<1>4. x = [amount |-> 0, numerator |-> 0, denominator |-> 1]
  BY <1>1, <1>3, NoExposure, Zenon
<1>5. y = ExposedTo(new, m)
  <2>1. \E r \in after : MonthOf(r.on) = month
    BY <1>1
  <2>2. PICK next \in Nat : next = n + 1
    OBVIOUS
  <2>3. next \in Nat /\ \A r \in after : r.terms = next
    BY <2>2
  <2>4. Exposure(t, after, month, m) = ExposedTo(t[next], m)
    BY <2>1, <2>3, ExposureOf
  <2> QED
    BY <1>1, <1>3, <2>2, <2>4
<1>6. ~ (y.amount > x.amount) /\ ~ (y.numerator * x.denominator > x.numerator * y.denominator)
  <2>1. ~ MonthlyOnerous(t, before, after, m)
    BY <1>2, Zenon DEF Onerous
  <2>2. month \in {MonthOf(r.on) : r \in before \cup after}
    BY <1>1, Zenon
  <2> QED
    BY <1>3, <2>1, <2>2, Zenon DEF MonthlyOnerous
<1>7. new.mode = "FIXED" => EffectiveSplit(new, new.amount)[m] <= 0
  <2>1. EffectiveSplit(new, new.amount)[m] \in Nat
    BY <1>2, BearsOf
  <2> QED
    BY <1>4, <1>5, <1>6, <2>1 DEF ExposedTo
<1>8. new.shares[m] = 0
  <2>1. y.denominator \in Nat
    BY <1>2, <1>5 DEF Whole, ExposedTo
  <2> QED
    BY <1>2, <1>4, <1>5, <1>6, <2>1 DEF ExposedTo
<1> QED
  BY <1>1, <1>2, <1>7, <1>8, Nothing
\* A member who is not asked bears no more of any month without a row.
LEMMA UnaskedBearsNoMore ==
    ASSUME CommitmentInv, ScheduleInv, CutoffInv, CommitmentInv', ScheduleInv',
           WindowIsEnough, TwoMembers, NEW view, NEW c \in Configurations,
           ChangeVersion(view, c), ~ ChangeImpact(c).requiresAcceptance,
           NEW month \in MonthsFrom(c.from), RowsIn(month) = {},
           NEW m \in Members \ {Actor}, NEW reading \in Nat
    PROVE  Borne(WithCandidate(c), month, m, reading) <= Borne(Root, month, m, reading)
<1>1. PICK s, n, t : s = series.versions /\ n = Len(s) /\ t = series'.versions
  OBVIOUS
<1>2. /\ n \in Nat \ {0} /\ c.from \in Nat /\ t[n] = s[n] /\ t[n + 1] = c
      /\ \A v \in 1 .. n : t[v] = s[v] /\ s[v] \in Agreed
      /\ c \in Agreed /\ t[n] \in Agreed /\ t[n + 1] \in Agreed
  <2>1. /\ n \in Nat \ {0} /\ t[n + 1] = c /\ c \in Agreed
        /\ \A v \in 1 .. n : t[v] = s[v] /\ s[v] \in Agreed
    BY <1>1, ChangeIs
  <2>2. n \in 1 .. n /\ c.from \in Nat
    BY <2>1, CalendarAssumption DEF IsDay
  <2> QED
    BY <2>1, <2>2
<1>3. Root' = WithCandidate(c) /\ WithCandidate(c).versions = t /\ Root.versions = s
  BY <1>1, ChangeIs DEF Root, WithCandidate
<1>4. PICK p, q : p = Projection(Root, month) /\ q = Projection(Root', month)
  OBVIOUS
<1>5. /\ p # NoProjection => p.on \in Nat \ {0} /\ p.terms \in 1 .. n
      /\ p # NoProjection /\ p.on >= c.from => p.terms = n
      /\ q # NoProjection => q.on \in Nat \ {0}
      /\ q # NoProjection /\ q.on < c.from => q.terms \in 1 .. n /\ p # NoProjection
                                              /\ p.terms = q.terms
      /\ q # NoProjection /\ q.on >= c.from =>
             /\ q.terms = n + 1
             /\ p # NoProjection => p.terms = n /\ p.on >= c.from
  <2>1. month \in Calendar
    BY DEF WindowIsEnough
  <2> QED
    BY <1>1, <1>4, <2>1, ProjectedInMonth
<1>6. NoProjection.on = NoDate /\ NoDate = 0
  BY DEF NoProjection, NoDate
<1>7. /\ Borne(WithCandidate(c), month, m, reading) =
             IF q.on = NoDate THEN 0 ELSE EffectiveSplit(t[q.terms], reading)[m]
      /\ Borne(Root, month, m, reading) =
             IF p.on = NoDate THEN 0 ELSE EffectiveSplit(s[p.terms], reading)[m]
  BY <1>3, <1>4, Zenon DEF Borne
<1>8. Borne(Root, month, m, reading) \in Nat
  <2>1. CASE p = NoProjection
    BY <1>6, <1>7, <2>1
  <2>2. CASE p # NoProjection
    <3>1. s[p.terms] \in Agreed
      BY <1>2, <1>5, <2>2
    <3>2. EffectiveSplit(s[p.terms], reading)[m] \in Nat
      BY <3>1, BearsOf
    <3> QED
      BY <1>7, <3>2
  <2> QED
    BY <2>1, <2>2
<1>9. CASE q = NoProjection
  BY <1>6, <1>7, <1>8, <1>9
<1>10. CASE q # NoProjection /\ q.on < c.from
  <2>1. p # NoProjection /\ p.terms = q.terms /\ t[q.terms] = s[p.terms]
        /\ p.on # NoDate /\ q.on # NoDate
    BY <1>2, <1>5, <1>6, <1>10
  <2>2. Borne(WithCandidate(c), month, m, reading) = Borne(Root, month, m, reading)
    BY <1>7, <2>1
  <2> QED
    BY <1>8, <2>2
<1>11. CASE q # NoProjection /\ q.on >= c.from
  <2>1. PICK before, after : /\ before = Projections(Root, c.from)
                             /\ after = Projections(WithCandidate(c), c.from)
    OBVIOUS
  <2>2. /\ IsFiniteSet(before) /\ IsFiniteSet(after)
        /\ \A r \in before : r.terms = n
        /\ \A r \in after : r.terms = n + 1
    BY <1>1, <2>1, ProjectionsAreFinite, JudgedOn
  <2>3. ~ Onerous(t, before, after, m)
    <3>1. m \in Members
      OBVIOUS
    <3> QED
      BY <1>3, <2>1, <3>1 DEF ChangeImpact
  <2>4. q \in after /\ MonthOf(q.on) = month /\ q.on # NoDate /\ q.terms = n + 1
    <3>1. q.on # NoDate /\ q.on \in Nat
      BY <1>5, <1>6, <1>11
    <3>2. MonthOf(q.on) = month
      <4>1. IsProjected(month)'
        BY MonthsAgreeNext DEF MonthsAgree, WindowIsEnough
      <4>2. Projection(Root, month)' = q
        BY <1>4
      <4> QED
        BY <1>11, <4>1, <4>2 DEF IsProjected
    <3> QED
      BY <1>4, <1>5, <1>11, <2>1, <3>1, <3>2, ProjectedAfterChange
  <2>5. CASE p = NoProjection
    <3>1. \A r \in before : MonthOf(r.on) # month
      <4> SUFFICES ASSUME NEW r \in before, MonthOf(r.on) = month
                   PROVE  FALSE
        OBVIOUS
      <4>1. PICK other \in MonthsFrom(c.from) :
                /\ r = Projection(Root, other) /\ r.on # NoDate /\ MonthOf(r.on) = other
        BY <2>1, ProjectedBeforeChange
      <4> QED
        BY <1>4, <1>6, <2>5, <4>1
    <3>2. EffectiveSplit(t[n + 1], reading)[m] <= 0
      BY <1>2, <2>2, <2>3, <2>4, <3>1, ExposedToNothing
    <3>3. Borne(WithCandidate(c), month, m, reading) = EffectiveSplit(t[n + 1], reading)[m]
      BY <1>7, <2>4
    <3>4. EffectiveSplit(t[n + 1], reading)[m] \in Nat
      BY <1>2, BearsOf
    <3> QED
      BY <1>8, <3>2, <3>3, <3>4
  <2>6. CASE p # NoProjection
    <3>1. p.terms = n /\ p.on >= c.from /\ p.on # NoDate /\ p.on \in Nat
      BY <1>5, <1>6, <1>11, <2>6
    <3>2. MonthOf(p.on) = month
      <4>1. IsProjected(month)
        BY MonthsAreAgreed DEF MonthsAgree, WindowIsEnough
      <4> QED
        BY <1>4, <2>6, <4>1 DEF IsProjected
    <3>3. p \in before
      BY <1>4, <2>1, <3>1, <3>2, ProjectedBeforeChange
    <3>4. EffectiveSplit(t[n + 1], reading)[m] <= EffectiveSplit(t[n], reading)[m]
      BY <1>2, <2>2, <2>3, <2>4, <3>2, <3>3, ExposedToNoMore
    <3>5. /\ Borne(WithCandidate(c), month, m, reading) = EffectiveSplit(t[n + 1], reading)[m]
          /\ Borne(Root, month, m, reading) = EffectiveSplit(t[n], reading)[m]
      BY <1>2, <1>7, <2>4, <3>1
    <3> QED
      BY <3>4, <3>5
  <2> QED
    BY <2>5, <2>6
<1> QED
  BY <1>5, <1>2, <1>9, <1>10, <1>11

LEMMA ChangeDoes ==
    ASSUME CommitmentInv, ScheduleInv, DatesInv, CutoffInv, CommitmentInv', ScheduleInv',
           WindowIsEnough, TwoMembers, NEW view, NEW c \in Configurations,
           ChangeVersion(view, c)
    PROVE  ChangesAsPreviewed
<1>1. series'.versions[Len(series'.versions)] = c
  BY ChangeIs
<1>2. IsCandidate(c)
  <2>1. DOMAIN c.shares = Members /\ ConfigurationIsValid(c)
    BY CalendarAssumption DEF TwoMembers, Agreed
  <2> QED
    BY <2>1 DEF IsCandidate, ChangeVersion, ChangesSeries
<1>3. ASSUME NEW month \in Months
      PROVE  {date \in Listed(month)' : date >= c.from} =
             {date \in ChangeImpact(c).proposed \cup ChangeImpact(c).preserved :
                  /\ MonthOf(date) = month
                  /\ date \in DOMAIN rows => rows[date].status # "CANCELLED"}
  <2>1. \A date : date \in Listed(month)' /\ date >= c.from
                      <=> /\ date \in ChangeImpact(c).proposed \cup ChangeImpact(c).preserved
                          /\ MonthOf(date) = month
                          /\ date \in DOMAIN rows => rows[date].status # "CANCELLED"
    BY ChangeLists
  <2> QED
    BY <2>1, Zenon
<1>4. ASSUME ~ ChangeImpact(c).requiresAcceptance,
             NEW month \in MonthsFrom(c.from) \ {MonthOf(date) : date \in DOMAIN rows},
             NEW m \in Members \ {Actor}, NEW reading \in Readings
      PROVE  Borne(WithCandidate(c), month, m, reading) <= Borne(Root, month, m, reading)
  <2>1. RowsIn(month) = {} /\ month \in MonthsFrom(c.from)
    BY DEF RowsIn
  <2>2. reading \in Nat
    BY DEF Readings
  <2> QED
    BY <1>4, <2>1, <2>2, UnaskedBearsNoMore
<1> QED
  BY <1>1, <1>2, <1>3, <1>4, Zenon DEF ChangesAsPreviewed, MonthsFrom

LEMMA ClosureKeepsTheTerms ==
    ASSUME CommitmentInv, OnSpace(Cutoffs)
    PROVE  series'.versions = series.versions /\ space' # space
<1>1. space \in Spaces /\ series \in Statement
  BY TypesOfState
<1>2. CASE StartClosure
  BY <1>1, <1>2 DEF StartClosure, SpaceChanges, Spaces
<1>3. CASE CancelClosure
  BY <1>1, <1>3 DEF CancelClosure, SpaceChanges, Spaces
<1>4. ASSUME NEW cutoff \in Cutoffs, ApprovePlan(cutoff)
      PROVE  series'.versions = series.versions /\ space'.version # space.version
  BY <1>1, <1>4 DEF ApprovePlan, SpaceChanges, Spaces, Statement
<1> QED
  BY <1>2, <1>3, <1>4 DEF OnSpace

\* An open space never has a cutoff, of any closure that was started and cancelled.
LEMMA OpenHasNoCutoff == Spec => []CutoffInv
<1>1. Init => CutoffInv
  BY DEF Init, CutoffInv
<1>2. CommitmentInv /\ CutoffInv /\ [Next]_vars => CutoffInv'
  BY CutoffStep
<1> QED
  BY <1>1, <1>2, CommitmentIsSound, PTL DEF Spec

\* What the members are told that a termination would leave is what it leaves: of the dates
\* after the end no month lists any but those of the preview.
THEOREM EndsAsItWasShown ==
    Spec => [][series'.ends # series.ends /\ space' = space => TerminatesAsPreviewed]_vars
<1>1. ASSUME CommitmentInv, ScheduleInv, DatesInv, CutoffInv, CommitmentInv', ScheduleInv',
             [Next]_vars, series'.ends # series.ends, space' = space
      PROVE  TerminatesAsPreviewed
  <2>1. ~ OnSpace(Cutoffs)
    BY <1>1, ClosureKeepsTheTerms
  <2>2. ASSUME NEW view, NEW c \in Configurations, ChangeVersion(view, c)
        PROVE  series'.ends = series.ends
    BY <1>1, <2>2, ChangeIs, OpenIs DEF ChangeVersion
  <2>3. ASSUME NEW view, NEW endsOn \in Endings, Terminate(view, endsOn)
        PROVE  TerminatesAsPreviewed
    BY <1>1, <2>3, TerminationLeaves
  <2> QED
    BY <1>1, <2>1, <2>2, <2>3, StepsOfSeries
<1> QED
  BY <1>1, DatesAreSound, OpenHasNoCutoff, PTL DEF Spec

\* What a client was shown is still so when its command is done, and what the members are
\* told that a change or a termination would do is what it does: the dates that are listed
\* then are those of the preview, and a member who is not asked to accept a change bears no
\* more of any month, whatever its meter reads.
THEOREM DoneAsItWasShown ==
    ASSUME WindowIsEnough, TwoMembers
    PROVE  Spec => DoneAsShown
<1>1. ASSUME CommitmentInv, ScheduleInv, DatesInv, CutoffInv, CommitmentInv', ScheduleInv',
             [Next]_vars, Len(series'.versions) > Len(series.versions)
      PROVE  ChangesAsPreviewed
  <2>1. series'.versions # series.versions
    BY <1>1, TypesOfState
  <2>2. ~ OnSpace(Cutoffs)
    BY <1>1, <2>1, ClosureKeepsTheTerms
  <2>3. ASSUME NEW view, NEW c \in Configurations, ChangeVersion(view, c)
        PROVE  ChangesAsPreviewed
    BY <1>1, <2>3, ChangeDoes
  <2>4. ASSUME NEW view, NEW endsOn \in Endings, Terminate(view, endsOn)
        PROVE  series'.versions = series.versions
    BY <1>1, <2>4, TypesOfState DEF Terminate, Terminated, Statement
  <2> QED
    BY <1>1, <2>1, <2>2, <2>3, <2>4, StepsOfSeries
<1> QED
  BY <1>1, DatesAreSound, OpenHasNoCutoff, DoneOnWhatWasSeen, EndsAsItWasShown, PTL
     DEF Spec, DoneAsShown
=============================================================================
