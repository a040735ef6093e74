-------------------------- MODULE SettlementLedger -------------------------
(***************************************************************************)
(* The obligations between the two members of a shared space, and all that *)
(* writes them: the facts of the expenses they arise from, and their       *)
(* settlement by transfers, offsets and waivers, in cycles that are        *)
(* finalized one by one.                                                   *)
(*                                                                         *)
(* Every command is one transaction that locks its origins FOR UPDATE, the *)
(* cycles FOR SHARE, or FOR UPDATE to finalize one, and the obligations,   *)
(* in this order, and looks again at what it had read before: a command is *)
(* one step.  The versions a client expects are those of the rows it has   *)
(* read, and a stale one is refused: they are left out, and so are the     *)
(* receipts and the history.                                               *)
(***************************************************************************)
EXTENDS Obligations, FiniteSets

CONSTANTS Origins,         \* the expenses: commitments or their occurrences
          Agreements,      \* the closure agreements
          Cycles,          \* the settlement cycles, by their dates
          Shares,          \* the shares of the members in each expense
          Adjusted,        \* the shares an expense may be adjusted to
          MaxMoney,        \* the largest amount that is a safe integer
          MaxFacts,        \* bound on the facts of an expense
          MaxObligations,  \* bound on the obligations
          MaxResolutions   \* bound on the transfers, offsets and waivers

ASSUME SourcesAssumption == Origins \cap Agreements = {}
ASSUME CyclesAssumption  == NoCycle \notin Cycles
\* An expense with the shares it had at first has never been adjusted.
ASSUME SharesAssumption ==
    /\ Shares \in [Origins -> [Parties -> Nat]]
    /\ Adjusted \subseteq [Parties -> Nat]
    /\ \A s \in Origins : Shares[s] \notin Adjusted
ASSUME MoneyAssumption   == MaxMoney \in Nat \ {0}

VARIABLES
    shares,       \* the economic shares of every expense
    facts,        \* financial_disbursements and external liabilities
    agreed,       \* the difference every closure agreement settles
    obligations,  \* inter_member_obligations
    resolutions,  \* settlement transfers and offsets, and waivers
    cycles        \* settlement_cycles

vars == <<shares, facts, agreed, obligations, resolutions, cycles>>

Init ==
    /\ shares = Shares
    /\ facts = [s \in Origins |-> <<>>]
    /\ agreed = [s \in Agreements |-> 0]
    /\ obligations = <<>>
    /\ resolutions = <<>>
    /\ cycles = [c \in Cycles |-> "ABSENT"]

-----------------------------------------------------------------------------
Ids       == DOMAIN obligations
IdsOf(s)  == {i \in Ids : obligations[i].source = s}
Finalized == {c \in Cycles : cycles[c] = "FINALIZED"}
IsMoney(n) == n \in 0 .. MaxMoney

\* One of a set, or none: what find returns.
Found(S) == IF S = {} THEN {} ELSE {CHOOSE x \in S : TRUE}

(***************************************************************************)
(* The valid facts of an expense, and what has been resolved of a source:  *)
(* the settlements of originState, in which those that were reversed       *)
(* cancel out.                                                             *)
(***************************************************************************)
Valid(fact) == fact.amount - fact.reversed

PaidBy(fs, m) ==
    SumFunction([f \in DOMAIN fs |->
                    IF fs[f].payer = m THEN Valid(fs[f]) ELSE 0])

Paid(fs)          == [m \in Parties |-> PaidBy(fs, m)]
Fulfilled(fs)     == PaidBy(fs, First) + PaidBy(fs, Second)
Total(sh)         == sh[First] + sh[Second]
HasReversals(fs)  == \E f \in DOMAIN fs : fs[f].reversed > 0

Resolved(s) ==
    SumFunction([k \in {k \in DOMAIN resolutions : ~ resolutions[k].reversed} |->
        SumFunction([i \in DOMAIN resolutions[k].parts \cap IdsOf(s) |->
            Signed(obligations[i], resolutions[k].parts[i].amount)])])

\* What a reconciliation of the expense makes of its facts.
Difference(s, sh, fs, corrected) ==
    IF corrected THEN CorrectedDifference(sh, Paid(fs), Resolved(s))
                 ELSE ExpenseDifference(sh, Paid(fs), Resolved(s))

-----------------------------------------------------------------------------
(***************************************************************************)
(* ReconcileFinancialOrigin: the obligations of an expense are made to say *)
(* what its facts say.  selection is the cycle the client chose for a new  *)
(* obligation; a cycle of a date that has none is created.                 *)
(***************************************************************************)
\* Once a cycle of the expense is finalized, a difference that no obligation in an
\* open cycle takes up needs a cycle.
NeedsSelection(ids, reused) ==
    /\ \E i \in ids : obligations[i].cycle \in Finalized
    /\ \A i \in reused : obligations[i].cycle \in Finalized \cup {NoCycle}

AssertCyclesOpen(changed, reused, due, selection) ==
    /\ \A i \in changed \cup reused : obligations[i].cycle \notin Finalized
    /\ due # 0 /\ reused = {} => selection \notin Finalized

Reconcile(s, due, fact, selection) ==
    LET ids     == IdsOf(s)
        reused  == Found(Reused(obligations, ids, due, Finalized))
        changed == ChangedIds(obligations, ids, reused, due)
        kept    == [i \in Ids |->
                       IF i \in changed
                       THEN Reconciled(obligations[i],
                                       Remainder(i, reused, due))
                       ELSE obligations[i]]
        isNew   == due # 0 /\ reused = {}
    IN  /\ IsMoney(Abs(due))
        /\ \A i, j \in OpenIds(obligations, ids) : i = j
        /\ (due # 0 /\ selection = NoCycle) => ~ NeedsSelection(ids, reused)
        /\ AssertCyclesOpen(changed, reused, due, selection)
        /\ \A i \in changed : IsMoney(kept[i].recognized)
        /\ obligations' = IF isNew
                          THEN Append(kept,
                                      NewObligation(s, fact, due, selection))
                          ELSE kept
        /\ cycles' = IF isNew /\ selection # NoCycle
                     THEN [cycles EXCEPT ![selection] = "OPEN"]
                     ELSE cycles
        /\ Len(obligations') <= MaxObligations

-----------------------------------------------------------------------------
(***************************************************************************)
(* The facts of an expense.                                                *)
(***************************************************************************)
RecordFact(s, payer, amount, selection) ==
    LET fs == Append(facts[s], [payer |-> payer, amount |-> amount,
                                reversed |-> 0])
    IN  /\ Len(facts[s]) < MaxFacts
        /\ Fulfilled(fs) <= Total(shares[s])
        /\ facts' = [facts EXCEPT ![s] = fs]
        /\ Reconcile(s, Difference(s, shares[s], fs, HasReversals(fs)),
                     Len(fs), selection)
        /\ UNCHANGED <<shares, agreed, resolutions>>

\* The assessment of a reversal refuses a finalized cycle even if none is needed.
ReverseFact(s, f, amount, selection) ==
    LET fs == [facts[s] EXCEPT ![f].reversed = @ + amount]
    IN  /\ amount <= Valid(facts[s][f])
        /\ selection \notin Finalized
        /\ facts' = [facts EXCEPT ![s] = fs]
        /\ Reconcile(s, Difference(s, shares[s], fs, TRUE), f, selection)
        /\ UNCHANGED <<shares, agreed, resolutions>>

\* An adjustment raises or lowers the amount, each share in the same direction; a
\* new obligation is one of the last valid fact.
LastValid(fs) ==
    {f \in DOMAIN fs : /\ Valid(fs[f]) > 0
                       /\ \A g \in DOMAIN fs : g > f => Valid(fs[g]) = 0}

\* Mistake: the obligations wait for the next fact.
AdjustOnly(s, sh, selection) ==
    /\ Fulfilled(facts[s]) <= Total(sh)
    /\ shares' = [shares EXCEPT ![s] = sh]
    /\ UNCHANGED <<facts, agreed, obligations, resolutions, cycles>>

Adjust(s, sh, selection) ==
    LET fs == facts[s]
    IN  /\ Total(sh) # Total(shares[s])
        /\ \/ \A m \in Parties : sh[m] >= shares[s][m]
           \/ \A m \in Parties : sh[m] <= shares[s][m]
        /\ Fulfilled(fs) <= Total(sh)
        /\ shares' = [shares EXCEPT ![s] = sh]
        /\ IF Fulfilled(fs) > 0
           THEN \E f \in LastValid(fs) :
                    Reconcile(s, Difference(s, sh, fs, HasReversals(fs)), f,
                              selection)
           ELSE UNCHANGED <<obligations, cycles>>
        /\ UNCHANGED <<facts, agreed, resolutions>>

\* applyApproved: a closure destination becomes an agreement between the members.
Agree(s, difference) ==
    /\ agreed[s] = 0
    /\ agreed' = [agreed EXCEPT ![s] = difference]
    /\ obligations' = Append(obligations,
                             NewObligation(s, 0, difference, NoCycle))
    /\ Len(obligations') <= MaxObligations
    /\ UNCHANGED <<shares, facts, resolutions, cycles>>

-----------------------------------------------------------------------------
(***************************************************************************)
(* The resolutions.  amounts gives the obligations that are resolved what  *)
(* is resolved of each.                                                    *)
(***************************************************************************)
CanResolve(amounts) ==
    /\ Len(resolutions) < MaxResolutions
    /\ \A i \in DOMAIN amounts :
           /\ amounts[i] <= obligations[i].remaining
           /\ obligations[i].cycle \notin Finalized

Settled(amounts) ==
    [i \in Ids |-> IF i \in DOMAIN amounts THEN Settle(obligations[i], amounts[i])
                                           ELSE obligations[i]]

Resolve(kind, amounts) ==
    /\ resolutions' = Append(resolutions,
           [kind     |-> kind,
            parts    |-> [i \in DOMAIN amounts |->
                             [amount |-> amounts[i],
                              cycle  |-> obligations[i].cycle]],
            reversed |-> FALSE])
    /\ UNCHANGED <<shares, facts, agreed, cycles>>

Transfer(payer, amounts) ==
    /\ CanResolve(amounts)
    /\ \A i \in DOMAIN amounts : obligations[i].debtor = payer
    /\ obligations' = Settled(amounts)
    /\ Resolve("TRANSFER", amounts)

Offset(amounts) ==
    /\ CanResolve(amounts)
    /\ SumFunction([i \in DOMAIN amounts |->
                       Signed(obligations[i], amounts[i])]) = 0
    /\ obligations' = Settled(amounts)
    /\ Resolve("OFFSET", amounts)

WaiveObligation(creditor, i, amount) ==
    /\ CanResolve([j \in {i} |-> amount])
    /\ creditor = Other(obligations[i].debtor)
    /\ obligations' = [obligations EXCEPT ![i] = Waive(@, amount)]
    /\ Resolve("WAIVER", [j \in {i} |-> amount])

-----------------------------------------------------------------------------
(***************************************************************************)
(* The cycles.                                                             *)
(***************************************************************************)
MoveObligation(i, c) ==
    /\ IsOpen(obligations[i])
    /\ obligations[i].cycle \notin Finalized
    /\ c \notin Finalized
    /\ obligations' = [obligations EXCEPT ![i].cycle = c]
    /\ cycles' = IF c = NoCycle THEN cycles ELSE [cycles EXCEPT ![c] = "OPEN"]
    /\ UNCHANGED <<shares, facts, agreed, resolutions>>

FinalizeCycle(c) ==
    /\ cycles[c] = "OPEN"
    /\ \A i \in Ids : obligations[i].cycle = c => ~ IsOpen(obligations[i])
    /\ cycles' = [cycles EXCEPT ![c] = "FINALIZED"]
    /\ UNCHANGED <<shares, facts, agreed, obligations, resolutions>>

-----------------------------------------------------------------------------
(***************************************************************************)
(* The reversal of a transfer or of an offset, source by source.           *)
(***************************************************************************)
ReversedAmounts(k) ==
    [i \in Ids |-> IF i \in DOMAIN resolutions[k].parts
                   THEN resolutions[k].parts[i].amount ELSE 0]

\* The parts whose cycle is finalized, that of the allocation or the present one.
CorrectedParts(k) ==
    {i \in DOMAIN resolutions[k].parts :
        \/ resolutions[k].parts[i].cycle \in Finalized
        \/ obligations[i].cycle \in Finalized}

ReversalPlan(k, s, correction) ==
    LET parts    == DOMAIN resolutions[k].parts \cap IdsOf(s)
        reversed == ReversedAmounts(k)
        net      == NetAfterReversal(obligations, IdsOf(s), reversed)
        writable == WritableIds(obligations, IdsOf(s), Finalized)
        reused   == Found(ReusedInReversal(obligations, writable,
                                           reversed, net))
        source   == CHOOSE i \in parts : TRUE
    IN  [net     |-> net,
         reused  |-> reused,
         changed |-> {i \in writable :
                         \/ reversed[i] > 0
                         \/ obligations[i].remaining
                                # Remainder(i, reused, net)},
         isNew   |-> net # 0 /\ reused = {},
         fact    |-> obligations[source].fact,
         cycle   |-> IF CorrectedParts(k) \cap parts # {}
                     THEN correction ELSE obligations[source].cycle]

\* The new obligations may be registered in any order.
ReverseSettlement(k, correction) ==
    LET parts    == DOMAIN resolutions[k].parts
        sources  == {obligations[i].source : i \in parts}
        plans    == [s \in sources |-> ReversalPlan(k, s, correction)]
        reversed == ReversedAmounts(k)
        created  == {s \in sources : plans[s].isNew}
        kept     == [i \in Ids |->
            LET s == obligations[i].source
            IN  IF s \in sources /\ i \in plans[s].changed
                THEN ResolutionReversed(obligations[i],
                         Remainder(i, plans[s].reused, plans[s].net),
                         reversed[i])
                ELSE obligations[i]]
    IN  /\ resolutions[k].kind # "WAIVER"
        /\ ~ resolutions[k].reversed
        /\ (CorrectedParts(k) = {}) <=> (correction = NoCycle)
        /\ correction # NoCycle => cycles[correction] = "OPEN"
        /\ \A s \in sources : IsMoney(Abs(plans[s].net))
        /\ \A s \in created : plans[s].cycle \notin Finalized
        /\ \A i \in parts :
               i \in plans[obligations[i].source].changed =>
                   reversed[i] <= obligations[i].recognized
                                      - obligations[i].remaining
        /\ \A i \in Ids : IsMoney(kept[i].recognized)
        /\ \E q \in Bijection(1 .. Cardinality(created), created) :
               obligations' = kept \o
                   [n \in DOMAIN q |->
                       NewObligation(q[n], plans[q[n]].fact, plans[q[n]].net,
                                     plans[q[n]].cycle)]
        /\ resolutions' = [resolutions EXCEPT ![k].reversed = TRUE]
        /\ Len(obligations') <= MaxObligations
        /\ UNCHANGED <<shares, facts, agreed, cycles>>

-----------------------------------------------------------------------------
Selections == Cycles \cup {NoCycle}
Amounts    == 1 .. MaxMoney

ExpenseStep(s) ==
    \E c \in Selections :
        \/ \E m \in Parties, n \in Amounts : RecordFact(s, m, n, c)
        \/ \E f \in DOMAIN facts[s], n \in Amounts : ReverseFact(s, f, n, c)
        \/ \E sh \in Adjusted : Adjust(s, sh, c)

\* The obligations are locked in the order of their ids, each once: a client names
\* a set of them.
ResolutionStep ==
    \E S \in SUBSET OpenIds(obligations, Ids) :
        /\ S # {}
        /\ \E amounts \in [S -> Amounts] :
               \/ \E m \in Parties : Transfer(m, amounts)
               \/ Cardinality(S) > 1 /\ Offset(amounts)

Next ==
    \/ \E s \in Origins : ExpenseStep(s)
    \/ \E s \in Agreements, n \in Amounts : Agree(s, n) \/ Agree(s, -n)
    \/ ResolutionStep
    \/ \E m \in Parties, i \in Ids, n \in Amounts : WaiveObligation(m, i, n)
    \/ \E i \in Ids, c \in Selections : MoveObligation(i, c)
    \/ \E c \in Cycles : FinalizeCycle(c)
    \/ \E k \in DOMAIN resolutions, c \in Selections : ReverseSettlement(k, c)

Spec == Init /\ [][Next]_vars
-----------------------------------------------------------------------------
(***************************************************************************)
(* Types.                                                                  *)
(***************************************************************************)
Statuses == {"OPEN", "PARTIALLY_SETTLED", "SETTLED", "RECONCILED", "WAIVED"}

FactType ==
    [payer : Parties, amount : Amounts, reversed : 0 .. MaxMoney]

ObligationType ==
    [source     : Origins \cup Agreements,
     fact       : Nat,
     debtor     : Parties,
     recognized : 0 .. MaxMoney,
     remaining  : 0 .. MaxMoney,
     status     : Statuses,
     cycle      : Selections]

PartType == [amount : Amounts, cycle : Selections]

ResolutionType(ids) ==
    [kind     : {"TRANSFER", "OFFSET", "WAIVER"},
     parts    : UNION {[S -> PartType] : S \in SUBSET ids},
     reversed : BOOLEAN]

\* The columns have their types: no fact is reversed beyond its amount, a resolution
\* is one of obligations there are, and of an obligation no more remains than was
\* recognized.
TypeOK ==
    /\ shares \in [Origins -> [Parties -> Nat]]
    /\ facts \in [Origins -> Seq(FactType)]
    /\ \A s \in Origins : \A f \in DOMAIN facts[s] : Valid(facts[s][f]) >= 0
    /\ agreed \in [Agreements -> -MaxMoney .. MaxMoney]
    /\ obligations \in Seq(ObligationType)
    /\ \A i \in Ids : obligations[i].remaining <= obligations[i].recognized
    /\ resolutions \in Seq(ResolutionType(Ids))
    /\ cycles \in [Cycles -> {"ABSENT", "OPEN", "FINALIZED"}]

-----------------------------------------------------------------------------
(***************************************************************************)
(* Safety.                                                                 *)
(***************************************************************************)
\* The members owe each other one amount for a source, in one direction: at most
\* one of its obligations is open.
OneOpenObligation ==
    \A i, j \in OpenIds(obligations, Ids) :
        obligations[i].source = obligations[j].source => i = j

\* Nothing is left to be settled in a finalized cycle, nor in one that is not there.
NothingOpenInFinalized ==
    \A i \in Ids : IsOpen(obligations[i]) /\ obligations[i].cycle # NoCycle
                       => cycles[obligations[i].cycle] = "OPEN"

\* What is open of an expense that was never adjusted is what a reconciliation would
\* make of its facts and resolutions: it has nothing to correct, whatever was
\* settled, waived, moved or reversed since the last one.
OutstandingFollowsFacts ==
    \A s \in Origins :
        shares[s] = Shares[s] =>
            Outstanding(obligations, IdsOf(s)) =
                Difference(s, shares[s], facts[s], HasReversals(facts[s]))

\* Once an expense is fully paid, the members owe each other exactly what makes
\* both of them bear their own share, whatever became of it on the way.
SharesAreBorne ==
    \A s \in Origins :
        Fulfilled(facts[s]) = Total(shares[s]) =>
            Outstanding(obligations, IdsOf(s)) =
                PaidBy(facts[s], First) - shares[s][First] - Resolved(s)

\* What was agreed when the space was closed is owed or has been resolved.
AgreementsAreKept ==
    \A s \in Agreements :
        Outstanding(obligations, IdsOf(s)) + Resolved(s) = agreed[s]

\* A finalized cycle is final: no obligation in it is changed, moved or added, not
\* even to correct what was settled in it.
FinalizedIsFrozen ==
    [][\A c \in Finalized :
           /\ cycles'[c] = "FINALIZED"
           /\ \A i \in DOMAIN obligations' :
                  obligations'[i].cycle = c =>
                      i \in Ids /\ obligations'[i] = obligations[i]
           /\ \A i \in Ids :
                  obligations[i].cycle = c => obligations'[i] = obligations[i]]_vars
=============================================================================
