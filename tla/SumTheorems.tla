---------------------------- MODULE SumTheorems ----------------------------
(***************************************************************************)
(* What the proofs need of the least element of a set of numbers and of    *)
(* the sum of a function over a finite set: facts about the operators of   *)
(* the community modules, used for the ids of rows that are locked in      *)
(* order and for what the rows of an origin come to.                       *)
(***************************************************************************)
EXTENDS Integers, Sequences, FiniteSets, FiniteSetsExt, Functions, FiniteSetTheorems,
        WellFoundedInduction, TLAPS

-----------------------------------------------------------------------------
(***************************************************************************)
(* The least element.                                                      *)
(***************************************************************************)

\* A set of natural numbers that is not empty has a least element.
LEMMA LeastNatural ==
    ASSUME NEW S \in SUBSET Nat, S # {}
    PROVE  \E n \in S : \A m \in S : n <= m
<1>1. PICK R : R = OpToRel(<, Nat)
  OBVIOUS
<1>2. R = {ss \in Nat \X Nat : ss[1] < ss[2]}
  BY <1>1 DEF OpToRel
<1>3. IsWellFoundedOn(R, Nat)
  BY <1>1, NatLessThanWellFounded
<1>4. PICK n \in S : \A m \in S : ~ (<<m, n>> \in R)
  BY <1>3, WFMin
<1>5. \A m \in Nat, k \in Nat : m < k => <<m, k>> \in R
  BY <1>2
<1>6. \A m \in S : n <= m
  <2> TAKE m \in S
  <2>1. m \in Nat /\ n \in Nat
    OBVIOUS
  <2>2. ~ (m < n)
    BY <1>4, <1>5, <2>1
  <2> QED
    BY <2>1, <2>2
<1> QED
  BY <1>6

\* Min is it.
LEMMA MinIsLeast ==
    ASSUME NEW S \in SUBSET Nat, S # {}
    PROVE  Min(S) \in S /\ \A m \in S : Min(S) <= m
BY LeastNatural DEF Min

\* And so Max, in a set that is bounded.
LEMMA MaxIsGreatest ==
    ASSUME NEW n \in Nat, NEW S \in SUBSET (0 .. n), S # {}
    PROVE  Max(S) \in S /\ \A m \in S : Max(S) >= m
<1>1. PICK T : T = {n - m : m \in S}
  OBVIOUS
<1>2. T \in SUBSET Nat /\ T # {}
  <2>1. \A m \in S : n - m \in Nat
    OBVIOUS
  <2> QED
    BY <1>1, <2>1
<1>3. PICK t \in T : \A u \in T : t <= u
  BY <1>2, LeastNatural
<1>4. PICK x \in S : t = n - x
  BY <1>1
<1>5. \A m \in S : x >= m
  BY <1>1, <1>3, <1>4
<1> QED
  BY <1>5 DEF Max

-----------------------------------------------------------------------------
(***************************************************************************)
(* Finite sets, one element after the other.                               *)
(***************************************************************************)
\* Of the subsets of a finite set that are not in a collection one is a smallest.
Smallest(T, P) == T \notin P /\ \A x \in T : \A U \in SUBSET (T \ {x}) : U \in P

LEMMA SmallestSet ==
    ASSUME NEW S, IsFiniteSet(S), NEW P, NEW R \in SUBSET S, R \notin P
    PROVE  \E T \in SUBSET S : Smallest(T, P)
<1>1. PICK N : N = {n \in Nat : \E T \in SUBSET S : T \notin P /\ Cardinality(T) = n}
  OBVIOUS
<1>2. \A T \in SUBSET S : IsFiniteSet(T) /\ Cardinality(T) \in Nat
  BY FS_Subset, FS_CardinalityType
<1>3. N \in SUBSET Nat /\ N # {}
  BY <1>1, <1>2
<1>4. PICK n \in N : \A m \in N : n <= m
  BY <1>3, LeastNatural
<1>5. PICK T \in SUBSET S : T \notin P /\ Cardinality(T) = n
  BY <1>1, <1>4
<1>6. ASSUME NEW x \in T, NEW U \in SUBSET (T \ {x})
      PROVE  U \in P
  <2>1. U \in SUBSET S /\ T \ {x} \in SUBSET S
    OBVIOUS
  <2>2. Cardinality(T \ {x}) = n - 1
    BY <1>2, <1>5, FS_RemoveElement
  <2>3. Cardinality(U) <= Cardinality(T \ {x}) /\ Cardinality(U) \in Nat
    BY <1>2, <2>1, FS_Subset
  <2>4. Cardinality(U) \notin N
    BY <1>1, <1>4, <2>2, <2>3
  <2> QED
    BY <1>1, <2>1, <2>3, <2>4
<1> QED
  BY <1>5, <1>6 DEF Smallest

\* A collection that has the empty set and every set with one element more than one
\* of its own has every finite set.
LEMMA OneByOne ==
    ASSUME NEW S, IsFiniteSet(S), NEW P,
           {} \in P,
           \A T \in SUBSET S : \A x \in S \ T : T \in P => T \cup {x} \in P
    PROVE  S \in P
<1> SUFFICES ASSUME S \notin P
             PROVE  FALSE
  OBVIOUS
<1>1. PICK T \in SUBSET S : Smallest(T, P)
  <2>1. S \in SUBSET S
    OBVIOUS
  <2> QED
    BY <2>1, SmallestSet
<1>2. PICK x : x \in T
  BY <1>1 DEF Smallest
<1>3. T \ {x} \in P /\ T = (T \ {x}) \cup {x} /\ x \in S \ (T \ {x})
  BY <1>1, <1>2 DEF Smallest
<1> QED
  BY <1>1, <1>3 DEF Smallest

\* And so for the natural numbers.
LEMMA FromZero ==
    ASSUME NEW P, 0 \in P, \A n \in Nat : n \in P => n + 1 \in P
    PROVE  \A n \in Nat : n \in P
<1> SUFFICES ASSUME NEW n \in Nat, n \notin P
             PROVE  FALSE
  OBVIOUS
<1>1. PICK m \in Nat \ P : \A k \in Nat \ P : m <= k
  <2>1. Nat \ P \in SUBSET Nat /\ Nat \ P # {}
    OBVIOUS
  <2> QED
    BY <2>1, LeastNatural
<1>2. m - 1 \in Nat /\ m - 1 \in P
  BY <1>1
<1> QED
  BY <1>1, <1>2

-----------------------------------------------------------------------------
(***************************************************************************)
(* SumFunctionOnSet, the fold of the community modules: the function it is *)
(* defined by, which takes an element at a time by CHOOSE, exists, and the *)
(* order in which it takes them does not matter.                           *)
(***************************************************************************)
Choice(s) == CHOOSE x \in s : TRUE

\* The sums of f over the subsets of S, and over those of n elements at most.
Sums(g, f, S) ==
    g = [s \in SUBSET S |-> IF s = {} THEN 0 ELSE f[Choice(s)] + g[s \ {Choice(s)}]]

Small(S, n) == {s \in SUBSET S : Cardinality(s) <= n}
SmallSums(g, f, S, n) ==
    g = [s \in Small(S, n) |-> IF s = {} THEN 0 ELSE f[Choice(s)] + g[s \ {Choice(s)}]]

LEMMA ChoiceIn ==
    ASSUME NEW s, s # {}
    PROVE  Choice(s) \in s
BY DEF Choice

LEMMA SmallSumsExist ==
    ASSUME NEW S, IsFiniteSet(S), NEW f
    PROVE  \A n \in Nat : \E g : SmallSums(g, f, S, n)
<1>1. PICK P : P = {n \in Nat : \E g : SmallSums(g, f, S, n)}
  OBVIOUS
<1>2. \A T \in SUBSET S : IsFiniteSet(T) /\ Cardinality(T) \in Nat
  BY FS_Subset, FS_CardinalityType
<1>3. 0 \in P
  <2>1. Small(S, 0) = {{}}
    <3>1. \A T \in SUBSET S : Cardinality(T) <= 0 <=> T = {}
      BY <1>2, FS_EmptySet
    <3> QED
      BY <3>1 DEF Small
  <2>2. PICK g : g = [s \in {{}} |-> 0]
    OBVIOUS
  <2>3. g = [s \in {{}} |-> IF s = {} THEN 0 ELSE f[Choice(s)] + g[s \ {Choice(s)}]]
    BY <2>2
  <2> QED
    BY <1>1, <2>1, <2>3 DEF SmallSums
<1>4. ASSUME NEW n \in Nat, n \in P
      PROVE  n + 1 \in P
  <2>1. PICK g : SmallSums(g, f, S, n)
    BY <1>1, <1>4
  <2>2. PICK h : h = [s \in Small(S, n + 1) |->
                          IF s = {} THEN 0 ELSE f[Choice(s)] + g[s \ {Choice(s)}]]
    OBVIOUS
  <2>3. \A s \in Small(S, n) : s \in Small(S, n + 1) /\ h[s] = g[s]
    <3>1. \A s \in Small(S, n) : s \in Small(S, n + 1)
      BY <1>2 DEF Small
    <3> QED
      BY <2>1, <2>2, <3>1 DEF SmallSums
  <2>4. ASSUME NEW s \in Small(S, n + 1), s # {}
        PROVE  s \ {Choice(s)} \in Small(S, n)
    <3>1. Choice(s) \in s /\ s \in SUBSET S /\ Cardinality(s) <= n + 1
      BY <2>4, ChoiceIn DEF Small
    <3>2. Cardinality(s \ {Choice(s)}) = Cardinality(s) - 1
      BY <1>2, <3>1, FS_RemoveElement
    <3> QED
      BY <1>2, <3>1, <3>2 DEF Small
  <2>5. h = [s \in Small(S, n + 1) |->
                 IF s = {} THEN 0 ELSE f[Choice(s)] + h[s \ {Choice(s)}]]
    BY <2>2, <2>3, <2>4
  <2>6. SmallSums(h, f, S, n + 1)
    BY <2>5 DEF SmallSums
  <2> QED
    BY <1>1, <2>6
<1>5. \A n \in Nat : n \in P
  BY <1>3, <1>4, FromZero
<1> QED
  BY <1>1, <1>5

LEMMA SumsExist ==
    ASSUME NEW S, IsFiniteSet(S), NEW f
    PROVE  \E g : Sums(g, f, S)
<1>1. PICK n \in Nat : n = Cardinality(S)
  BY FS_CardinalityType
<1>2. Small(S, n) = SUBSET S
  BY <1>1, FS_Subset DEF Small
<1>3. PICK g : SmallSums(g, f, S, n)
  BY SmallSumsExist
<1> QED
  BY <1>2, <1>3 DEF SmallSums, Sums

LEMMA SumIsSums ==
    ASSUME NEW S, IsFiniteSet(S), NEW f
    PROVE  \E g : Sums(g, f, S) /\ SumFunctionOnSet(f, S) = g[S]
<1>1. PICK g : Sums(g, f, S)
  BY SumsExist
<1> QED
  BY <1>1, Zenon DEF SumFunctionOnSet, FoldFunctionOnSet, MapThenFoldSet, Sums, Choice

LEMMA SumsSame ==
    ASSUME NEW S, IsFiniteSet(S), NEW T, NEW f, NEW e, NEW g, NEW h,
           Sums(g, f, S), Sums(h, e, T), \A x \in S : f[x] = e[x], S \subseteq T
    PROVE  g[S] = h[S]
<1>1. PICK P : P = {s \in SUBSET S : g[s] = h[s]}
  OBVIOUS
<1> SUFFICES ASSUME NEW R \in SUBSET S, R \notin P
             PROVE  FALSE
  BY <1>1
<1>2. PICK s \in SUBSET S : Smallest(s, P)
  BY SmallestSet
<1>3. g[s] = h[s]
  <2>1. CASE s = {}
    BY <2>1 DEF Sums
  <2>2. CASE s # {}
    <3>1. PICK c : c = Choice(s) /\ c \in s
      BY <2>2, ChoiceIn
    <3>2. g[s \ {c}] = h[s \ {c}]
      BY <1>1, <1>2, <3>1 DEF Smallest
    <3>3. s \in SUBSET T
      OBVIOUS
    <3>4. g[s] = f[c] + g[s \ {c}]
      BY <2>2, <3>1 DEF Sums
    <3>5. h[s] = e[c] + h[s \ {c}]
      BY <2>2, <3>1, <3>3 DEF Sums
    <3> QED
      BY <3>1, <3>2, <3>4, <3>5
  <2> QED
    BY <2>1, <2>2
<1> QED
  BY <1>1, <1>2, <1>3 DEF Smallest

LEMMA SumsAreInts ==
    ASSUME NEW S, IsFiniteSet(S), NEW f, NEW g, Sums(g, f, S), \A x \in S : f[x] \in Int
    PROVE  \A s \in SUBSET S : g[s] \in Int
<1>1. PICK P : P = {s \in SUBSET S : g[s] \in Int}
  OBVIOUS
<1> SUFFICES ASSUME NEW R \in SUBSET S, R \notin P
             PROVE  FALSE
  BY <1>1
<1>2. PICK s \in SUBSET S : Smallest(s, P)
  BY SmallestSet
<1>3. g[s] \in Int
  <2>1. CASE s = {}
    BY <2>1 DEF Sums
  <2>2. CASE s # {}
    <3>1. PICK c : c = Choice(s) /\ c \in s
      BY <2>2, ChoiceIn
    <3>2. g[s \ {c}] \in Int
      BY <1>1, <1>2, <3>1 DEF Smallest
    <3>3. g[s] = f[c] + g[s \ {c}]
      BY <2>2, <3>1 DEF Sums
    <3> QED
      BY <3>1, <3>2, <3>3
  <2> QED
    BY <2>1, <2>2
<1> QED
  BY <1>1, <1>2, <1>3 DEF Smallest

LEMMA SumsTakeAny ==
    ASSUME NEW S, IsFiniteSet(S), NEW f, NEW g, Sums(g, f, S), \A x \in S : f[x] \in Int
    PROVE  \A s \in SUBSET S : \A x \in s : g[s] = f[x] + g[s \ {x}]
<1>1. PICK P : P = {s \in SUBSET S : \A x \in s : g[s] = f[x] + g[s \ {x}]}
  OBVIOUS
<1> SUFFICES ASSUME NEW R \in SUBSET S, R \notin P
             PROVE  FALSE
  BY <1>1
<1>2. PICK s \in SUBSET S : Smallest(s, P)
  BY SmallestSet
<1>3. ASSUME NEW x \in s
      PROVE  g[s] = f[x] + g[s \ {x}]
  <2>1. PICK c : c = Choice(s) /\ c \in s
    BY ChoiceIn
  <2>2. g[s] = f[c] + g[s \ {c}]
    BY <2>1 DEF Sums
  <2>3. CASE x = c
    BY <2>2, <2>3
  <2>4. CASE x # c
    <3>1. s \ {c} \in P /\ s \ {x} \in P
      BY <1>2, <2>1 DEF Smallest
    <3>2. x \in s \ {c} /\ c \in s \ {x}
      BY <2>1, <2>4
    <3>3. /\ g[s \ {c}] = f[x] + g[(s \ {c}) \ {x}]
          /\ g[s \ {x}] = f[c] + g[(s \ {x}) \ {c}]
      BY <1>1, <3>1, <3>2
    <3>4. (s \ {c}) \ {x} = (s \ {x}) \ {c} /\ (s \ {c}) \ {x} \in SUBSET S
      OBVIOUS
    <3>5. g[(s \ {c}) \ {x}] \in Int /\ f[x] \in Int /\ f[c] \in Int
      BY <2>1, <3>4, SumsAreInts
    <3>6. PICK rest : rest = (s \ {c}) \ {x}
      OBVIOUS
    <3>7. PICK a \in Int, b \in Int, m \in Int : a = f[x] /\ b = f[c] /\ m = g[rest]
      BY <3>5, <3>6
    <3>8. g[s] = b + (a + m) /\ g[s \ {x}] = b + m
      BY <2>2, <3>3, <3>4, <3>6, <3>7
    <3>9. g[s] = a + g[s \ {x}]
      BY <3>7, <3>8
    <3> QED
      BY <3>7, <3>9
  <2> QED
    BY <2>3, <2>4
<1> QED
  BY <1>1, <1>2, <1>3 DEF Smallest

-----------------------------------------------------------------------------
(***************************************************************************)
(* What a sum is.                                                          *)
(***************************************************************************)
LEMMA SumOfNone ==
    ASSUME NEW f
    PROVE  SumFunctionOnSet(f, {}) = 0
<1>1. PICK g : Sums(g, f, {}) /\ SumFunctionOnSet(f, {}) = g[{}]
  BY SumIsSums, FS_EmptySet
<1> QED
  BY <1>1 DEF Sums

LEMMA SumIsInt ==
    ASSUME NEW S, IsFiniteSet(S), NEW f, \A x \in S : f[x] \in Int
    PROVE  SumFunctionOnSet(f, S) \in Int
<1>1. PICK g : Sums(g, f, S) /\ SumFunctionOnSet(f, S) = g[S]
  BY SumIsSums
<1> QED
  BY <1>1, SumsAreInts

\* Only the values over the set matter.
LEMMA SumOfSame ==
    ASSUME NEW S, IsFiniteSet(S), NEW f, NEW e, \A x \in S : f[x] = e[x]
    PROVE  SumFunctionOnSet(f, S) = SumFunctionOnSet(e, S)
<1>1. PICK g : Sums(g, f, S) /\ SumFunctionOnSet(f, S) = g[S]
  BY SumIsSums
<1>2. PICK h : Sums(h, e, S) /\ SumFunctionOnSet(e, S) = h[S]
  BY SumIsSums
<1>3. g[S] = h[S]
  BY <1>1, <1>2, SumsSame
<1> QED
  BY <1>1, <1>2, <1>3

\* One element, whichever it is, and the others.
LEMMA SumOfOthers ==
    ASSUME NEW S, IsFiniteSet(S), NEW f, \A y \in S : f[y] \in Int, NEW x \in S
    PROVE  SumFunctionOnSet(f, S) = f[x] + SumFunctionOnSet(f, S \ {x})
<1>1. PICK g : Sums(g, f, S) /\ SumFunctionOnSet(f, S) = g[S]
  BY SumIsSums
<1>2. IsFiniteSet(S \ {x}) /\ S \ {x} \subseteq S
  BY FS_Subset
<1>3. PICK h : Sums(h, f, S \ {x}) /\ SumFunctionOnSet(f, S \ {x}) = h[S \ {x}]
  BY <1>2, SumIsSums
<1>4. h[S \ {x}] = g[S \ {x}]
  BY <1>1, <1>2, <1>3, SumsSame
<1>5. g[S] = f[x] + g[S \ {x}]
  BY <1>1, SumsTakeAny
<1> QED
  BY <1>1, <1>3, <1>4, <1>5

\* The sum of two functions is the two sums; of what is nowhere negative, neither.
LEMMA SumOfSums ==
    ASSUME NEW S, IsFiniteSet(S), NEW f, NEW e, NEW h,
           \A x \in S : f[x] \in Int /\ e[x] \in Int /\ h[x] = f[x] + e[x]
    PROVE  SumFunctionOnSet(h, S) = SumFunctionOnSet(f, S) + SumFunctionOnSet(e, S)
<1>1. PICK P : P = {T \in SUBSET S : SumFunctionOnSet(h, T)
                        = SumFunctionOnSet(f, T) + SumFunctionOnSet(e, T)}
  OBVIOUS
<1>2. {} \in P
  BY <1>1, SumOfNone
<1>3. ASSUME NEW T \in SUBSET S, NEW x \in S \ T, T \in P
      PROVE  T \cup {x} \in P
  <2> DEFINE U == T \cup {x}
  <2>1. U \in SUBSET S /\ x \in U /\ U \ {x} = T
    OBVIOUS
  <2>2. IsFiniteSet(U) /\ IsFiniteSet(T)
    BY <2>1, FS_Subset
  <2>3. /\ SumFunctionOnSet(f, U) = f[x] + SumFunctionOnSet(f, T)
        /\ SumFunctionOnSet(e, U) = e[x] + SumFunctionOnSet(e, T)
        /\ SumFunctionOnSet(h, U) = h[x] + SumFunctionOnSet(h, T)
    <3>1. \A y \in U : f[y] \in Int /\ e[y] \in Int /\ h[y] \in Int
      BY <2>1
    <3> QED
      BY <2>1, <2>2, <3>1, SumOfOthers
  <2>4. SumFunctionOnSet(f, T) \in Int /\ SumFunctionOnSet(e, T) \in Int
    BY <2>2, SumIsInt
  <2>5. SumFunctionOnSet(h, T) = SumFunctionOnSet(f, T) + SumFunctionOnSet(e, T)
    BY <1>1, <1>3
  <2>6. PICK a \in Int, b \in Int, m \in Int, n \in Int :
            /\ a = f[x] /\ b = e[x]
            /\ m = SumFunctionOnSet(f, T) /\ n = SumFunctionOnSet(e, T)
    BY <2>4
  <2>7. SumFunctionOnSet(h, U) = SumFunctionOnSet(f, U) + SumFunctionOnSet(e, U)
    BY <2>3, <2>5, <2>6
  <2> QED
    BY <1>1, <2>1, <2>7
<1>4. S \in P
  BY <1>2, <1>3, OneByOne
<1> QED
  BY <1>1, <1>4

\* The sum of differences is the difference of the sums.
LEMMA SumOfDifferences ==
    ASSUME NEW S, IsFiniteSet(S), NEW f, NEW e, NEW h,
           \A x \in S : f[x] \in Int /\ e[x] \in Int /\ h[x] = f[x] - e[x]
    PROVE  SumFunctionOnSet(h, S) = SumFunctionOnSet(f, S) - SumFunctionOnSet(e, S)
<1>1. \A x \in S : h[x] \in Int /\ e[x] \in Int /\ f[x] = h[x] + e[x]
  OBVIOUS
<1>2. SumFunctionOnSet(f, S) = SumFunctionOnSet(h, S) + SumFunctionOnSet(e, S)
  BY <1>1, SumOfSums
<1>3. SumFunctionOnSet(h, S) \in Int /\ SumFunctionOnSet(e, S) \in Int
  BY <1>1, SumIsInt
<1> QED
  BY <1>2, <1>3

\* The sum of ones is the number of elements.
LEMMA SumOfOnes ==
    ASSUME NEW S, IsFiniteSet(S), NEW f, NEW R \in SUBSET S,
           \A x \in S : f[x] = IF x \in R THEN 1 ELSE 0
    PROVE  SumFunctionOnSet(f, S) = Cardinality(R)
<1>1. PICK P : P = {T \in SUBSET S : SumFunctionOnSet(f, T) = Cardinality(R \cap T)}
  OBVIOUS
<1>2. {} \in P
  BY <1>1, SumOfNone, FS_EmptySet
<1>3. ASSUME NEW T \in SUBSET S, NEW x \in S \ T, T \in P
      PROVE  T \cup {x} \in P
  <2> DEFINE U == T \cup {x}
  <2>1. U \in SUBSET S /\ x \in U /\ U \ {x} = T
    OBVIOUS
  <2>2. IsFiniteSet(U) /\ IsFiniteSet(R \cap T)
    BY <2>1, FS_Subset
  <2>3. SumFunctionOnSet(f, U) = f[x] + SumFunctionOnSet(f, T)
    <3>1. \A y \in U : f[y] \in Int
      BY <2>1
    <3> QED
      BY <2>1, <2>2, <3>1, SumOfOthers
  <2>4. SumFunctionOnSet(f, T) = Cardinality(R \cap T) /\ Cardinality(R \cap T) \in Nat
    BY <1>1, <1>3, <2>2, FS_CardinalityType
  <2>5. Cardinality(R \cap U) = f[x] + Cardinality(R \cap T)
    <3>1. CASE x \in R
      <4>1. R \cap U = (R \cap T) \cup {x} /\ x \notin R \cap T /\ f[x] = 1
        BY <2>1, <3>1
      <4>2. Cardinality((R \cap T) \cup {x}) = Cardinality(R \cap T) + 1
        BY <2>2, <4>1, FS_AddElement
      <4>3. Cardinality(R \cap U) = Cardinality((R \cap T) \cup {x})
        BY <4>1
      <4>4. PICK n \in Nat : n = Cardinality(R \cap T)
        BY <2>4
      <4>5. Cardinality(R \cap U) = n + 1
        BY <4>2, <4>3, <4>4
      <4>6. f[x] + n = n + 1
        BY <4>1
      <4> QED
        BY <4>4, <4>5, <4>6
    <3>2. CASE x \notin R
      <4>1. R \cap U = R \cap T /\ f[x] = 0
        BY <2>1, <3>2
      <4>2. PICK n \in Nat : n = Cardinality(R \cap T)
        BY <2>4
      <4>3. f[x] + n = n
        BY <4>1
      <4> QED
        BY <4>1, <4>2, <4>3
    <3> QED
      BY <3>1, <3>2
  <2> QED
    BY <1>1, <2>1, <2>3, <2>4, <2>5
<1>4. S \in P /\ R \cap S = R
  BY <1>2, <1>3, OneByOne
<1> QED
  BY <1>1, <1>4

\* A sum of what is in a set that is closed under addition is in it.
LEMMA SumIsIn ==
    ASSUME NEW S, IsFiniteSet(S), NEW f, NEW C \in SUBSET Int,
           0 \in C, \A a, b \in C : a + b \in C,
           \A x \in S : f[x] \in C
    PROVE  SumFunctionOnSet(f, S) \in C
<1>1. PICK P : P = {T \in SUBSET S : SumFunctionOnSet(f, T) \in C}
  OBVIOUS
<1>2. {} \in P
  BY <1>1, SumOfNone
<1>3. ASSUME NEW T \in SUBSET S, NEW x \in S \ T, T \in P
      PROVE  T \cup {x} \in P
  <2> DEFINE U == T \cup {x}
  <2>1. U \in SUBSET S /\ x \in U /\ U \ {x} = T
    OBVIOUS
  <2>2. IsFiniteSet(U)
    BY <2>1, FS_Subset
  <2>3. \A y \in U : f[y] \in Int
    BY <2>1
  <2>4. SumFunctionOnSet(f, U) = f[x] + SumFunctionOnSet(f, T)
    BY <2>1, <2>2, <2>3, SumOfOthers
  <2>5. SumFunctionOnSet(f, T) \in C
    BY <1>1, <1>3
  <2>6. SumFunctionOnSet(f, U) \in C
    BY <2>4, <2>5
  <2> QED
    BY <1>1, <2>1, <2>6
<1>4. S \in P
  BY <1>2, <1>3, OneByOne
<1> QED
  BY <1>1, <1>4

\* What is zero adds nothing.
LEMMA SumOverMore ==
    ASSUME NEW T, IsFiniteSet(T), NEW S \in SUBSET T, NEW f,
           \A x \in T : f[x] \in Int, \A x \in T \ S : f[x] = 0
    PROVE  SumFunctionOnSet(f, T) = SumFunctionOnSet(f, S)
<1>1. PICK P : P = {R \in SUBSET (T \ S) :
                       SumFunctionOnSet(f, S \cup R) = SumFunctionOnSet(f, S)}
  OBVIOUS
<1>2. {} \in P
  BY <1>1
<1>3. ASSUME NEW R \in SUBSET (T \ S), NEW x \in (T \ S) \ R, R \in P
      PROVE  R \cup {x} \in P
  <2> DEFINE U == S \cup (R \cup {x})
  <2>1. U \subseteq T /\ x \in U /\ U \ {x} = S \cup R /\ f[x] = 0
    OBVIOUS
  <2>2. IsFiniteSet(U) /\ IsFiniteSet(S \cup R)
    BY <2>1, FS_Subset
  <2>3. \A y \in U : f[y] \in Int
    BY <2>1
  <2>4. SumFunctionOnSet(f, U) = f[x] + SumFunctionOnSet(f, S \cup R)
    BY <2>1, <2>2, <2>3, SumOfOthers
  <2>5. SumFunctionOnSet(f, S \cup R) \in Int
    BY <2>1, <2>2, <2>3, SumIsInt
  <2>6. SumFunctionOnSet(f, U) = SumFunctionOnSet(f, S)
    BY <1>1, <1>3, <2>1, <2>4, <2>5
  <2> QED
    BY <1>1, <2>6
<1>4. T \ S \in P /\ S \cup (T \ S) = T
  <2>1. IsFiniteSet(T \ S)
    BY FS_Subset
  <2> QED
    BY <1>2, <1>3, <2>1, OneByOne
<1> QED
  BY <1>1, <1>4

\* Of the only value that is not zero, the sum.
LEMMA SumOfOne ==
    ASSUME NEW S, IsFiniteSet(S), NEW f, NEW x \in S, f[x] \in Int,
           \A y \in S \ {x} : f[y] = 0
    PROVE  SumFunctionOnSet(f, S) = f[x]
<1>1. \A y \in S : f[y] \in Int
  OBVIOUS
<1>2. SumFunctionOnSet(f, S) = SumFunctionOnSet(f, {x})
  BY <1>1, SumOverMore
<1>3. SumFunctionOnSet(f, {x}) = f[x] + SumFunctionOnSet(f, {x} \ {x})
  BY FS_Singleton, SumOfOthers
<1>4. {x} \ {x} = {} /\ SumFunctionOnSet(f, {}) = 0
  BY SumOfNone
<1> QED
  BY <1>2, <1>3, <1>4

-----------------------------------------------------------------------------
(***************************************************************************)
(* The sum of a function over the whole of its domain, a sequence being    *)
(* one.                                                                    *)
(***************************************************************************)
IsSummable(f) == IsFiniteSet(DOMAIN f) /\ \A x \in DOMAIN f : f[x] \in Int

LEMMA TotalIsInt ==
    ASSUME NEW f, IsSummable(f)
    PROVE  SumFunction(f) \in Int
BY SumIsInt DEF IsSummable, SumFunction

LEMMA TotalOfSame ==
    ASSUME NEW f, NEW e, IsSummable(f), DOMAIN e = DOMAIN f,
           \A x \in DOMAIN f : e[x] = f[x]
    PROVE  SumFunction(e) = SumFunction(f)
<1>1. IsFiniteSet(DOMAIN f)
  BY DEF IsSummable
<1> QED
  BY <1>1, SumOfSame DEF SumFunction

\* What is not negative adds up to no less than any of its parts.
LEMMA TotalIsAtLeast ==
    ASSUME NEW f, IsFiniteSet(DOMAIN f), \A x \in DOMAIN f : f[x] \in Nat
    PROVE  /\ SumFunction(f) \in Nat
           /\ \A x \in DOMAIN f : f[x] <= SumFunction(f)
<1>1. \A S \in SUBSET DOMAIN f : SumFunctionOnSet(f, S) \in Nat
  <2> TAKE S \in SUBSET DOMAIN f
  <2>1. IsFiniteSet(S) /\ \A x \in S : f[x] \in Nat
    BY FS_Subset
  <2>2. Nat \in SUBSET Int /\ 0 \in Nat /\ \A a, b \in Nat : a + b \in Nat
    OBVIOUS
  <2> QED
    BY <2>1, <2>2, SumIsIn
<1>2. ASSUME NEW x \in DOMAIN f
      PROVE  f[x] <= SumFunctionOnSet(f, DOMAIN f)
  <2>1. \A y \in DOMAIN f : f[y] \in Int
    OBVIOUS
  <2>2. SumFunctionOnSet(f, DOMAIN f) = f[x] + SumFunctionOnSet(f, DOMAIN f \ {x})
    BY <2>1, SumOfOthers
  <2>3. SumFunctionOnSet(f, DOMAIN f \ {x}) \in Nat
    BY <1>1
  <2> QED
    BY <2>2, <2>3
<1> QED
  BY <1>1, <1>2 DEF SumFunction

\* One value is replaced by another.
LEMMA TotalOfReplaced ==
    ASSUME NEW f, NEW e, NEW x \in DOMAIN f, IsSummable(f), DOMAIN e = DOMAIN f,
           e[x] \in Int, \A y \in DOMAIN f : y # x => e[y] = f[y]
    PROVE  SumFunction(e) = SumFunction(f) - f[x] + e[x]
<1> DEFINE S == DOMAIN f
           rest == S \ {x}
<1>1. IsFiniteSet(S) /\ IsFiniteSet(rest)
  BY FS_Subset DEF IsSummable
<1>2. \A y \in S : f[y] \in Int /\ e[y] \in Int
  BY DEF IsSummable
<1>3. SumFunctionOnSet(f, S) = f[x] + SumFunctionOnSet(f, rest)
  BY <1>1, <1>2, SumOfOthers
<1>4. SumFunctionOnSet(e, S) = e[x] + SumFunctionOnSet(e, rest)
  BY <1>1, <1>2, SumOfOthers
<1>5. SumFunctionOnSet(e, rest) = SumFunctionOnSet(f, rest)
  BY <1>1, SumOfSame
<1>6. SumFunctionOnSet(f, rest) \in Int
  BY <1>1, <1>2, SumIsInt
<1> QED
  BY <1>2, <1>3, <1>4, <1>5, <1>6 DEF SumFunction

\* One value more.
LEMMA TotalOfMore ==
    ASSUME NEW f, NEW e, NEW x, IsSummable(f), x \notin DOMAIN f,
           DOMAIN e = DOMAIN f \cup {x}, e[x] \in Int,
           \A y \in DOMAIN f : e[y] = f[y]
    PROVE  SumFunction(e) = SumFunction(f) + e[x]
<1>1. IsFiniteSet(DOMAIN f) /\ IsFiniteSet(DOMAIN e)
  BY FS_AddElement DEF IsSummable
<1>2. \A y \in DOMAIN e : e[y] \in Int
  BY DEF IsSummable
<1>3. DOMAIN e \ {x} = DOMAIN f /\ x \in DOMAIN e
  OBVIOUS
<1>4. SumFunctionOnSet(e, DOMAIN e) = e[x] + SumFunctionOnSet(e, DOMAIN f)
  BY <1>1, <1>2, <1>3, SumOfOthers
<1>5. SumFunctionOnSet(e, DOMAIN f) = SumFunctionOnSet(f, DOMAIN f)
  BY <1>1, SumOfSame
<1>6. SumFunctionOnSet(f, DOMAIN f) \in Int
  BY <1>1, SumIsInt DEF IsSummable
<1> QED
  BY <1>4, <1>5, <1>6 DEF SumFunction

\* Of a sequence: nothing, and the sum of its parts with what is appended.
LEMMA TotalOfNone == SumFunction(<<>>) = 0
<1>1. DOMAIN <<>> = {}
  OBVIOUS
<1> QED
  BY <1>1, SumOfNone DEF SumFunction

LEMMA SequenceIsSummable ==
    ASSUME NEW s \in Seq(Int)
    PROVE  IsSummable(s)
<1>1. DOMAIN s = 1 .. Len(s) /\ Len(s) \in Nat
  OBVIOUS
<1>2. IsFiniteSet(1 .. Len(s))
  BY <1>1, FS_Interval
<1> QED
  BY <1>1, <1>2 DEF IsSummable

LEMMA TotalOfAppended ==
    ASSUME NEW s \in Seq(Int), NEW x \in Int
    PROVE  SumFunction(Append(s, x)) = SumFunction(s) + x
<1> DEFINE t == Append(s, x)
           n == Len(s) + 1
<1>1. /\ n \notin DOMAIN s
      /\ DOMAIN t = DOMAIN s \cup {n}
      /\ t[n] = x
      /\ \A i \in DOMAIN s : t[i] = s[i]
  OBVIOUS
<1>2. IsSummable(s)
  BY SequenceIsSummable
<1> HIDE DEF t, n
<1>3. SumFunction(t) = SumFunction(s) + t[n]
  BY <1>1, <1>2, TotalOfMore
<1> QED
  BY <1>1, <1>3 DEF t

\* The sum over a set, by the function that has the set as its domain.
LEMMA TotalOver ==
    ASSUME NEW S, IsFiniteSet(S), NEW f, NEW e, DOMAIN e = S, \A x \in S : e[x] = f[x]
    PROVE  SumFunction(e) = SumFunctionOnSet(f, S)
BY SumOfSame DEF SumFunction

-----------------------------------------------------------------------------
(***************************************************************************)
(* Sums over sets that are taken apart.                                    *)
(***************************************************************************)
LEMMA SumOfUnion ==
    ASSUME NEW S, IsFiniteSet(S), NEW T, IsFiniteSet(T), S \cap T = {}, NEW f,
           \A x \in S \cup T : f[x] \in Int
    PROVE  SumFunctionOnSet(f, S \cup T)
               = SumFunctionOnSet(f, S) + SumFunctionOnSet(f, T)
<1>1. PICK P : P = {R \in SUBSET T :
                       SumFunctionOnSet(f, S \cup R)
                           = SumFunctionOnSet(f, S) + SumFunctionOnSet(f, R)}
  OBVIOUS
<1>2. SumFunctionOnSet(f, S) \in Int
  BY SumIsInt
<1>3. {} \in P
  BY <1>1, <1>2, SumOfNone
<1>4. ASSUME NEW R \in SUBSET T, NEW x \in T \ R, R \in P
      PROVE  R \cup {x} \in P
  <2> DEFINE U == S \cup (R \cup {x})
             V == R \cup {x}
  <2>1. /\ U \subseteq S \cup T /\ x \in U /\ U \ {x} = S \cup R
        /\ V \subseteq T /\ x \in V /\ V \ {x} = R
    OBVIOUS
  <2>2. IsFiniteSet(U) /\ IsFiniteSet(V) /\ IsFiniteSet(R)
    <3>1. IsFiniteSet(S \cup T)
      BY FS_Union
    <3> QED
      BY <2>1, <3>1, FS_Subset
  <2>3. /\ \A y \in U : f[y] \in Int
        /\ \A y \in V : f[y] \in Int
        /\ \A y \in R : f[y] \in Int
        /\ f[x] \in Int
    BY <2>1
  <2> HIDE DEF U, V
  <2>4. /\ SumFunctionOnSet(f, U) = f[x] + SumFunctionOnSet(f, S \cup R)
        /\ SumFunctionOnSet(f, V) = f[x] + SumFunctionOnSet(f, R)
    BY <2>1, <2>2, <2>3, SumOfOthers
  <2>5. SumFunctionOnSet(f, R) \in Int
    BY <2>2, <2>3, SumIsInt
  <2>6. SumFunctionOnSet(f, S \cup R) = SumFunctionOnSet(f, S) + SumFunctionOnSet(f, R)
    BY <1>1, <1>4
  <2>7. SumFunctionOnSet(f, U) = SumFunctionOnSet(f, S) + SumFunctionOnSet(f, V)
    BY <1>2, <2>3, <2>4, <2>5, <2>6
  <2> QED
    BY <1>1, <2>7 DEF U, V
<1>5. T \in P
  BY <1>3, <1>4, OneByOne
<1> QED
  BY <1>1, <1>5

\* The set Q falls into the classes C, which the elements of K name.
AreClasses(C, K, Q) ==
    /\ IsFiniteSet(K)
    /\ \A k \in K : IsFiniteSet(C[k]) /\ C[k] \subseteq Q
    /\ \A x \in Q : \E k \in K : x \in C[k]
    /\ \A k, l \in K : k # l => C[k] \cap C[l] = {}

\* A set that falls into classes is as much as its classes.
LEMMA SumOfClasses ==
    ASSUME NEW K, NEW C, NEW Q, AreClasses(C, K, Q), NEW f, NEW h,
           \A x \in Q : f[x] \in Int,
           \A k \in K : h[k] = SumFunctionOnSet(f, C[k])
    PROVE  /\ IsFiniteSet(Q)
           /\ SumFunctionOnSet(f, Q) = SumFunctionOnSet(h, K)
<1> DEFINE In(L) == {x \in Q : \E k \in L : x \in C[k]}
<1>1. PICK P : P = {L \in SUBSET K :
                       /\ IsFiniteSet(In(L))
                       /\ SumFunctionOnSet(f, In(L)) = SumFunctionOnSet(h, L)}
  OBVIOUS
<1>2. \A k \in K : h[k] \in Int
  BY SumIsInt DEF AreClasses
<1>3. {} \in P
  <2>1. In({}) = {}
    OBVIOUS
  <2> HIDE DEF In
  <2> QED
    BY <1>1, <2>1, SumOfNone, FS_EmptySet
<1>4. ASSUME NEW L \in SUBSET K, NEW l \in K \ L, L \in P
      PROVE  L \cup {l} \in P
  <2> DEFINE all == In(L)
             own == C[l]
             M   == L \cup {l}
  <2>1. In(M) = all \cup own
    BY DEF AreClasses
  <2>2. all \cap own = {}
    <3> SUFFICES ASSUME NEW x \in all, x \in own
                 PROVE  FALSE
      OBVIOUS
    <3>1. PICK k \in L : x \in C[k]
      OBVIOUS
    <3>2. C[k] \cap C[l] = {}
      BY <1>4 DEF AreClasses
    <3> QED
      BY <3>1, <3>2
  <2>3. \A x \in all \cup own : f[x] \in Int
    BY DEF AreClasses
  <2>4. /\ IsFiniteSet(all) /\ IsFiniteSet(own)
        /\ SumFunctionOnSet(f, all) = SumFunctionOnSet(h, L)
    BY <1>1, <1>4 DEF AreClasses
  <2>5. M \in SUBSET K /\ l \in M /\ M \ {l} = L /\ IsFiniteSet(M) /\ IsFiniteSet(L)
    <3>1. M \in SUBSET K /\ l \in M /\ M \ {l} = L
      OBVIOUS
    <3> QED
      BY <3>1, FS_Subset DEF AreClasses
  <2>6. h[l] = SumFunctionOnSet(f, own) /\ h[l] \in Int
    BY <1>2
  <2> HIDE DEF all, own, M, In
  <2>7. IsFiniteSet(all \cup own)
    BY <2>4, FS_Union
  <2>8. SumFunctionOnSet(f, all \cup own)
            = SumFunctionOnSet(f, all) + SumFunctionOnSet(f, own)
    BY <2>2, <2>3, <2>4, SumOfUnion
  <2>9. SumFunctionOnSet(h, M) = h[l] + SumFunctionOnSet(h, L)
    BY <1>2, <2>5, SumOfOthers
  <2>10. SumFunctionOnSet(h, L) \in Int
    BY <1>2, <2>5, SumIsInt
  <2>11. SumFunctionOnSet(f, In(M)) = SumFunctionOnSet(h, M)
    BY <2>1, <2>4, <2>6, <2>8, <2>9, <2>10
  <2> QED
    BY <1>1, <2>1, <2>5, <2>7, <2>11 DEF M
<1>5. K \in P
  BY <1>3, <1>4, OneByOne DEF AreClasses
<1>6. In(K) = Q
  BY DEF AreClasses
<1> QED
  BY <1>1, <1>5, <1>6

\* The elements of T are named by those of S, one by one.
AreNames(b, S, T) ==
    /\ IsFiniteSet(S)
    /\ \A x \in S : b[x] \in T
    /\ \A z \in T : \E x \in S : z = b[x]
    /\ \A x, y \in S : b[x] = b[y] => x = y

LEMMA SumOfNamed ==
    ASSUME NEW S, NEW b, NEW T, AreNames(b, S, T), NEW f, NEW e,
           \A x \in S : f[b[x]] = e[x] /\ e[x] \in Int
    PROVE  /\ IsFiniteSet(T)
           /\ SumFunctionOnSet(f, T) = SumFunctionOnSet(e, S)
<1> DEFINE C == [x \in S |-> {b[x]}]
<1>1. \A x \in S : C[x] = {b[x]}
  OBVIOUS
<1> HIDE DEF C
<1>2. ASSUME NEW x \in S
      PROVE  IsFiniteSet(C[x]) /\ C[x] \subseteq T /\ e[x] = SumFunctionOnSet(f, C[x])
  <2> DEFINE z == b[x]
  <2>1. f[z] = e[x] /\ e[x] \in Int /\ C[x] = {z} /\ z \in T
    BY <1>1 DEF AreNames
  <2> HIDE DEF z
  <2>2. IsFiniteSet({z}) /\ {z} \ {z} = {}
    BY FS_Singleton
  <2>3. SumFunctionOnSet(f, {z}) = f[z]
    BY <2>1, <2>2, SumOfOne
  <2> QED
    BY <2>1, <2>2, <2>3
<1>3. \A x, y \in S : x # y => C[x] \cap C[y] = {}
  BY <1>1 DEF AreNames
<1>4. \A z \in T : \E x \in S : z \in C[x]
  BY <1>1 DEF AreNames
<1>5. AreClasses(C, S, T)
  BY <1>2, <1>3, <1>4 DEF AreClasses, AreNames
<1>6. \A z \in T : f[z] \in Int
  BY DEF AreNames
<1> QED
  BY <1>2, <1>5, <1>6, SumOfClasses

\* A table adds up to the same by its rows and by its columns.
IsTable(row, column, K, I) ==
    /\ IsFiniteSet(K) /\ IsFiniteSet(I)
    /\ \A k \in K : \A i \in I : row[k][i] \in Int /\ column[i][k] = row[k][i]

LEMMA SumExchanged ==
    ASSUME NEW K, NEW I, NEW row, NEW column, IsTable(row, column, K, I),
           NEW h, \A k \in K : h[k] = SumFunctionOnSet(row[k], I),
           NEW e, \A i \in I : e[i] = SumFunctionOnSet(column[i], K)
    PROVE  SumFunctionOnSet(h, K) = SumFunctionOnSet(e, I)
<1> USE DEF IsTable
<1> DEFINE Part(L) == [i \in I |-> SumFunctionOnSet(column[i], L)]
<1>1. PICK P : P = {L \in SUBSET K :
                       SumFunctionOnSet(h, L) = SumFunctionOnSet(Part(L), I)}
  OBVIOUS
<1>2. \A L : \A i \in I : Part(L)[i] = SumFunctionOnSet(column[i], L)
  OBVIOUS
<1> HIDE DEF Part
<1>3. \A k \in K : h[k] \in Int
  BY SumIsInt
<1>4. {} \in P
  <2>1. \A i \in I : Part({})[i] \in {0}
    BY <1>2, SumOfNone
  <2>2. {0} \in SUBSET Int /\ 0 \in {0} /\ \A a, b \in {0} : a + b \in {0}
    OBVIOUS
  <2>3. SumFunctionOnSet(Part({}), I) \in {0}
    BY <2>1, <2>2, SumIsIn
  <2> QED
    BY <1>1, <2>3, SumOfNone
<1>5. ASSUME NEW L \in SUBSET K, NEW l \in K \ L, L \in P
      PROVE  L \cup {l} \in P
  <2> DEFINE M == L \cup {l}
  <2>1. M \in SUBSET K /\ l \in M /\ M \ {l} = L /\ IsFiniteSet(M) /\ IsFiniteSet(L)
    <3>1. M \in SUBSET K /\ l \in M /\ M \ {l} = L
      OBVIOUS
    <3> QED
      BY <3>1, FS_Subset
  <2> HIDE DEF M
  <2>2. \A i \in I : /\ Part(M)[i] = row[l][i] + Part(L)[i]
                     /\ row[l][i] \in Int /\ Part(L)[i] \in Int
    <3> TAKE i \in I
    <3>1. \A k \in M : column[i][k] \in Int
      BY <2>1
    <3>2. SumFunctionOnSet(column[i], M)
              = column[i][l] + SumFunctionOnSet(column[i], M \ {l})
      BY <2>1, <3>1, SumOfOthers
    <3>3. \A k \in L : column[i][k] \in Int
      BY <2>1
    <3>4. SumFunctionOnSet(column[i], L) \in Int
      BY <2>1, <3>3, SumIsInt
    <3> QED
      BY <1>2, <2>1, <3>2, <3>4
  <2>3. SumFunctionOnSet(Part(M), I)
            = SumFunctionOnSet(row[l], I) + SumFunctionOnSet(Part(L), I)
    BY <2>2, SumOfSums
  <2>4. \A k \in M : h[k] \in Int
    BY <1>3, <2>1
  <2>5. SumFunctionOnSet(h, M) = h[l] + SumFunctionOnSet(h, M \ {l})
    BY <2>1, <2>4, SumOfOthers
  <2>6. SumFunctionOnSet(h, M) = SumFunctionOnSet(Part(M), I)
    BY <1>1, <1>5, <2>1, <2>3, <2>5
  <2> QED
    BY <1>1, <2>1, <2>6 DEF M
<1>6. K \in P
  BY <1>4, <1>5, OneByOne
<1>7. SumFunctionOnSet(Part(K), I) = SumFunctionOnSet(e, I)
  BY <1>2, SumOfSame
<1> QED
  BY <1>1, <1>6, <1>7

-----------------------------------------------------------------------------
(***************************************************************************)
(* Multiples.                                                              *)
(***************************************************************************)
\* A sum is multiplied value by value.
LEMMA SumOfMultiples ==
    ASSUME NEW S, IsFiniteSet(S), NEW n \in Int, NEW f, NEW e,
           \A x \in S : e[x] \in Int /\ f[x] = n * e[x]
    PROVE  SumFunctionOnSet(f, S) = n * SumFunctionOnSet(e, S)
<1>1. PICK P : P = {T \in SUBSET S : SumFunctionOnSet(f, T) = n * SumFunctionOnSet(e, T)}
  OBVIOUS
<1>2. {} \in P
  BY <1>1, SumOfNone
<1>3. \A x \in S : f[x] \in Int
  <2>1. \A k \in Int : n * k \in Int
    OBVIOUS
  <2> QED
    BY <2>1
<1>4. ASSUME NEW T \in SUBSET S, NEW x \in S \ T, T \in P
      PROVE  T \cup {x} \in P
  <2>1. IsFiniteSet(T) /\ IsFiniteSet(T \cup {x}) /\ (T \cup {x}) \ {x} = T
    BY <1>4, FS_Subset, FS_AddElement
  <2>2. /\ SumFunctionOnSet(f, T \cup {x}) = f[x] + SumFunctionOnSet(f, T)
        /\ SumFunctionOnSet(e, T \cup {x}) = e[x] + SumFunctionOnSet(e, T)
    BY <1>3, <2>1, SumOfOthers
  <2>3. SumFunctionOnSet(f, T) = n * SumFunctionOnSet(e, T)
    BY <1>1, <1>4
  <2>4. SumFunctionOnSet(e, T) \in Int
    BY <2>1, SumIsInt
  <2>5. \A a, b \in Int : n * a + n * b = n * (a + b)
    OBVIOUS
  <2>6. SumFunctionOnSet(f, T \cup {x}) = n * SumFunctionOnSet(e, T \cup {x})
    BY <2>2, <2>3, <2>4, <2>5
  <2> QED
    BY <1>1, <2>6
<1>5. S \in P
  BY <1>2, <1>4, OneByOne
<1> QED
  BY <1>1, <1>5

-----------------------------------------------------------------------------
(***************************************************************************)
(* Places in a ranking.  before[x] is the set of those that come before x. *)
(***************************************************************************)
IsRanking(before, S) ==
    /\ IsFiniteSet(S)
    /\ \A x \in S : before[x] \subseteq S \ {x}
    /\ \A x, y \in S : x # y => x \in before[y] \/ y \in before[x]
    /\ \A x, y, z \in S : x \in before[y] /\ y \in before[z] => x \in before[z]

Place(before, S) == [x \in S |-> Cardinality(before[x])]

\* Nobody has the place of another one.
LEMMA PlacesDiffer ==
    ASSUME NEW S, NEW before, IsRanking(before, S)
    PROVE  /\ \A x \in S : Place(before, S)[x] \in 0 .. Cardinality(S) - 1
           /\ \A x, y \in S : x \in before[y] => Place(before, S)[x] < Place(before, S)[y]
           /\ \A x, y \in S : x # y => Place(before, S)[x] # Place(before, S)[y]
           /\ Cardinality(S) \in Nat
<1> USE DEF IsRanking
<1>1. \A x \in S : IsFiniteSet(before[x]) /\ Cardinality(before[x]) \in Nat
  BY FS_Subset, FS_CardinalityType
<1>2. Cardinality(S) \in Nat
  BY FS_CardinalityType
<1>3. ASSUME NEW x \in S
      PROVE  Cardinality(before[x]) < Cardinality(S)
  <2>1. before[x] \in SUBSET S /\ before[x] # S
    OBVIOUS
  <2>2. Cardinality(before[x]) <= Cardinality(S) /\ Cardinality(before[x]) # Cardinality(S)
    BY <2>1, FS_Subset, Zenon DEF IsRanking
  <2> QED
    BY <1>1, <1>2, <2>2
<1>4. ASSUME NEW x \in S, NEW y \in S, x \in before[y]
      PROVE  Cardinality(before[x]) < Cardinality(before[y])
  <2>1. before[x] \subseteq before[y] /\ before[x] # before[y]
    BY <1>4
  <2> QED
    BY <1>1, <2>1, FS_Subset
<1>5. \A x, y \in S : x # y => Cardinality(before[x]) # Cardinality(before[y])
  BY <1>1, <1>4
<1> QED
  BY <1>1, <1>2, <1>3, <1>4, <1>5 DEF Place

\* As many as k have one of the first k places.
LEMMA FirstPlaces ==
    ASSUME NEW S, NEW before, IsRanking(before, S), NEW k \in Nat, k <= Cardinality(S)
    PROVE  Cardinality({x \in S : Place(before, S)[x] < k}) = k
<1>1. PICK place : place = Place(before, S)
  OBVIOUS
<1>2. PICK n : n = Cardinality(S)
  OBVIOUS
<1>3. /\ n \in Nat /\ IsFiniteSet(S) /\ DOMAIN place = S
      /\ \A x \in S : place[x] \in 0 .. n - 1
      /\ \A x, y \in S : x # y => place[x] # place[y]
  BY <1>1, <1>2, PlacesDiffer DEF IsRanking, Place
<1>4. PICK f : f = [x \in S |-> place[x]]
  OBVIOUS
<1>5. f \in Injection(S, 0 .. n - 1)
  BY <1>3, <1>4 DEF Injection, IsInjective
<1>6. IsFiniteSet(0 .. n - 1) /\ Cardinality(0 .. n - 1) = n
  BY <1>3, FS_Interval
<1>7. f \in Surjection(S, 0 .. n - 1)
  BY <1>2, <1>5, <1>6, FS_Injection, Zenon
<1>8. \A m \in 0 .. n - 1 : \E x \in S : place[x] = m
  BY <1>4, <1>7 DEF Surjection
<1>9. PICK R : R = {x \in S : place[x] < k}
  OBVIOUS
<1>10. PICK g : g = [x \in R |-> place[x]]
  OBVIOUS
<1>11. g \in Injection(R, 0 .. k - 1)
  BY <1>3, <1>9, <1>10 DEF Injection, IsInjective
<1>12. g \in Surjection(R, 0 .. k - 1)
  <2>1. ASSUME NEW m \in 0 .. k - 1
        PROVE  \E x \in R : g[x] = m
    <3>1. m \in 0 .. n - 1
      BY <1>2, <1>3
    <3>2. PICK x \in S : place[x] = m
      BY <1>8, <3>1
    <3> QED
      BY <1>9, <1>10, <3>2
  <2> QED
    BY <1>11, <2>1 DEF Surjection, Injection
<1>13. IsFiniteSet(0 .. k - 1) /\ Cardinality(0 .. k - 1) = k
  BY FS_Interval
<1>14. Cardinality(R) = k
  BY <1>11, <1>12, <1>13, FS_Injection, Zenon
<1> QED
  BY <1>1, <1>9, <1>14
=============================================================================
