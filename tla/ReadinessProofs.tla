-------------------------- MODULE ReadinessProofs --------------------------
(***************************************************************************)
(* The screens of Readiness for any set of beneficiaries and any shares.   *)
(* The total of the shares is computed by recursion over a set, twice and  *)
(* in two ways; that the recursion has a value, that the value is a number *)
(* and that both ways give the same one are proved by induction.  The      *)
(* induction theorems of the library take a predicate as a parameter,      *)
(* which the provers cannot instantiate: the two below speak of the set of *)
(* those that have the property, and rest on the minimal elements of a     *)
(* well-founded relation (WFMin).                                          *)
(***************************************************************************)
EXTENDS EstateProofs, FiniteSetTheorems, WellFoundedInduction

(***************************************************************************)
(* Induction over finite sets and over numbers, stated for a set of those  *)
(* that have the property.                                                 *)
(***************************************************************************)

LEMMA SubsetInduction ==
    ASSUME NEW S, IsFiniteSet(S), NEW T \in SUBSET SUBSET S,
           \A s \in SUBSET S : (\A x \in s : s \ {x} \in T) => s \in T
    PROVE  T = SUBSET S
<1> DEFINE Bad == (SUBSET S) \ T
<1>1. SUFFICES ASSUME Bad # {}
               PROVE  FALSE
  OBVIOUS
<1>2. IsWellFoundedOn(StrictSubsetOrdering(S), SUBSET S)
  BY FS_StrictSubsetOrderingWellFounded, FS_FiniteSubsetsOfFinite
<1>3. PICK s \in Bad : \A t \in Bad : ~(<<t, s>> \in StrictSubsetOrdering(S))
  <2> HIDE DEF Bad
  <2>1. Bad \subseteq SUBSET S
    BY DEF Bad
  <2>2. QED
    BY <1>1, <1>2, <2>1, WFMin
<1>4. ASSUME NEW x \in s
      PROVE  s \ {x} \in T
  <2>1. <<s \ {x}, s>> \in StrictSubsetOrdering(S)
    BY DEF StrictSubsetOrdering
  <2>2. QED
    BY <1>3, <2>1
<1>5. QED
  BY <1>3, <1>4

LEMMA CountInduction ==
    ASSUME NEW T \in SUBSET Nat, 0 \in T, \A k \in T : k + 1 \in T
    PROVE  T = Nat
<1> DEFINE Bad == Nat \ T
<1>1. SUFFICES ASSUME Bad # {}
               PROVE  FALSE
  OBVIOUS
<1>2. PICK n \in Bad : \A m \in Bad : ~(<<m, n>> \in OpToRel(<, Nat))
  <2> HIDE DEF Bad
  <2>1. Bad \subseteq Nat
    BY DEF Bad
  <2>2. QED
    BY <1>1, <2>1, NatLessThanWellFounded, WFMin
<1>3. n # 0 /\ n - 1 \in Nat
  OBVIOUS
<1>4. <<n - 1, n>> \in OpToRel(<, Nat)
  BY <1>3 DEF OpToRel
<1>5. n - 1 \in T
  BY <1>2, <1>3, <1>4
<1>6. QED
  BY <1>3, <1>5

(***************************************************************************)
(* The recursion by which the folds of the community modules add up n[x]   *)
(* over the elements of a finite set.                                      *)
(***************************************************************************)

Pick(s) == CHOOSE x \in s : TRUE

AddsUp(g, n, S) ==
    g = [s \in SUBSET S |-> IF s = {} THEN 0 ELSE n[Pick(s)] + g[s \ {Pick(s)}]]

LEMMA Picked ==
    ASSUME NEW s, s # {}
    PROVE  Pick(s) \in s
BY DEF Pick

\* It defines a function: one set after the other, by size.
LEMMA SumExists ==
    ASSUME NEW S, IsFiniteSet(S), NEW n
    PROVE  \E g : AddsUp(g, n, S)
<1> DEFINE Extended(g) == [s \in SUBSET S |-> IF s = {} THEN 0 ELSE n[Pick(s)] + g[s \ {Pick(s)}]]
           UpTo(k, g) == \A s \in SUBSET S : Cardinality(s) <= k => g[s] = Extended(g)[s]
           T == {k \in Nat : \E g : UpTo(k, g)}
<1>1. \A s \in SUBSET S : IsFiniteSet(s) /\ Cardinality(s) \in Nat
  BY FS_Subset, FS_CardinalityType
<1>2. 0 \in T
  <2>1. ASSUME NEW s \in SUBSET S, Cardinality(s) <= 0
        PROVE  s = {}
    BY <1>1, <2>1, FS_EmptySet
  <2>2. UpTo(0, [s \in SUBSET S |-> 0])
    BY <2>1
  <2>3. QED
    BY <2>2
<1>3. ASSUME NEW k \in T
      PROVE  k + 1 \in T
  <2>1. PICK g : UpTo(k, g)
    OBVIOUS
  <2> DEFINE h == Extended(g)
  <2>2. ASSUME NEW s \in SUBSET S, Cardinality(s) <= k + 1
        PROVE  h[s] = Extended(h)[s]
    <3>1. CASE s = {}
      BY <3>1
    <3>2. CASE s # {}
      <4>1. Pick(s) \in s
        BY <3>2, Picked
      <4>2. s \ {Pick(s)} \in SUBSET S /\ Cardinality(s \ {Pick(s)}) <= k
        BY <1>1, <2>2, <4>1, FS_RemoveElement
      <4>3. h[s \ {Pick(s)}] = g[s \ {Pick(s)}]
        BY <2>1, <4>2
      <4>4. QED
        BY <3>2, <4>2, <4>3
    <3>3. QED
      BY <3>1, <3>2
  <2>3. UpTo(k + 1, h)
    BY <2>2
  <2> HIDE DEF h, UpTo
  <2>4. \E f : UpTo(k + 1, f)
    BY <2>3
  <2>5. QED
    BY <2>4
<1>4. T = Nat
  <2> HIDE DEF T
  <2>1. T \subseteq Nat
    BY DEF T
  <2>2. QED
    BY <1>2, <1>3, <2>1, CountInduction
<1>5. PICK g : UpTo(Cardinality(S), g)
  BY <1>1, <1>4
<1>6. \A s \in SUBSET S : g[s] = Extended(g)[s]
  BY <1>1, <1>5, FS_Subset
<1> DEFINE h == Extended(g)
<1>7. AddsUp(h, n, S)
  <2>1. ASSUME NEW s \in SUBSET S
        PROVE  h[s] = Extended(h)[s]
    <3>1. CASE s = {}
      BY <3>1
    <3>2. CASE s # {}
      <4>1. s \ {Pick(s)} \in SUBSET S
        BY <3>2, Picked
      <4>2. h[s \ {Pick(s)}] = g[s \ {Pick(s)}]
        BY <1>6, <4>1
      <4>3. QED
        BY <3>2, <4>1, <4>2
    <3>3. QED
      BY <3>1, <3>2
  <2>2. h = Extended(h)
    BY <2>1
  <2>3. QED
    BY <2>2 DEF AddsUp
<1>8. QED
  BY <1>7

\* What the recursion gives is a number, and there is one function only.
LEMMA SumType ==
    ASSUME NEW S, IsFiniteSet(S), NEW n, \A x \in S : n[x] \in Nat, NEW g, AddsUp(g, n, S)
    PROVE  \A s \in SUBSET S : g[s] \in Nat
<1> DEFINE T == {s \in SUBSET S : g[s] \in Nat}
<1>1. ASSUME NEW s \in SUBSET S, \A x \in s : s \ {x} \in T
      PROVE  s \in T
  <2>1. CASE s = {}
    BY <2>1 DEF AddsUp
  <2>2. CASE s # {}
    <3>1. Pick(s) \in s
      BY <2>2, Picked
    <3>2. n[Pick(s)] \in Nat /\ g[s \ {Pick(s)}] \in Nat
      BY <1>1, <3>1
    <3>3. g[s] = n[Pick(s)] + g[s \ {Pick(s)}]
      BY <2>2 DEF AddsUp
    <3>4. QED
      BY <3>2, <3>3
  <2>3. QED
    BY <2>1, <2>2
<1>2. T = SUBSET S
  <2> HIDE DEF T
  <2>1. T \in SUBSET SUBSET S
    BY DEF T
  <2>2. QED
    BY <1>1, <2>1, SubsetInduction
<1>3. QED
  BY <1>2

\* A loop that adds the next element on the other side gets the same total.
AddsUpReversed(g, n, S) ==
    g = [s \in SUBSET S |-> IF s = {} THEN 0 ELSE g[s \ {Pick(s)}] + n[Pick(s)]]

LEMMA SumUnique ==
    ASSUME NEW S, IsFiniteSet(S), NEW n, \A x \in S : n[x] \in Nat,
           NEW g, AddsUp(g, n, S),
           NEW h, AddsUp(h, n, S) \/ AddsUpReversed(h, n, S)
    PROVE  h[S] = g[S]
<1> DEFINE T == {s \in SUBSET S : h[s] = g[s]}
<1>1. ASSUME NEW s \in SUBSET S, \A x \in s : s \ {x} \in T
      PROVE  s \in T
  <2>1. CASE s = {}
    BY <2>1 DEF AddsUp, AddsUpReversed
  <2>2. CASE s # {}
    <3>1. h[s \ {Pick(s)}] = g[s \ {Pick(s)}] /\ s \ {Pick(s)} \in SUBSET S
      BY <1>1, <2>2, Picked
    <3>2. n[Pick(s)] \in Nat /\ g[s \ {Pick(s)}] \in Nat
      BY <2>2, <3>1, Picked, SumType
    <3>3. /\ g[s] = n[Pick(s)] + g[s \ {Pick(s)}]
          /\ \/ h[s] = n[Pick(s)] + h[s \ {Pick(s)}]
             \/ h[s] = h[s \ {Pick(s)}] + n[Pick(s)]
      BY <2>2 DEF AddsUp, AddsUpReversed
    <3>4. QED
      BY <3>1, <3>2, <3>3
  <2>3. QED
    BY <2>1, <2>2
<1>2. T = SUBSET S
  <2> HIDE DEF T
  <2>1. T \in SUBSET SUBSET S
    BY DEF T
  <2>2. QED
    BY <1>1, <2>1, SubsetInduction
<1>3. QED
  BY <1>2

-----------------------------------------------------------------------------
(* The two sums                                                            *)

LEMMA LivingIsFinite ==
    ASSUME HeirsTypeOK
    PROVE  /\ Living \subseteq Heirs /\ IsFiniteSet(Living)
           /\ \A h \in Living : heirs[h].percent \in Nat
<1>1. Living \subseteq Heirs
  BY DEF Living
<1>2. IsFiniteSet(Living)
  BY <1>1, HeirAssumption, FS_Subset
<1>3. \A h \in Living : heirs[h] \in Heir
  BY <1>1 DEF HeirsTypeOK
<1>4. \A h \in Living : heirs[h].percent \in Nat
  <2>1. \A h \in Living : heirs[h].percent \in Percents
    BY <1>3 DEF Heir
  <2>2. Percents \subseteq Nat
    BY PercentAssumption
  <2>3. QED
    BY <2>1, <2>2
<1>5. QED
  BY <1>1, <1>2, <1>4

\* The SUM of SQL and the loop of distribution_summary, which add the same numbers in
\* two ways, give one number, for any set of beneficiaries.
LEMMA OneTotal ==
    ASSUME HeirsTypeOK
    PROVE  TotalAllocation \in Nat /\ DistributedTotal = TotalAllocation
<1> DEFINE n == [h \in Living |-> heirs[h].percent]
           Sql(g) == g = [s \in SUBSET Living |->
                            IF s = {} THEN 0
                            ELSE heirs[CHOOSE x \in s : TRUE].percent
                                    + g[s \ {CHOOSE x \in s : TRUE}]]
           Loop(g) == g = [s \in SUBSET Living |->
                            IF s = {} THEN 0
                            ELSE g[s \ {CHOOSE x \in s : TRUE}]
                                    + heirs[CHOOSE x \in s : TRUE].percent]
<1>1. TotalAllocation = (CHOOSE g : Sql(g))[Living]
  BY DEF TotalAllocation, MapThenSumSet, MapThenFoldSet
<1>2. DistributedTotal = (CHOOSE g : Loop(g))[Living]
  BY DEF DistributedTotal, FoldSet, MapThenFoldSet
<1>3. IsFiniteSet(Living) /\ \A h \in Living : n[h] \in Nat
  BY LivingIsFinite
<1>4. \A s \in SUBSET Living : s # {} => n[Pick(s)] = heirs[CHOOSE x \in s : TRUE].percent
  BY Picked DEF Pick
<1>5. \A g : Sql(g) <=> AddsUp(g, n, Living)
  BY <1>4 DEF AddsUp, Pick
<1>6. \A g : Loop(g) <=> AddsUpReversed(g, n, Living)
  BY <1>4 DEF AddsUpReversed, Pick
<1> HIDE DEF n, Sql, Loop
<1>7. PICK g : AddsUp(g, n, Living)
  BY <1>3, SumExists
<1>8. AddsUpReversed(g, n, Living)
  <2>1. ASSUME NEW s \in SUBSET Living, s # {}
        PROVE  n[Pick(s)] + g[s \ {Pick(s)}] = g[s \ {Pick(s)}] + n[Pick(s)]
    <3>1. n[Pick(s)] \in Nat /\ g[s \ {Pick(s)}] \in Nat
      BY <1>3, <1>7, <2>1, Picked, SumType
    <3>2. \A i, j \in Nat : i + j = j + i
      OBVIOUS
    <3>3. QED
      BY <3>1, <3>2
  <2>2. QED
    BY <1>7, <2>1 DEF AddsUp, AddsUpReversed
<1>9. /\ AddsUp(CHOOSE f : Sql(f), n, Living)
      /\ AddsUpReversed(CHOOSE f : Loop(f), n, Living)
  <2>1. Sql(g) /\ Loop(g)
    BY <1>5, <1>6, <1>7, <1>8
  <2>2. Sql(CHOOSE f : Sql(f)) /\ Loop(CHOOSE f : Loop(f))
    BY <2>1, Zenon
  <2>3. QED
    BY <1>5, <1>6, <2>2
<1>10. /\ (CHOOSE f : Sql(f))[Living] = g[Living]
       /\ (CHOOSE f : Loop(f))[Living] = g[Living]
  BY <1>3, <1>7, <1>9, SumUnique
<1>11. g[Living] \in Nat
  BY <1>3, <1>7, SumType
<1>12. QED
  BY <1>1, <1>2, <1>10, <1>11

-----------------------------------------------------------------------------
(* The scores                                                              *)

LEMMA ListedIsFinite ==
    ASSUME NEW table
    PROVE  /\ Cardinality(Listed(table)) \in Nat
           /\ Listed(table) # {} => Cardinality(Listed(table)) >= 1
<1>1. IsFiniteSet(Listed(table))
  <2>1. Listed(table) \subseteq Records
    BY DEF Listed
  <2>2. QED
    BY <2>1, RecordAssumption, FS_Subset
<1>2. QED
  BY <1>1, FS_CardinalityType, FS_EmptySet

LEMMA CountIsNat ==
    ASSUME HeirsTypeOK
    PROVE  Count \in Nat
BY LivingIsFinite, FS_CardinalityType DEF Count

\* A score of which each part is at its least: 0.35 * 25 + 0.35 * 100 + 0.3 * 70 = 64.75.
LEMMA RoundedAtLeast ==
    ASSUME NEW n \in Nat, n >= 6475
    PROVE  Rounded(n) >= 65
<1>1. n \div 100 \in Nat /\ n % 100 \in 0 .. 99 /\ n = 100 * (n \div 100) + (n % 100)
  OBVIOUS
<1>2. n \div 100 >= 64 /\ (n \div 100 = 64 => n % 100 >= 75)
  BY <1>1
<1>3. Rounded(n) \in {n \div 100, n \div 100 + 1} /\ (n % 100 > 50 => Rounded(n) = n \div 100 + 1)
  BY DEF Rounded
<1>4. QED
  BY <1>1, <1>2, <1>3

\* Whatever the beneficiaries and their shares are, all screens tell one allocation.
LEMMA Agreement ==
    ASSUME HeirsTypeOK
    PROVE  ViewsAgree
<1>1. TotalAllocation \in Nat /\ DistributedTotal = TotalAllocation
  BY OneTotal
<1> DEFINE capped == Least(TotalAllocation, 100)
<1>2. /\ capped \in 0 .. 100 /\ Least(100, TotalAllocation) = capped
      /\ TotalAllocation > 100 => capped >= 100
  BY <1>1 DEF Least
<1>3. /\ AllocationSummary.total = capped /\ AllocationSummary.unallocated = 100 - capped
      /\ capped >= 100 => AllocationSummary.full
      /\ Coverage = capped
  BY <1>2 DEF AllocationSummary, Coverage
<1>4. /\ DistributionSummary.total = capped /\ DistributionSummary.unallocated = 100 - capped
      /\ DistributionSummary.status = "over_allocated" => TotalAllocation > 100
  BY <1>1 DEF DistributionSummary, EngineStatus
<1> HIDE DEF capped
<1>5. QED
  BY <1>2, <1>3, <1>4 DEF ViewsAgree

LEMMA Honesty ==
    ASSUME HeirsTypeOK, ProfileTypeOK
    PROVE  AdviceIsHonest
<1>1. TotalAllocation \in Nat /\ Count \in Nat
  BY OneTotal, CountIsNat
<1>2. ASSUME Recommendations = {}
      PROVE  /\ Count >= 1 /\ TotalAllocation >= 100
             /\ Listed("documents") # {} /\ user.mfa
  BY <1>1, <1>2 DEF Recommendations
<1>3. ASSUME Recommendations = {}
      PROVE  ReadinessScore >= 65
  <2>1. Coverage = 100
    BY <1>1, <1>2, <1>3 DEF Coverage, Least
  <2>2. LegalDocumentation \in 25 .. 100
    BY <1>2, <1>3, ListedIsFinite DEF LegalDocumentation, Least
  <2>3. SecurityScore \in {70, 100}
    BY <1>2, <1>3 DEF SecurityScore
  <2> HIDE DEF LegalDocumentation, Coverage, SecurityScore
  <2>4. 35 * LegalDocumentation + 35 * Coverage + 30 * SecurityScore \in Nat
        /\ 35 * LegalDocumentation + 35 * Coverage + 30 * SecurityScore >= 6475
    BY <2>1, <2>2, <2>3
  <2>5. QED
    BY <2>4, RoundedAtLeast DEF ReadinessScore
<1>4. TotalAllocation >= 100 => ContestationScore \in {0, 25}
  BY <1>1 DEF ContestationScore, Least
<1>5. ASSUME Recommendations = {}
      PROVE  ContestationLevel = "low"
  <2>1. ContestationScore = 0
    BY <1>1, <1>2, <1>5 DEF ContestationScore, Least
  <2>2. QED
    BY <2>1 DEF ContestationLevel
<1>6. ASSUME Recommendations = {}
      PROVE  DashboardScore >= 40
  BY <1>1, <1>2, <1>6, ListedIsFinite DEF DashboardScore, Least
<1>7. ASSUME ContestationLevel = "high"
      PROVE  Recommendations \cap {"add_beneficiary", "edit_allocation"} # {}
  <2>1. TotalAllocation < 100
    BY <1>1, <1>4, <1>7 DEF ContestationLevel
  <2>2. QED
    BY <1>1, <2>1 DEF Recommendations
<1>8. QED
  BY <1>3, <1>5, <1>6, <1>7 DEF AdviceIsHonest

-----------------------------------------------------------------------------
(* The theorems                                                            *)

\* The readiness, coverage, beneficiary and inheritance screens tell the same allocation
\* after any sequence of requests, however many beneficiaries there are.
THEOREM SpecViewsAgree == Spec => []ViewsAgree
<1>1. TypeOK => ViewsAgree
  BY Agreement DEF TypeOK
<1>2. QED
  BY <1>1, TypeCorrect, PTL

\* An owner without any recommendation left has at least 65 percent of readiness and a
\* low risk, and a high risk comes with advice about the beneficiaries.
THEOREM SpecAdviceIsHonest == Spec => []AdviceIsHonest
<1>1. TypeOK => AdviceIsHonest
  BY Honesty DEF TypeOK
<1>2. QED
  BY <1>1, TypeCorrect, PTL
=============================================================================
