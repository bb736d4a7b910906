----------------------------- MODULE Readiness -----------------------------
(***************************************************************************)
(* What the screens tell an owner about the estate: readiness and coverage *)
(* (backend/app/domains/analytics), recommendations and risk (advisor),    *)
(* the summaries of beneficiaries and inheritance, and the dashboard.  All *)
(* are computed from the rows as they are; none has state of its own.      *)
(*                                                                         *)
(* Not represented: values and categories of assets, trends, the wording,  *)
(* and that a screen reads one table after the other.                      *)
(***************************************************************************)
EXTENDS Inheritance, Vault, Profile, FiniteSetsExt

Least(a, b) == IF a < b THEN a ELSE b

\* Python's round of n / 100: to the even neighbour at one half.
Rounded(n) ==
    LET q == n \div 100
        r == n % 100
    IN IF r > 50 \/ (r = 50 /\ q % 2 = 1) THEN q + 1 ELSE q

\* Mutant: deleted beneficiaries keep their share.
TotalAllocationOfAll ==
    MapThenSumSet(LAMBDA h : heirs[h].percent, {h \in Heirs : heirs[h].status # "none"})

\* total_allocation: one SUM in SQL.
TotalAllocation == MapThenSumSet(LAMBDA h : heirs[h].percent, Living)

\* distribution_summary: its own loop over the listed beneficiaries.
DistributedTotal == FoldSet(LAMBDA h, total : total + heirs[h].percent, 0, Living)

EngineStatus == IF DistributedTotal <= 100 THEN "optimal" ELSE "over_allocated"

DistributionSummary ==
    LET capped == Least(DistributedTotal, 100) IN
    [total |-> capped, unallocated |-> 100 - capped, status |-> EngineStatus]

AllocationSummary ==
    LET total == Least(TotalAllocation, 100) IN
    [count |-> Count, total |-> total, unallocated |-> 100 - total, full |-> total >= 100]

Coverage == Least(100, TotalAllocation)

SecurityScore == 40 + (IF user.mfa THEN 30 ELSE 0) + (IF user.biometric THEN 30 ELSE 0)

LegalDocumentation == Least(100, 25 * Cardinality(Listed("documents")))

\* The weights 0.35, 0.35 and 0.30 as percents.  (In floating point the sum is off by
\* less than what would change its rounding, for every value the three can have.)
ReadinessScore == Rounded(35 * LegalDocumentation + 35 * Coverage + 30 * SecurityScore)

\* The score of the dashboard, computed from other rows than the one above.
DashboardScore == Least(100, 20 + 10 * Cardinality(Listed("items")) + 20 * Count)

\* Mutant: the allocation is looked at only if there are several beneficiaries.
RecommendationsOfMany ==
    (IF Count = 0 THEN {"add_beneficiary"} ELSE {})
    \cup (IF Count > 1 /\ TotalAllocation < 100 THEN {"edit_allocation"} ELSE {})
    \cup (IF Listed("documents") = {} THEN {"upload_document"} ELSE {})
    \cup (IF ~user.mfa THEN {"enable_mfa"} ELSE {})
    \cup (IF Listed("assets") = {} THEN {"add_asset"} ELSE {})

Recommendations ==
    (IF Count = 0 THEN {"add_beneficiary"} ELSE {})
    \cup (IF Count # 0 /\ TotalAllocation < 100 THEN {"edit_allocation"} ELSE {})
    \cup (IF Listed("documents") = {} THEN {"upload_document"} ELSE {})
    \cup (IF ~user.mfa THEN {"enable_mfa"} ELSE {})
    \cup (IF Listed("assets") = {} THEN {"add_asset"} ELSE {})

ContestationScore ==
    Least(100, 100 - Least(TotalAllocation, 100)
               + (IF Listed("documents") = {} THEN 25 ELSE 0))

ContestationLevel ==
    IF ContestationScore >= 60 THEN "high"
    ELSE IF ContestationScore >= 30 THEN "medium" ELSE "low"

-----------------------------------------------------------------------------
(* Properties                                                              *)

\* Four screens tell the allocation, computed twice: they agree on it, and where they
\* call it full, only the inheritance screen can tell that more than all was given.
ViewsAgree ==
    /\ AllocationSummary.total = DistributionSummary.total
    /\ AllocationSummary.unallocated = DistributionSummary.unallocated
    /\ Coverage = AllocationSummary.total
    /\ DistributionSummary.status = "over_allocated" => AllocationSummary.full
    /\ AllocationSummary.total + AllocationSummary.unallocated = 100

\* An owner whom the advisor has nothing left to recommend is told a readiness of at
\* least 65 percent and a low risk of contestation; a high risk comes with advice.
AdviceIsHonest ==
    /\ Recommendations = {} =>
        ReadinessScore >= 65 /\ ContestationLevel = "low" /\ DashboardScore >= 40
    /\ ContestationLevel = "high" =>
        Recommendations \cap {"add_beneficiary", "edit_allocation"} # {}
=============================================================================
