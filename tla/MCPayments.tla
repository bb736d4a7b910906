----------------------------- MODULE MCPayments -----------------------------
(***************************************************************************)
(* Instances of Payments for TLC: every reference is bought by the same    *)
(* owner, the first for premium, the others for family.                    *)
(***************************************************************************)
EXTENDS Payments, TLC

CONSTANTS buyer, first

MCOwners == {buyer}
MCOwnerOf == [r \in Refs |-> buyer]
MCPlanOf == [r \in Refs |-> IF r = first THEN "premium" ELSE "family"]
MCCycleOf == [r \in Refs |-> IF r = first THEN "monthly" ELSE "yearly"]

AllKinds == PaymentKinds \cup SubscriptionKinds

\* The kinds with which no owner asks for a plan without paying for it.
PaymentFlowKinds == PaymentKinds \cup {"current"}

\* Purchases only.
PurchaseKinds == PaymentKinds

WorkerSymmetry == Permutations(Workers)
=============================================================================
