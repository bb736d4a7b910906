CONSTANTS
    buyer = o1
    first = r1
    Owners <- MCOwners
    Refs = {r1}
    OwnerOf <- MCOwnerOf
    PlanOf <- MCPlanOf
    CycleOf <- MCCycleOf
    Workers = {w1, w2}
    Kinds <- PurchaseKinds
    MaxFailures = 1
    NoRef = NoRef
    NoRequest = NoRequest
SPECIFICATION FairSpec
PROPERTIES PaidIsActivated ImplementsAtLeastOnce
\* The only purchase may end for good: rolled back and abandoned.
CHECK_DEADLOCK FALSE
