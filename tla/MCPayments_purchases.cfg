CONSTANTS
    buyer = o1
    first = r1
    Owners <- MCOwners
    Refs = {r1, r2}
    OwnerOf <- MCOwnerOf
    PlanOf <- MCPlanOf
    CycleOf <- MCCycleOf
    Workers = {w1, w2}
    Kinds <- PurchaseKinds
    MaxFailures = 0
    NoRef = NoRef
    NoRequest = NoRequest
SPECIFICATION Spec
SYMMETRY WorkerSymmetry
INVARIANTS TypeOK ChargeHasTransaction LedgerIsBacked AckedIsApplied
