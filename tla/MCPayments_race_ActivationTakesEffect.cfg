CONSTANTS
    buyer = o1
    first = r1
    Owners <- MCOwners
    Refs = {r1}
    OwnerOf <- MCOwnerOf
    PlanOf <- MCPlanOf
    CycleOf <- MCCycleOf
    Workers = {w1, w2}
    Kinds <- PaymentFlowKinds
    MaxFailures = 0
    NoRef = NoRef
    NoRequest = NoRequest
SPECIFICATION Spec
PROPERTY ActivationTakesEffect
