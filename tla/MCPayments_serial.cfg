CONSTANTS
    buyer = o1
    first = r1
    Owners <- MCOwners
    Refs = {r1, r2}
    OwnerOf <- MCOwnerOf
    PlanOf <- MCPlanOf
    CycleOf <- MCCycleOf
    Workers = {w1}
    Kinds <- AllKinds
    MaxFailures = 1
    NoRef = NoRef
    NoRequest = NoRequest
SPECIFICATION Spec
PROPERTIES SuccessIsFinal ActivationTakesEffect ImplementsExactlyOnce
