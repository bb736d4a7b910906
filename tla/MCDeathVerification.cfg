CONSTANTS
    w1 = w1
    u1 = u1
    u2 = u2
    d1 = d1
    d2 = d2
    x1 = x1
    Workers = {w1, w2}
    NoRequest = NoRequest
    MaxFailures = 1
    Loads <- MCLoads
    Users = {u1, u2}
    Devices = {d1, d2}
    MaxNotes = 3
    Page = 2
    Muted = {u2}
    NoUser = NoUser
    Witnesses = {x1}
    Updates <- MCUpdates
    Keep = Keep
SPECIFICATION Spec
INVARIANTS TypeOK CaseHasNotice AllValidatedIsCompleted RegistrationStands
PROPERTIES PushGoesToOwner ReadAllCoversPage ImplementsCase
