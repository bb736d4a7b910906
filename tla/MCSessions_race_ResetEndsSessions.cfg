CONSTANTS
    someone = a1
    somebody = a2
    guest = guest
    Addresses <- MCAddresses
    Tokens = {t1, t2}
    TokenOwner <- MCTokenOwner
    Codes = {c1}
    CodeOwner <- MCCodeOwner
    Workers = {w1, w2}
    MaxFailures = 0
    NoToken = NoToken
    NoCode = NoCode
    NoRequest = NoRequest
SPECIFICATION Spec
INVARIANT ResetEndsSessions
