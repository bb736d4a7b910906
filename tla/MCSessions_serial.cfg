CONSTANTS
    someone = a1
    somebody = a2
    guest = t3
    Addresses <- MCAddresses
    Tokens = {t1, t2, t3}
    TokenOwner <- MCTokenOwner
    Codes = {c1, c2}
    CodeOwner <- MCCodeOwner
    Workers = {w1}
    MaxFailures = 1
    NoToken = NoToken
    NoCode = NoCode
    NoRequest = NoRequest
SPECIFICATION Spec
INVARIANTS ResetEndsSessions CodeWorksOnce
\* The supply of tokens and codes is finite: once all are used and everything has
\* expired, nobody can do anything.
CHECK_DEADLOCK FALSE
