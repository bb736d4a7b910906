CONSTANTS
    someone = a1
    somebody = a2
    guest = guest
    Addresses <- MCAddresses
    Tokens = {t1, t2}
    TokenOwner <- MCTokenOwner
    Codes = {c1}
    CodeOwner <- MCCodeOwner
    Workers = {w1, w2}
    MaxFailures = 1
    NoToken = NoToken
    NoCode = NoCode
    NoRequest = NoRequest
SPECIFICATION Spec
SYMMETRY Symmetry
INVARIANTS TypeOK
PROPERTIES PasswordsChangeByMail RevocationIsComplete ImplementsLife
\* The supply of tokens and codes is finite: once all are used and everything has
\* expired, nobody can do anything.
CHECK_DEADLOCK FALSE
