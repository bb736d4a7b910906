------------------------------ MODULE Sessions ------------------------------
(***************************************************************************)
(* Accounts, sessions and password reset (backend/app/domains/identity).   *)
(*                                                                         *)
(* As in Payments, a worker handles one request: its database session      *)
(* reads committed rows, and writes at db.commit() what it decided on what *)
(* it read.  Between the read of a user and the commit lies a slow         *)
(* password hash, so another request easily commits in between.            *)
(*                                                                         *)
(* Not represented: profile and settings, MFA, e-mail verification, device *)
(* and address of a session, what the codes and tokens are made of, and    *)
(* requests that are refused (they change nothing).                        *)
(***************************************************************************)
EXTENDS Naturals

CONSTANTS
    Addresses,      \* e-mail addresses
    Tokens,         \* refresh tokens; each is random and drawn for one user,
    TokenOwner,     \* so it names one session
    Codes,          \* password reset codes, each drawn for one user
    CodeOwner,
    Workers,
    MaxFailures,    \* how many requests may die before their commit
    NoToken,
    NoCode,
    NoRequest       \* what an idle worker is doing

ASSUME OwnerAssumption ==
    /\ TokenOwner \in [Tokens -> Addresses]
    /\ CodeOwner \in [Codes -> Addresses]

ASSUME NoneAssumption == NoToken \notin Tokens /\ NoCode \notin Codes

ASSUME FailureAssumption == MaxFailures \in Nat

AuthProvider == {"email", "google"}
SessionStatus == {"none", "active", "expired", "revoked"}
CodeStatus == {"none", "active", "expired", "consumed"}
Kinds == {"register", "login", "google", "forgot", "reset", "logout", "revoke"}
PC == {"idle", "list", "commit"}

VARIABLES
    users,      \* identity_users rows, by address
    sessions,   \* identity_user_sessions rows, by refresh token
    codes,      \* identity_password_reset_codes rows
    uses,       \* history: how many committed resets used a code
    inbox,      \* the codes that have been e-mailed to their owner
    access,     \* users with an access token that has not expired
    pc,         \* what each worker does next
    req,        \* the request it handles
    failures

vars == <<users, sessions, codes, uses, inbox, access, pc, req, failures>>
dbVars == <<users, sessions, codes, uses>>

(***************************************************************************)
(* Types.  Passwords are counted: an account has its version-th password;  *)
(* 0 is the random one of a Google account, which nobody knows.            *)
(***************************************************************************)

User == [exists: BOOLEAN, provider: AuthProvider, version: Nat]

NoUser == [exists |-> FALSE, provider |-> "email", version |-> 0]

Session == [status: SessionStatus,
            version: Nat]                \* of the user that the login loaded

NoSession == [status |-> "none", version |-> 0]

Request == [kind: Kinds,
            owner: Addresses,
            user: User,                  \* as loaded
            token: Tokens \cup {NoToken},
            code: Codes \cup {NoCode},
            found: SUBSET Tokens,        \* the sessions it is going to revoke
            earlier: SUBSET Tokens]      \* history: open when it arrived

TypeOK ==
    /\ users \in [Addresses -> User]
    /\ sessions \in [Tokens -> Session]
    /\ codes \in [Codes -> CodeStatus]
    /\ uses \in [Codes -> Nat]
    /\ inbox \subseteq Codes
    /\ access \subseteq Addresses
    /\ pc \in [Workers -> PC]
    /\ req \in [Workers -> Request \cup {NoRequest}]
    /\ \A w \in Workers : pc[w] # "idle" => req[w] \in Request
    /\ failures \in 0 .. MaxFailures

Init ==
    /\ users = [a \in Addresses |-> NoUser]
    /\ sessions = [t \in Tokens |-> NoSession]
    /\ codes = [c \in Codes |-> "none"]
    /\ uses = [c \in Codes |-> 0]
    /\ inbox = {}
    /\ access = {}
    /\ pc = [w \in Workers |-> "idle"]
    /\ req = [w \in Workers |-> NoRequest]
    /\ failures = 0

-----------------------------------------------------------------------------
(* Requests arriving                                                       *)

\* The sessions that list_for_user returns and revoke_all_for_user revokes.
OpenSessions(a) ==
    {t \in Tokens : TokenOwner[t] = a /\ sessions[t].status \in {"active", "expired"}}

Arrives(w, kind, next, owner, token, code, found) ==
    /\ pc[w] = "idle"
    /\ pc' = [pc EXCEPT ![w] = next]
    /\ req' = [req EXCEPT ![w] =
                [kind |-> kind, owner |-> owner, user |-> users[owner], token |-> token,
                 code |-> code, found |-> found, earlier |-> OpenSessions(owner)]]

Ends(w) ==
    /\ pc' = [pc EXCEPT ![w] = "idle"]
    /\ req' = [req EXCEPT ![w] = NoRequest]

Busy == {w \in Workers : pc[w] # "idle"}

\* create_refresh_token and generate_numeric_code draw what nobody has.
FreshToken(t) == sessions[t].status = "none" /\ \A w \in Busy : req[w].token # t

FreshCode(c) == codes[c] = "none" /\ c \notin inbox /\ \A w \in Busy : req[w].code # c

\* register goes on if it finds no user of that address.
Register(w, t) ==
    /\ FreshToken(t)
    /\ ~users[TokenOwner[t]].exists
    /\ Arrives(w, "register", "commit", TokenOwner[t], t, NoCode, {})
    /\ UNCHANGED <<dbVars, inbox, access, failures>>

\* login compares the password with the hash that it loaded.
Login(w, t) ==
    /\ FreshToken(t)
    /\ users[TokenOwner[t]].exists
    /\ users[TokenOwner[t]].version > 0
    /\ Arrives(w, "login", "commit", TokenOwner[t], t, NoCode, {})
    /\ UNCHANGED <<dbVars, inbox, access, failures>>

GoogleSignIn(w, t) ==
    /\ FreshToken(t)
    /\ Arrives(w, "google", "commit", TokenOwner[t], t, NoCode, {})
    /\ UNCHANGED <<dbVars, inbox, access, failures>>

\* refresh only reads; the same refresh token stays valid.
Refresh(t) ==
    /\ sessions[t].status = "active"
    /\ users[TokenOwner[t]].exists
    /\ access' = access \cup {TokenOwner[t]}
    /\ UNCHANGED <<dbVars, inbox, pc, req, failures>>

\* request_password_reset mails the code, if the mail service lets it,
\* before the row is committed.
RequestPasswordReset(w, c) ==
    /\ FreshCode(c)
    /\ users[CodeOwner[c]].exists
    /\ Arrives(w, "forgot", "commit", CodeOwner[c], NoToken, c, {})
    /\ inbox' \in {inbox, inbox \cup {c}}
    /\ UNCHANGED <<dbVars, access, failures>>

\* reset_password finds the code active, and lists the sessions only after
\* it has hashed the new password.
ResetPassword(w, c) ==
    /\ c \in inbox
    /\ codes[c] = "active"
    /\ Arrives(w, "reset", "list", CodeOwner[c], NoToken, c, {})
    /\ UNCHANGED <<dbVars, inbox, access, failures>>

\* logout revokes every session of the user, and the one of the token in its
\* body, whosever it is.
Logout(w, a, given) ==
    /\ a \in access
    /\ Arrives(w, "logout", "list", a, NoToken, NoCode, given)
    /\ UNCHANGED <<dbVars, inbox, access, failures>>

RevokeSession(w, t) ==
    /\ TokenOwner[t] \in access
    /\ sessions[t].status # "none"
    /\ Arrives(w, "revoke", "commit", TokenOwner[t], NoToken, NoCode, {t})
    /\ UNCHANGED <<dbVars, inbox, access, failures>>

-----------------------------------------------------------------------------
(* The steps of a request                                                  *)

\* revoke_all_for_user reads the sessions to revoke.
ListSessions(w) ==
    /\ pc[w] = "list"
    /\ req' = [req EXCEPT ![w].found =
                OpenSessions(req[w].owner) \cup {t \in @ : sessions[t].status = "active"}]
    /\ pc' = [pc EXCEPT ![w] = "commit"]
    /\ UNCHANGED <<dbVars, inbox, access, failures>>

\* Mutant: the unique index on the address is missing.
ConflictsNever(q) == FALSE

\* The unique index on the address: an INSERT fails if another request has
\* committed the user since this one looked for it.
Conflicts(q) ==
    /\ q.kind \in {"register", "google"}
    /\ ~q.user.exists
    /\ users[q.owner].exists

\* Mutant: a Google sign-in writes the whole row it loaded.
CommittedUserWhole(q) ==
    LET stored == users[q.owner] IN
    CASE q.kind = "register" -> [exists |-> TRUE, provider |-> "email", version |-> 1]
      [] q.kind = "google" /\ ~q.user.exists ->
            [exists |-> TRUE, provider |-> "google", version |-> 0]
      [] q.kind = "google" /\ q.user.exists -> [q.user EXCEPT !.provider = "google"]
      [] q.kind = "reset" -> [stored EXCEPT !.version = @ + 1]
      [] OTHER -> stored

\* The user row that the commit leaves; only changed columns are written.
CommittedUser(q) ==
    LET stored == users[q.owner] IN
    CASE q.kind = "register" -> [exists |-> TRUE, provider |-> "email", version |-> 1]
      [] q.kind = "google" /\ ~q.user.exists ->
            [exists |-> TRUE, provider |-> "google", version |-> 0]
      [] q.kind = "google" /\ q.user.exists -> [stored EXCEPT !.provider = "google"]
      [] q.kind = "reset" -> [stored EXCEPT !.version = @ + 1]
      [] OTHER -> stored

\* Mutant: logout and reset spare the sessions that were just opened.
CommittedSessionSparing(q, t) ==
    IF t = q.token THEN [status |-> "active", version |-> q.user.version]
    ELSE IF t \in q.found /\ (q.kind = "revoke" \/ sessions[t].status = "expired")
    THEN [sessions[t] EXCEPT !.status = "revoked"]
    ELSE sessions[t]

\* A session inserted by _issue_auth_response, or its revoked_at set.
CommittedSession(q, t) ==
    IF t = q.token
    THEN [status |-> "active", version |-> IF q.kind = "register" THEN 1 ELSE q.user.version]
    ELSE IF t \in q.found THEN [sessions[t] EXCEPT !.status = "revoked"]
    ELSE sessions[t]

\* Mutant: a used code is marked the way a session is.
CommittedCodeRevoked(q, c) ==
    IF c # q.code THEN codes[c]
    ELSE IF q.kind = "forgot" THEN "active" ELSE "revoked"

\* Mutant: consumed_at is not set.
CommittedCodeReusable(q, c) ==
    IF c = q.code /\ q.kind = "forgot" THEN "active" ELSE codes[c]

CommittedCode(q, c) ==
    IF c # q.code THEN codes[c]
    ELSE IF q.kind = "forgot" THEN "active" ELSE "consumed"

Commit(w) ==
    /\ pc[w] = "commit"
    /\ ~Conflicts(req[w])
    /\ LET q == req[w] IN
        /\ users' = [users EXCEPT ![q.owner] = CommittedUser(q)]
        /\ sessions' = [t \in Tokens |-> CommittedSession(q, t)]
        /\ codes' = [c \in Codes |-> CommittedCode(q, c)]
        /\ uses' = IF q.kind = "reset" THEN [uses EXCEPT ![q.code] = @ + 1] ELSE uses
        /\ access' = IF q.token # NoToken THEN access \cup {q.owner} ELSE access
    /\ Ends(w)
    /\ UNCHANGED <<inbox, failures>>

Conflict(w) ==
    /\ pc[w] = "commit"
    /\ Conflicts(req[w])
    /\ Ends(w)
    /\ UNCHANGED <<dbVars, inbox, access, failures>>

Rollback(w) ==
    /\ pc[w] # "idle"
    /\ failures < MaxFailures
    /\ failures' = failures + 1
    /\ Ends(w)
    /\ UNCHANGED <<dbVars, inbox, access>>

-----------------------------------------------------------------------------
(* Time                                                                    *)

ExpireSession(t) ==
    /\ sessions[t].status = "active"
    /\ sessions' = [sessions EXCEPT ![t].status = "expired"]
    /\ UNCHANGED <<users, codes, uses, inbox, access, pc, req, failures>>

ExpireCode(c) ==
    /\ codes[c] = "active"
    /\ codes' = [codes EXCEPT ![c] = "expired"]
    /\ UNCHANGED <<users, sessions, uses, inbox, access, pc, req, failures>>

ExpireAccess(a) ==
    /\ a \in access
    /\ access' = access \ {a}
    /\ UNCHANGED <<dbVars, inbox, pc, req, failures>>

-----------------------------------------------------------------------------

WorkerStep(w) == ListSessions(w) \/ Commit(w) \/ Conflict(w)

SessionRequest(w, t) ==
    \/ Register(w, t)
    \/ Login(w, t)
    \/ GoogleSignIn(w, t)
    \/ RevokeSession(w, t)

ResetRequest(w, c) == RequestPasswordReset(w, c) \/ ResetPassword(w, c)

LogoutRequest(w, a) ==
    \/ Logout(w, a, {})
    \/ \E t \in Tokens : Logout(w, a, {t})

Expiry ==
    \/ \E t \in Tokens : ExpireSession(t)
    \/ \E c \in Codes : ExpireCode(c)
    \/ \E a \in Addresses : ExpireAccess(a)

Next ==
    \/ \E w \in Workers : WorkerStep(w) \/ Rollback(w)
    \/ \E w \in Workers, t \in Tokens : SessionRequest(w, t)
    \/ \E w \in Workers, c \in Codes : ResetRequest(w, c)
    \/ \E w \in Workers, a \in Addresses : LogoutRequest(w, a)
    \/ \E t \in Tokens : Refresh(t)
    \/ Expiry

Spec == Init /\ [][Next]_vars

-----------------------------------------------------------------------------
(* Properties                                                              *)

\* A user keeps the password until a code that was mailed to that user is
\* used: two registrations of one address, or a registration and a Google
\* sign-in, do not overwrite each other.
PasswordsChangeByMail ==
    [][\A a \in Addresses : users[a].exists /\ users'[a].version # users[a].version =>
            \E c \in inbox : CodeOwner[c] = a /\ uses'[c] > uses[c]]_vars

\* A logout or a password reset ends every session that was open when its
\* request arrived, whatever else happened since.
RevocationIsComplete ==
    [][\A w \in Workers :
            /\ pc[w] = "commit" /\ pc'[w] = "idle" /\ failures' = failures
            /\ req[w].kind \in {"logout", "reset"}
            => \A t \in req[w].earlier : sessions'[t].status = "revoked"]_vars

\* "Invalidate every existing session after a password reset": an active
\* session was opened when the account had the password it has now.
ResetEndsSessions ==
    \A t \in Tokens :
        sessions[t].status = "active" => sessions[t].version = users[TokenOwner[t]].version

\* A reset code, being a one-time password, changes the password once.
CodeWorksOnce ==
    \A c \in Codes : uses[c] <= 1

Life == INSTANCE SessionLife WITH
            accounts <- {a \in Addresses : users[a].exists},
            password <- [a \in Addresses |-> users[a].version],
            state <- [t \in Tokens |-> sessions[t].status]

\* Sessions implements the promise of SessionLife while requests overlap: no stale commit
\* makes a revoked token usable, opens an account over another one, gives a token
\* twice or takes a password back.
ImplementsLife == Life!Spec
=============================================================================
