--------------------------- MODULE SessionsProofs ---------------------------
(***************************************************************************)
(* Theorems of Sessions, for any sets of addresses, tokens, codes and      *)
(* workers and any number of failures.                                     *)
(***************************************************************************)
EXTENDS Sessions, TLAPS

-----------------------------------------------------------------------------
(* Types                                                                   *)

LEMMA ArrivesType ==
    ASSUME TypeOK, NEW w \in Workers, NEW kind \in Kinds, NEW next \in PC,
           NEW owner \in Addresses, NEW token \in Tokens \cup {NoToken},
           NEW code \in Codes \cup {NoCode}, NEW found \in SUBSET Tokens,
           Arrives(w, kind, next, owner, token, code, found)
    PROVE  /\ pc' \in [Workers -> PC]
           /\ req' \in [Workers -> Request \cup {NoRequest}]
           /\ \A v \in Workers : pc'[v] # "idle" => req'[v] \in Request
           /\ pc[w] = "idle" /\ pc'[w] = next
           /\ req'[w] = [kind |-> kind, owner |-> owner, user |-> users[owner],
                         token |-> token, code |-> code, found |-> found,
                         earlier |-> OpenSessions(owner)]
           /\ \A v \in Workers : v # w => pc'[v] = pc[v] /\ req'[v] = req[v]
<1> DEFINE q == [kind |-> kind, owner |-> owner, user |-> users[owner], token |-> token,
                 code |-> code, found |-> found, earlier |-> OpenSessions(owner)]
<1>1. OpenSessions(owner) \subseteq Tokens
  BY DEF OpenSessions
<1>2. users[owner] \in User
  BY DEF TypeOK
<1>3. q \in Request
  BY <1>1, <1>2 DEF Request
<1>4. pc' = [pc EXCEPT ![w] = next] /\ req' = [req EXCEPT ![w] = q] /\ pc[w] = "idle"
  BY DEF Arrives
<1> HIDE DEF q
<1>5. /\ pc' \in [Workers -> PC]
      /\ req' \in [Workers -> Request \cup {NoRequest}]
      /\ pc'[w] = next /\ req'[w] = q
      /\ \A v \in Workers : v # w => pc'[v] = pc[v] /\ req'[v] = req[v]
  BY <1>3, <1>4 DEF TypeOK
<1>6. \A v \in Workers : pc'[v] # "idle" => req'[v] \in Request
  BY <1>3, <1>5 DEF TypeOK
<1>7. QED
  BY <1>4, <1>5, <1>6 DEF q

LEMMA EndsType ==
    ASSUME TypeOK, NEW w \in Workers, Ends(w)
    PROVE  /\ pc' \in [Workers -> PC]
           /\ req' \in [Workers -> Request \cup {NoRequest}]
           /\ \A v \in Workers : pc'[v] # "idle" => req'[v] \in Request
           /\ pc'[w] = "idle"
           /\ \A v \in Workers : v # w => pc'[v] = pc[v] /\ req'[v] = req[v]
BY DEF TypeOK, Ends, PC

\* What all requests have in common when they arrive: the tables are left
\* alone, and what the request holds is as the tables say.
Arrived(w, kind, next, owner, token, code, found) ==
    /\ Arrives(w, kind, next, owner, token, code, found)
    /\ UNCHANGED <<dbVars, access, failures>>
    /\ inbox \subseteq inbox' /\ inbox' \subseteq Codes
    /\ token \in Tokens => FreshToken(token) /\ TokenOwner[token] = owner
    /\ token \in Tokens <=> kind \in {"register", "login", "google"}
    /\ token \in Tokens => next = "commit" /\ found = {}
    /\ kind = "reset" => found = {}
    /\ kind = "register" => ~users[owner].exists
    /\ kind \in {"login", "forgot"} => users[owner].exists
    /\ kind \notin {"forgot", "reset"} => code = NoCode
    /\ kind \in {"logout", "reset"} => token = NoToken /\ next = "list"
    /\ kind \in {"forgot", "reset"} => code \in Codes /\ CodeOwner[code] = owner
    /\ kind = "reset" => code \in inbox /\ codes[code] = "active"
    /\ kind = "forgot" => codes[code] = "none"
    /\ next = "commit" => \A t \in found : sessions[t].status # "none"

NewRequest(w) ==
    \E kind \in Kinds, next \in {"list", "commit"}, owner \in Addresses,
       token \in Tokens \cup {NoToken}, code \in Codes \cup {NoCode}, found \in SUBSET Tokens :
            Arrived(w, kind, next, owner, token, code, found)

LEMMA RequestArrives ==
    ASSUME TypeOK, NEW w \in Workers,
           \/ \E t \in Tokens : SessionRequest(w, t)
           \/ \E c \in Codes : ResetRequest(w, c)
           \/ \E a \in Addresses : LogoutRequest(w, a)
    PROVE  NewRequest(w)
<1> USE OwnerAssumption, NoneAssumption
<1>1. ASSUME NEW t \in Tokens, SessionRequest(w, t)
      PROVE  NewRequest(w)
  <2> TokenOwner[t] \in Addresses /\ inbox \subseteq Codes
    BY DEF TypeOK
  <2>1. CASE Register(w, t)
    <3>1. Arrived(w, "register", "commit", TokenOwner[t], t, NoCode, {})
      BY <2>1 DEF Register, Arrived
    <3>2. QED
      BY <3>1 DEF NewRequest, Kinds
  <2>2. CASE Login(w, t)
    <3>1. Arrived(w, "login", "commit", TokenOwner[t], t, NoCode, {})
      BY <2>2 DEF Login, Arrived
    <3>2. QED
      BY <3>1 DEF NewRequest, Kinds
  <2>3. CASE GoogleSignIn(w, t)
    <3>1. Arrived(w, "google", "commit", TokenOwner[t], t, NoCode, {})
      BY <2>3 DEF GoogleSignIn, Arrived
    <3>2. QED
      BY <3>1 DEF NewRequest, Kinds
  <2>4. CASE RevokeSession(w, t)
    <3>1. Arrived(w, "revoke", "commit", TokenOwner[t], NoToken, NoCode, {t})
      BY <2>4 DEF RevokeSession, Arrived
    <3>2. QED
      BY <3>1 DEF NewRequest, Kinds
  <2>5. QED
    BY <1>1, <2>1, <2>2, <2>3, <2>4 DEF SessionRequest
<1>2. ASSUME NEW c \in Codes, ResetRequest(w, c)
      PROVE  NewRequest(w)
  <2> CodeOwner[c] \in Addresses /\ inbox \subseteq Codes
    BY DEF TypeOK
  <2>1. CASE RequestPasswordReset(w, c)
    <3>1. Arrived(w, "forgot", "commit", CodeOwner[c], NoToken, c, {})
      BY <2>1 DEF RequestPasswordReset, Arrived, FreshCode
    <3>2. QED
      BY <3>1 DEF NewRequest, Kinds
  <2>2. CASE ResetPassword(w, c)
    <3>1. Arrived(w, "reset", "list", CodeOwner[c], NoToken, c, {})
      BY <2>2 DEF ResetPassword, Arrived
    <3>2. QED
      BY <3>1 DEF NewRequest, Kinds
  <2>3. QED
    BY <1>2, <2>1, <2>2 DEF ResetRequest
<1>3. ASSUME NEW a \in Addresses, LogoutRequest(w, a)
      PROVE  NewRequest(w)
  <2> inbox \subseteq Codes
    BY DEF TypeOK
  <2>1. PICK given \in SUBSET Tokens : Logout(w, a, given)
    BY <1>3 DEF LogoutRequest
  <2>2. Arrived(w, "logout", "list", a, NoToken, NoCode, given)
    BY <2>1 DEF Logout, Arrived
  <2>3. QED
    BY <2>2 DEF NewRequest, Kinds
<1>4. QED
  BY <1>1, <1>2, <1>3

\* The steps that are not a request's: time passes, or a token is refreshed.
\* No session or code appears, disappears or becomes active in them.
Environment ==
    /\ UNCHANGED <<users, uses, inbox, pc, req, failures>>
    /\ access' \subseteq Addresses
    /\ sessions' \in [Tokens -> Session] /\ codes' \in [Codes -> CodeStatus]
    /\ \A t \in Tokens :
            \/ sessions'[t] = sessions[t]
            \/ /\ sessions[t].status = "active"
               /\ sessions'[t] = [sessions[t] EXCEPT !.status = "expired"]
    /\ \A c \in Codes : \/ codes'[c] = codes[c]
                        \/ codes[c] = "active" /\ codes'[c] = "expired"

LEMMA EnvironmentSteps ==
    ASSUME TypeOK, Expiry \/ (\E t \in Tokens : Refresh(t)) \/ UNCHANGED vars
    PROVE  Environment
<1> USE OwnerAssumption DEF dbVars
<1>1. ASSUME NEW t \in Tokens, ExpireSession(t)
      PROVE  Environment
  <2>1. [sessions[t] EXCEPT !.status = "expired"] \in Session
    BY DEF TypeOK, Session, SessionStatus
  <2>2. QED
    BY <1>1, <2>1 DEF ExpireSession, Environment, TypeOK
<1>2. ASSUME NEW c \in Codes, ExpireCode(c)
      PROVE  Environment
  BY <1>2 DEF ExpireCode, Environment, TypeOK, CodeStatus
<1>3. ASSUME NEW a \in Addresses, ExpireAccess(a)
      PROVE  Environment
  BY <1>3 DEF ExpireAccess, Environment, TypeOK
<1>4. ASSUME NEW t \in Tokens, Refresh(t)
      PROVE  Environment
  BY <1>4 DEF Refresh, Environment, TypeOK
<1>5. CASE UNCHANGED vars
  BY <1>5 DEF vars, Environment, TypeOK
<1>6. QED
  BY <1>1, <1>2, <1>3, <1>4, <1>5 DEF Expiry

\* A request that ends without a commit.
Dropped(w) ==
    /\ pc[w] # "idle"
    /\ Ends(w)
    /\ UNCHANGED <<dbVars, inbox, access>>
    /\ failures' \in 0 .. MaxFailures
    /\ failures' = failures => Conflicts(req[w])

LEMMA DroppedSteps ==
    ASSUME TypeOK, NEW w \in Workers, Conflict(w) \/ Rollback(w)
    PROVE  Dropped(w)
BY FailureAssumption DEF TypeOK, Conflict, Rollback, Dropped

\* So a step is of one of five forms.
LEMMA StepForms ==
    ASSUME TypeOK, [Next]_vars
    PROVE  \/ \E w \in Workers : NewRequest(w) \/ ListSessions(w) \/ Commit(w) \/ Dropped(w)
           \/ Environment
BY RequestArrives, EnvironmentSteps, DroppedSteps DEF Next, WorkerStep

LEMMA TypeInit == Init => TypeOK
<1>1. NoUser \in User /\ NoSession \in Session /\ "none" \in CodeStatus /\ "idle" \in PC
  BY DEF NoUser, User, AuthProvider, NoSession, Session, SessionStatus, CodeStatus, PC
<1>2. QED
  BY <1>1, FailureAssumption DEF Init, TypeOK

LEMMA CommittedTypes ==
    ASSUME TypeOK, NEW w \in Workers, pc[w] # "idle"
    PROVE  /\ req[w] \in Request
           /\ CommittedUser(req[w]) \in User
           /\ \A t \in Tokens : CommittedSession(req[w], t) \in Session
           /\ \A c \in Codes : CommittedCode(req[w], c) \in CodeStatus
<1> DEFINE q == req[w]
<1>1. q \in Request
  BY DEF TypeOK
<1> HIDE DEF q
<1>2. q.owner \in Addresses /\ q.user \in User
  BY <1>1 DEF Request
<1>3. CommittedUser(q) \in User
  BY <1>2 DEF TypeOK, CommittedUser, User, AuthProvider
<1>4. \A t \in Tokens : CommittedSession(q, t) \in Session
  BY <1>2 DEF TypeOK, CommittedSession, Session, SessionStatus, User
<1>5. \A c \in Codes : CommittedCode(q, c) \in CodeStatus
  BY DEF TypeOK, CommittedCode, CodeStatus
<1>6. QED
  BY <1>1, <1>3, <1>4, <1>5 DEF q

LEMMA TypeStep == TypeOK /\ [Next]_vars => TypeOK'
<1> SUFFICES ASSUME TypeOK, [Next]_vars
             PROVE  TypeOK'
  OBVIOUS
<1> USE DEF dbVars
<1>1. ASSUME NEW w \in Workers, NewRequest(w)
      PROVE  TypeOK'
  <2>1. PICK kind \in Kinds, next \in {"list", "commit"}, owner \in Addresses,
             token \in Tokens \cup {NoToken}, code \in Codes \cup {NoCode}, found \in SUBSET Tokens :
                Arrived(w, kind, next, owner, token, code, found)
    BY <1>1 DEF NewRequest
  <2>2. next \in PC
    BY DEF PC
  <2>3. QED
    BY <2>1, <2>2, ArrivesType DEF Arrived, TypeOK
<1>2. ASSUME NEW w \in Workers, ListSessions(w)
      PROVE  TypeOK'
  <2> DEFINE found == OpenSessions(req[w].owner)
                        \cup {t \in req[w].found : sessions[t].status = "active"}
  <2>1. req[w] \in Request
    BY <1>2 DEF ListSessions, TypeOK
  <2>2. found \subseteq Tokens
    BY <2>1 DEF OpenSessions, Request
  <2>3. [req[w] EXCEPT !.found = found] \in Request
    BY <2>1, <2>2 DEF Request
  <2>4. req' = [req EXCEPT ![w] = [req[w] EXCEPT !.found = found]]
    BY <1>2 DEF ListSessions
  <2> HIDE DEF found
  <2>5. QED
    BY <1>2, <2>3, <2>4 DEF ListSessions, TypeOK, PC
<1>3. ASSUME NEW w \in Workers, Commit(w)
      PROVE  TypeOK'
  <2>1. /\ req[w] \in Request
        /\ CommittedUser(req[w]) \in User
        /\ \A t \in Tokens : CommittedSession(req[w], t) \in Session
        /\ \A c \in Codes : CommittedCode(req[w], c) \in CodeStatus
    BY <1>3, CommittedTypes DEF Commit
  <2>2. users' \in [Addresses -> User] /\ sessions' \in [Tokens -> Session] /\ codes' \in [Codes -> CodeStatus]
    BY <1>3, <2>1 DEF Commit, TypeOK
  <2>3. uses' \in [Codes -> Nat]
    <3>1. uses' \in {uses, [uses EXCEPT ![req[w].code] = @ + 1]}
      BY <1>3 DEF Commit
    <3>2. QED
      BY <3>1 DEF TypeOK
  <2>4. access' \subseteq Addresses /\ inbox' \subseteq Codes /\ failures' \in 0 .. MaxFailures
    BY <1>3, <2>1 DEF Commit, TypeOK, Request
  <2>5. QED
    BY <1>3, <2>2, <2>3, <2>4, EndsType DEF Commit, TypeOK
<1>4. ASSUME NEW w \in Workers, Dropped(w)
      PROVE  TypeOK'
  BY <1>4, EndsType DEF Dropped, TypeOK
<1>5. CASE Environment
  BY <1>5 DEF Environment, TypeOK
<1>6. QED
  BY <1>1, <1>2, <1>3, <1>4, <1>5, StepForms

-----------------------------------------------------------------------------
(* The invariant                                                           *)

\* A token that is being issued is nobody else's, and has no row yet.
TokensAreNew ==
    \A w \in Busy : req[w].token \in Tokens =>
        /\ TokenOwner[req[w].token] = req[w].owner
        /\ sessions[req[w].token].status = "none"
        /\ \A v \in Busy : req[v].token = req[w].token => v = w

\* The sessions a request refers to exist, and what it holds is its kind's.
\* Once it has listed the sessions, a logout or reset misses none of those
\* that were open when it arrived, but what others have revoked.
Sound(w) ==
    /\ \A t \in req[w].earlier : TokenOwner[t] = req[w].owner /\ sessions[t].status # "none"
    /\ pc[w] = "commit" => \A t \in req[w].found : sessions[t].status # "none"
    /\ req[w].kind = "register" => ~req[w].user.exists
    /\ req[w].kind = "reset" => req[w].code \in inbox /\ CodeOwner[req[w].code] = req[w].owner
    /\ req[w].kind \in {"logout", "reset"} =>
        /\ req[w].token = NoToken
        /\ pc[w] = "commit" => \A t \in req[w].earlier :
                t \in req[w].found \/ sessions[t].status = "revoked"

RequestsAreSound == \A w \in Busy : Sound(w)

IInv ==
    /\ TypeOK
    /\ TokensAreNew
    /\ RequestsAreSound

\* No row disappears and no revocation is taken back.
Kept == \A t \in Tokens : /\ sessions[t].status # "none" => sessions'[t].status # "none"
                          /\ sessions[t].status = "revoked" => sessions'[t].status = "revoked"

LEMMA SessionsAreKept ==
    ASSUME IInv, [Next]_vars
    PROVE  Kept
<1> USE DEF IInv, dbVars
<1>1. ASSUME NEW w \in Workers, Commit(w)
      PROVE  Kept
  <2>1. req[w] \in Request /\ w \in Busy
    BY <1>1 DEF Commit, TypeOK, Busy
  <2>2. \A t \in Tokens : t = req[w].token => sessions[t].status = "none"
    BY <2>1 DEF TokensAreNew
  <2>3. \A t \in Tokens : sessions'[t] = CommittedSession(req[w], t)
    BY <1>1 DEF Commit
  <2>4. \A t \in Tokens : t # req[w].token =>
            sessions'[t] \in {sessions[t], [sessions[t] EXCEPT !.status = "revoked"]}
    BY <2>3 DEF CommittedSession
  <2>5. \A t \in Tokens : sessions[t] \in Session
    BY DEF TypeOK
  <2>6. QED
    BY <2>2, <2>4, <2>5 DEF Kept, Session
<1>2. ASSUME NEW w \in Workers, NewRequest(w) \/ ListSessions(w) \/ Dropped(w)
      PROVE  Kept
  BY <1>2 DEF NewRequest, Arrived, ListSessions, Dropped, Kept
<1>3. CASE Environment
  <2>1. \A t \in Tokens : sessions[t] \in Session
    BY DEF TypeOK
  <2>2. QED
    BY <1>3, <2>1 DEF Environment, Kept, Session
<1>4. QED
  BY <1>1, <1>2, <1>3, StepForms

-----------------------------------------------------------------------------
(* The invariant is kept                                                   *)

LEMMA InitInv == Init => IInv
<1>1. Init => Busy = {}
  BY DEF Init, Busy
<1>2. QED
  BY <1>1, TypeInit DEF IInv, TokensAreNew, RequestsAreSound

\* What is sound of a request stays so while others move.
LEMMA SoundIsStable ==
    ASSUME IInv, Kept, inbox \subseteq inbox', NEW v \in Busy, pc'[v] = pc[v], req'[v] = req[v]
    PROVE  Sound(v)'
<1>1. v \in Workers /\ pc[v] # "idle"
  BY DEF Busy
<1>2. req[v] \in Request /\ Sound(v)
  BY <1>1 DEF IInv, TypeOK, RequestsAreSound
<1>3. req[v].earlier \subseteq Tokens /\ req[v].found \subseteq Tokens
  BY <1>2 DEF Request
<1>4. QED
  BY <1>2, <1>3 DEF Kept, Sound

LEMMA RequestKeepsInv ==
    ASSUME IInv, TypeOK', Kept, NEW w \in Workers, NewRequest(w)
    PROVE  IInv'
<1>1. PICK kind \in Kinds, next \in {"list", "commit"}, owner \in Addresses,
           token \in Tokens \cup {NoToken}, code \in Codes \cup {NoCode}, found \in SUBSET Tokens :
                Arrived(w, kind, next, owner, token, code, found)
  BY DEF NewRequest
<1>2. /\ pc[w] = "idle" /\ pc'[w] = next
      /\ req'[w] = [kind |-> kind, owner |-> owner, user |-> users[owner],
                    token |-> token, code |-> code, found |-> found,
                    earlier |-> OpenSessions(owner)]
      /\ \A v \in Workers : v # w => pc'[v] = pc[v] /\ req'[v] = req[v]
  BY <1>1, ArrivesType DEF Arrived, IInv, PC
<1>3. Busy' = Busy \cup {w} /\ w \notin Busy
  BY <1>2 DEF Busy
<1>4. sessions' = sessions /\ inbox \subseteq inbox'
  BY <1>1 DEF Arrived, dbVars
<1>5. RequestsAreSound'
  <2>1. Sound(w)'
    BY <1>1, <1>2, <1>4 DEF Arrived, Sound, OpenSessions
  <2>2. \A v \in Busy : Sound(v)'
    BY <1>2, <1>3, <1>4, SoundIsStable DEF Busy
  <2>3. QED
    BY <1>3, <2>1, <2>2 DEF RequestsAreSound
<1>6. TokensAreNew'
  <2>1. \A v \in Busy : v # w /\ req'[v] = req[v]
    BY <1>2, <1>3 DEF Busy
  <2>2. token \in Tokens => /\ TokenOwner[token] = owner /\ sessions[token].status = "none"
                            /\ \A v \in Busy : req[v].token # token
    BY <1>1 DEF Arrived, FreshToken
  <2>3. req'[w].token = token /\ req'[w].owner = owner
    BY <1>2
  <2>4. QED
    BY <1>3, <1>4, <2>1, <2>2, <2>3 DEF TokensAreNew, IInv
<1>7. QED
  BY <1>5, <1>6 DEF IInv

LEMMA ListKeepsInv ==
    ASSUME IInv, TypeOK', Kept, NEW w \in Workers, ListSessions(w)
    PROVE  IInv'
<1> DEFINE found == OpenSessions(req[w].owner)
                      \cup {t \in req[w].found : sessions[t].status = "active"}
<1>1. w \in Busy /\ req[w] \in Request /\ Sound(w)
  BY DEF ListSessions, IInv, TypeOK, RequestsAreSound, Busy
<1>2. /\ pc' = [pc EXCEPT ![w] = "commit"]
      /\ req' = [req EXCEPT ![w] = [req[w] EXCEPT !.found = found]]
      /\ sessions' = sessions /\ inbox' = inbox
  BY DEF ListSessions, dbVars
<1>3. \A t \in found : sessions[t].status # "none"
  BY DEF OpenSessions
<1>4. \A t \in req[w].earlier : t \in found \/ sessions[t].status = "revoked"
  <2> SUFFICES ASSUME NEW t \in req[w].earlier, sessions[t].status # "revoked"
               PROVE  t \in found
    OBVIOUS
  <2>1. t \in Tokens /\ TokenOwner[t] = req[w].owner /\ sessions[t].status # "none"
    BY <1>1 DEF Request, Sound
  <2>2. sessions[t].status \in {"active", "expired"}
    BY <2>1 DEF IInv, TypeOK, Session, SessionStatus
  <2>3. QED
    BY <2>1, <2>2 DEF OpenSessions
<1> HIDE DEF found
<1>5. /\ pc'[w] = "commit" /\ req'[w] = [req[w] EXCEPT !.found = found]
      /\ \A v \in Workers : v # w => pc'[v] = pc[v] /\ req'[v] = req[v]
      /\ Busy' = Busy
  BY <1>1, <1>2 DEF IInv, TypeOK, Busy
<1>6. RequestsAreSound'
  <2>1. Sound(w)'
    BY <1>1, <1>2, <1>3, <1>4, <1>5 DEF Sound, Request
  <2>2. \A v \in Busy : v # w => Sound(v)'
    BY <1>2, <1>5, SoundIsStable DEF Busy
  <2>3. QED
    BY <1>5, <2>1, <2>2 DEF RequestsAreSound
<1>7. TokensAreNew'
  <2>1. \A v \in Busy : req'[v].token = req[v].token /\ req'[v].owner = req[v].owner
    BY <1>1, <1>5 DEF Busy, Request
  <2>2. QED
    BY <1>2, <1>5, <2>1 DEF TokensAreNew, IInv
<1>8. QED
  BY <1>6, <1>7 DEF IInv

\* Steps that end a request or concern none: the other requests keep what
\* they hold, and a token that is being issued stays without a row.
LEMMA OthersKeepInv ==
    ASSUME IInv, TypeOK', Kept, inbox \subseteq inbox',
           \A v \in Busy' : v \in Busy /\ pc'[v] = pc[v] /\ req'[v] = req[v],
           \A v \in Busy' : req[v].token \in Tokens => sessions'[req[v].token].status = "none"
    PROVE  IInv'
<1>1. RequestsAreSound'
  BY SoundIsStable DEF RequestsAreSound
<1>2. TokensAreNew'
  BY DEF TokensAreNew, IInv
<1>3. QED
  BY <1>1, <1>2 DEF IInv

LEMMA CommitKeepsInv ==
    ASSUME IInv, TypeOK', Kept, NEW w \in Workers, Commit(w)
    PROVE  IInv'
<1>1. w \in Busy /\ Sound(w) /\ Ends(w) /\ pc[w] = "commit"
  BY DEF Commit, IInv, RequestsAreSound, Busy
<1>2. \A v \in Busy' : v # w /\ v \in Busy /\ pc'[v] = pc[v] /\ req'[v] = req[v]
  BY <1>1, EndsType DEF IInv, Busy
<1>3. ASSUME NEW v \in Busy', req[v].token \in Tokens
      PROVE  sessions'[req[v].token].status = "none"
  <2>1. sessions[req[v].token].status = "none" /\ req[v].token # req[w].token
    BY <1>1, <1>2, <1>3 DEF TokensAreNew, IInv
  <2>2. req[v].token \notin req[w].found
    BY <1>1, <2>1 DEF Sound
  <2>3. QED
    BY <1>3, <2>1, <2>2 DEF Commit, CommittedSession
<1>4. QED
  BY <1>2, <1>3, OthersKeepInv DEF Commit

LEMMA NextInv == IInv /\ [Next]_vars => IInv'
<1> SUFFICES ASSUME IInv, [Next]_vars
             PROVE  IInv'
  OBVIOUS
<1>1. TypeOK' /\ Kept
  BY TypeStep, SessionsAreKept DEF IInv
<1>2. ASSUME NEW w \in Workers, NewRequest(w)
      PROVE  IInv'
  BY <1>1, <1>2, RequestKeepsInv
<1>3. ASSUME NEW w \in Workers, ListSessions(w)
      PROVE  IInv'
  BY <1>1, <1>3, ListKeepsInv
<1>4. ASSUME NEW w \in Workers, Commit(w)
      PROVE  IInv'
  BY <1>1, <1>4, CommitKeepsInv
<1>5. ASSUME NEW w \in Workers, Dropped(w)
      PROVE  IInv'
  <2>1. \A v \in Busy' : v \in Busy /\ pc'[v] = pc[v] /\ req'[v] = req[v]
    BY <1>5, EndsType DEF Dropped, IInv, Busy
  <2>2. sessions' = sessions /\ inbox' = inbox
    BY <1>5 DEF Dropped, dbVars
  <2>3. QED
    BY <1>1, <2>1, <2>2, OthersKeepInv DEF TokensAreNew, IInv
<1>6. CASE Environment
  <2>1. \A v \in Busy' : v \in Busy /\ pc'[v] = pc[v] /\ req'[v] = req[v]
    BY <1>6 DEF Environment, Busy
  <2>2. \A t \in Tokens : sessions[t].status = "none" => sessions'[t].status = "none"
    BY <1>6 DEF Environment
  <2>3. inbox' = inbox
    BY <1>6 DEF Environment
  <2>4. QED
    BY <1>1, <2>1, <2>2, <2>3, OthersKeepInv DEF TokensAreNew, IInv
<1>7. QED
  BY <1>2, <1>3, <1>4, <1>5, <1>6, StepForms DEF IInv

-----------------------------------------------------------------------------
(* The theorems                                                            *)

LEMMA SpecInv == Spec => []IInv
BY InitInv, NextInv, PTL DEF Spec

\* Every reachable state is well typed.
THEOREM TypeCorrect == Spec => []TypeOK
<1>1. IInv => TypeOK
  BY DEF IInv
<1>2. QED
  BY <1>1, SpecInv, PTL

\* A logout or a reset that commits revokes what was open when it arrived,
\* whatever other logins, revocations and expiries did in between.
THEOREM RevocationCorrect == Spec => RevocationIsComplete
<1>1. ASSUME IInv, [Next]_vars, NEW w \in Workers, pc[w] = "commit", pc'[w] = "idle",
             failures' = failures, req[w].kind \in {"logout", "reset"},
             NEW t \in req[w].earlier
      PROVE  sessions'[t].status = "revoked"
  <2>1. w \in Busy /\ Sound(w) /\ req[w] \in Request
    BY <1>1 DEF IInv, TypeOK, RequestsAreSound, Busy
  <2>2. t \in Tokens /\ t # req[w].token /\ (t \in req[w].found \/ sessions[t].status = "revoked")
    BY <1>1, <2>1, NoneAssumption DEF Sound, Request
  <2>3. Commit(w)
    <3>1. ASSUME NEW v \in Workers, NewRequest(v) PROVE FALSE
      <4>1. PICK kind \in Kinds, next \in {"list", "commit"}, owner \in Addresses,
                 token \in Tokens \cup {NoToken}, code \in Codes \cup {NoCode}, found \in SUBSET Tokens :
                Arrives(v, kind, next, owner, token, code, found)
        BY <3>1 DEF NewRequest, Arrived
      <4>2. pc[v] = "idle" /\ pc' = [pc EXCEPT ![v] = next]
        BY <4>1 DEF Arrives
      <4>3. QED
        BY <1>1, <4>2 DEF IInv, TypeOK
    <3>2. ASSUME NEW v \in Workers, ListSessions(v) PROVE FALSE
      BY <1>1, <3>2 DEF ListSessions, IInv, TypeOK
    <3>3. ASSUME NEW v \in Workers, Dropped(v) PROVE FALSE
      <4>1. v = w
        BY <1>1, <3>3, EndsType DEF Dropped, IInv
      <4>2. QED
        BY <1>1, <3>3, <4>1 DEF Dropped, Conflicts
    <3>4. ASSUME NEW v \in Workers, Commit(v) PROVE v = w
      BY <1>1, <3>4, EndsType DEF Commit, IInv
    <3>5. ~Environment
      BY <1>1 DEF Environment
    <3>6. QED
      BY <1>1, <3>1, <3>2, <3>3, <3>4, <3>5, StepForms DEF IInv
  <2>4. sessions'[t] = CommittedSession(req[w], t)
    BY <2>2, <2>3 DEF Commit
  <2>5. sessions[t] \in Session
    BY <2>2, <1>1 DEF IInv, TypeOK
  <2>6. QED
    BY <2>2, <2>4, <2>5 DEF CommittedSession, Session
<1>2. IInv /\ [Next]_vars =>
        [\A w \in Workers :
            /\ pc[w] = "commit" /\ pc'[w] = "idle" /\ failures' = failures
            /\ req[w].kind \in {"logout", "reset"}
            => \A t \in req[w].earlier : sessions'[t].status = "revoked"]_vars
  BY <1>1
<1>3. QED
  BY <1>2, SpecInv, PTL DEF Spec, RevocationIsComplete

\* A password that a user has changes only in the commit of a reset, with a
\* code that was mailed to that user: sign-ups that overlap overwrite none.
THEOREM PasswordsCorrect == Spec => PasswordsChangeByMail
<1>1. ASSUME IInv, [Next]_vars, NEW a \in Addresses,
             users[a].exists, users'[a].version # users[a].version
      PROVE  \E c \in inbox : CodeOwner[c] = a /\ uses'[c] > uses[c]
  <2>1. PICK w \in Workers : Commit(w)
    BY <1>1, StepForms DEF IInv, NewRequest, Arrived, ListSessions, Dropped, Environment, dbVars
  <2>2. w \in Busy /\ Sound(w) /\ req[w] \in Request
    BY <1>1, <2>1 DEF Commit, IInv, TypeOK, RequestsAreSound, Busy
  <2>3. users[a] \in User
    BY <1>1 DEF IInv, TypeOK
  <2>4. users' = [users EXCEPT ![req[w].owner] = CommittedUser(req[w])]
    BY <2>1 DEF Commit
  <2>5. a = req[w].owner /\ CommittedUser(req[w]).version # users[a].version
    BY <1>1, <2>4 DEF IInv, TypeOK
  <2>6. ~Conflicts(req[w])
    BY <2>1 DEF Commit
  <2>7. req[w].kind = "reset"
    <3>1. req[w].kind # "register"
      BY <1>1, <2>2, <2>5, <2>6 DEF Conflicts, Sound
    <3>2. req[w].kind # "google"
      BY <1>1, <2>2, <2>3, <2>5, <2>6 DEF Conflicts, CommittedUser, User
    <3>3. QED
      BY <3>1, <3>2, <2>5 DEF CommittedUser
  <2>8. req[w].code \in inbox /\ CodeOwner[req[w].code] = a
    BY <2>2, <2>5, <2>7 DEF Sound
  <2>9. uses' = [uses EXCEPT ![req[w].code] = @ + 1] /\ uses[req[w].code] \in Nat
    BY <1>1, <2>1, <2>7, <2>8 DEF Commit, IInv, TypeOK
  <2>10. uses'[req[w].code] > uses[req[w].code]
    BY <1>1, <2>8, <2>9 DEF IInv, TypeOK
  <2>11. QED
    BY <2>8, <2>10
<1>2. IInv /\ [Next]_vars =>
        [\A a \in Addresses : users[a].exists /\ users'[a].version # users[a].version =>
            \E c \in inbox : CodeOwner[c] = a /\ uses'[c] > uses[c]]_vars
  BY <1>1
<1>3. QED
  BY <1>2, SpecInv, PTL DEF Spec, PasswordsChangeByMail

-----------------------------------------------------------------------------
(***************************************************************************)
(* The promise.  On top of IInv: rows and requests refer to accounts that  *)
(* are there, which stays so because no account is ever closed.            *)
(***************************************************************************)

Linked(w) ==
    /\ req[w].token \in Tokens <=> req[w].kind \in {"register", "login", "google"}
    /\ req[w].token \in Tokens => pc[w] = "commit" /\ req[w].found = {}
    /\ req[w].user.exists \/ req[w].kind \in {"login", "forgot", "reset"} =>
            users[req[w].owner].exists
    /\ req[w].kind \in {"forgot", "reset"} => CodeOwner[req[w].code] = req[w].owner
    /\ req[w].kind \notin {"forgot", "reset"} => req[w].code = NoCode
    /\ req[w].kind = "reset" => \A t \in req[w].found : TokenOwner[t] = req[w].owner

RequestsAreLinked == \A w \in Busy : Linked(w)

CodesHaveAccounts == \A c \in Codes : codes[c] # "none" => users[CodeOwner[c]].exists

NoAccountNoPassword == \A a \in Addresses : ~users[a].exists => users[a].version = 0

LInv ==
    /\ IInv
    /\ RequestsAreLinked
    /\ CodesHaveAccounts
    /\ NoAccountNoPassword

LEMMA LinkedInit == Init => LInv
<1>1. Init => Busy = {}
  BY DEF Init, Busy
<1>2. QED
  BY <1>1, InitInv, OwnerAssumption
  DEF Init, LInv, RequestsAreLinked, CodesHaveAccounts, NoAccountNoPassword, NoUser

\* What a commit does to the accounts and to the tokens.
LEMMA CommitEffects ==
    ASSUME LInv, NEW w \in Workers, Commit(w)
    PROVE  /\ req[w] \in Request /\ w \in Busy /\ Linked(w) /\ Sound(w) /\ pc[w] = "commit"
           /\ users' = [users EXCEPT ![req[w].owner] = CommittedUser(req[w])]
           /\ users'[req[w].owner] = CommittedUser(req[w])
           /\ \A a \in Addresses : a # req[w].owner => users'[a] = users[a]
           /\ \A t \in Tokens : sessions'[t] = CommittedSession(req[w], t)
           /\ \A c \in Codes : codes'[c] = CommittedCode(req[w], c)
           /\ ~Conflicts(req[w])
<1>1. req[w] \in Request /\ w \in Busy /\ Linked(w) /\ Sound(w) /\ pc[w] = "commit"
  BY DEF Commit, LInv, IInv, TypeOK, RequestsAreLinked, RequestsAreSound, Busy
<1>2. users' = [users EXCEPT ![req[w].owner] = CommittedUser(req[w])]
  BY DEF Commit
<1>3. req[w].owner \in Addresses
  BY <1>1 DEF Request
<1>4. QED
  BY <1>1, <1>2, <1>3 DEF Commit, LInv, IInv, TypeOK

\* The account of a committed request is there afterwards, and keeps its password unless
\* the request opened it or is a reset.
LEMMA CommittedAccount ==
    ASSUME LInv, NEW w \in Workers, Commit(w)
    PROVE  LET q == req[w]
               stored == users[q.owner]
           IN  /\ stored.exists => CommittedUser(q).exists
               /\ q.token \in Tokens => CommittedUser(q).exists
               /\ q.token \in Tokens =>
                    \/ CommittedUser(q).version = stored.version
                    \/ ~stored.exists /\ CommittedUser(q).version = 1
               /\ q.token \notin Tokens /\ q.kind # "reset" => CommittedUser(q) = stored
               /\ q.kind = "reset" =>
                    /\ stored.exists /\ CommittedUser(q).exists
                    /\ CommittedUser(q).version = stored.version + 1
<1> DEFINE q == req[w]
<1>1. q \in Request /\ Linked(w) /\ Sound(w) /\ ~Conflicts(q)
  BY CommitEffects
<1>2. q.owner \in Addresses /\ users[q.owner] \in User
  BY <1>1 DEF Request, LInv, IInv, TypeOK
<1>3. ~users[q.owner].exists => users[q.owner].version = 0
  BY <1>2 DEF LInv, NoAccountNoPassword
<1> HIDE DEF q
<1>4. CASE q.kind = "register"
  <2>1. CommittedUser(q) = [exists |-> TRUE, provider |-> "email", version |-> 1]
    BY <1>4 DEF CommittedUser
  <2>2. ~users[q.owner].exists
    BY <1>1, <1>4 DEF Conflicts, Sound, q
  <2>3. QED
    BY <1>1, <1>3, <1>4, <2>1, <2>2 DEF Linked, q
<1>5. CASE q.kind = "google" /\ ~q.user.exists
  <2>1. CommittedUser(q) = [exists |-> TRUE, provider |-> "google", version |-> 0]
    BY <1>5 DEF CommittedUser
  <2>2. ~users[q.owner].exists
    BY <1>1, <1>5 DEF Conflicts, q
  <2>3. QED
    BY <1>1, <1>3, <1>5, <2>1, <2>2 DEF Linked, q
<1>6. CASE q.kind = "google" /\ q.user.exists
  BY <1>1, <1>2, <1>6 DEF CommittedUser, Linked, User, q
<1>7. CASE q.kind = "reset"
  <2>1. CommittedUser(q) = [users[q.owner] EXCEPT !.version = @ + 1]
    BY <1>7 DEF CommittedUser
  <2>2. users[q.owner].exists /\ q.token \notin Tokens
    BY <1>1, <1>7 DEF Linked, q
  <2>3. QED
    BY <1>2, <1>7, <2>1, <2>2 DEF User, q
<1>8. CASE q.kind \notin {"register", "google", "reset"}
  <2>1. CommittedUser(q) = users[q.owner]
    BY <1>8 DEF CommittedUser
  <2>2. q.token \in Tokens => users[q.owner].exists
    BY <1>1, <1>8 DEF Linked, q
  <2>3. QED
    BY <1>8, <2>1, <2>2 DEF q
<1>9. QED
  BY <1>4, <1>5, <1>6, <1>7, <1>8 DEF q

LEMMA AccountsAreKept ==
    ASSUME LInv, [Next]_vars
    PROVE  /\ \A a \in Addresses : users[a].exists => users'[a].exists
           /\ NoAccountNoPassword'
<1>1. ASSUME NEW w \in Workers, Commit(w)
      PROVE  /\ \A a \in Addresses : users[a].exists => users'[a].exists
             /\ NoAccountNoPassword'
  <2>1. ASSUME NEW a \in Addresses, a = req[w].owner
        PROVE  /\ users[a].exists => users'[a].exists
               /\ ~users'[a].exists => users'[a] = users[a]
    <3>1. users'[a] = CommittedUser(req[w])
      BY <1>1, <2>1, CommitEffects
    <3>2. /\ users[a].exists => CommittedUser(req[w]).exists
          /\ ~CommittedUser(req[w]).exists => CommittedUser(req[w]) = users[a]
      BY <1>1, <2>1, CommittedAccount
    <3>3. QED
      BY <3>1, <3>2
  <2>2. \A a \in Addresses : a # req[w].owner => users'[a] = users[a]
    BY <1>1, CommitEffects
  <2>3. QED
    BY <2>1, <2>2 DEF LInv, NoAccountNoPassword
<1>2. CASE users' = users
  BY <1>2 DEF LInv, NoAccountNoPassword
<1>3. users' = users \/ \E w \in Workers : Commit(w)
  BY StepForms DEF LInv, IInv, NewRequest, Arrived, ListSessions, Dropped, Environment, dbVars
<1>4. QED
  BY <1>1, <1>2, <1>3

LEMMA LinkedStep ==
    ASSUME LInv, [Next]_vars
    PROVE  LInv'
<1>1. IInv'
  BY NextInv DEF LInv
<1>2. /\ \A a \in Addresses : users[a].exists => users'[a].exists
      /\ NoAccountNoPassword'
  BY AccountsAreKept
<1>3. \A v \in Busy : req[v] \in Request /\ req[v].owner \in Addresses
  BY DEF LInv, IInv, TypeOK, Busy, Request
\* A request that goes on, or one that a step leaves alone, stays linked.
<1>4. ASSUME NEW v \in Busy, pc'[v] = pc[v], req'[v] = req[v]
      PROVE  Linked(v)'
  BY <1>2, <1>3, <1>4 DEF Linked, LInv, RequestsAreLinked
<1>5. ASSUME NEW w \in Workers, NewRequest(w)
      PROVE  RequestsAreLinked' /\ CodesHaveAccounts'
  <2>1. PICK kind \in Kinds, next \in {"list", "commit"}, owner \in Addresses,
             token \in Tokens \cup {NoToken}, code \in Codes \cup {NoCode},
             found \in SUBSET Tokens :
                Arrived(w, kind, next, owner, token, code, found)
    BY <1>5 DEF NewRequest
  <2>2. /\ pc[w] = "idle" /\ pc' = [pc EXCEPT ![w] = next]
        /\ req'[w] = [kind |-> kind, owner |-> owner, user |-> users[owner],
                      token |-> token, code |-> code, found |-> found,
                      earlier |-> OpenSessions(owner)]
        /\ \A v \in Workers : v # w => pc'[v] = pc[v] /\ req'[v] = req[v]
    BY <2>1 DEF Arrived, Arrives, LInv, IInv, TypeOK
  <2>3. users' = users /\ codes' = codes
    BY <2>1 DEF Arrived, dbVars
  <2>4. kind = "reset" => users[owner].exists
    BY <2>1 DEF Arrived, LInv, CodesHaveAccounts
  <2>5. Linked(w)'
    <3> DEFINE q == [kind |-> kind, owner |-> owner, user |-> users[owner],
                     token |-> token, code |-> code, found |-> found,
                     earlier |-> OpenSessions(owner)]
    <3>1. /\ q.kind = kind /\ q.owner = owner /\ q.user = users[owner]
          /\ q.token = token /\ q.code = code /\ q.found = found
      OBVIOUS
    <3>2. req'[w] = q /\ pc'[w] = next /\ users' = users
      BY <2>2, <2>3 DEF LInv, IInv, TypeOK
    <3> HIDE DEF q
    <3>3. /\ token \in Tokens <=> kind \in {"register", "login", "google"}
          /\ token \in Tokens => next = "commit" /\ found = {}
          /\ users[owner].exists \/ kind \in {"login", "forgot", "reset"} =>
                users[owner].exists
          /\ kind \in {"forgot", "reset"} => CodeOwner[code] = owner
          /\ kind \notin {"forgot", "reset"} => code = NoCode
          /\ kind = "reset" => found = {}
      BY <2>1, <2>4 DEF Arrived
    <3>4. QED
      BY <3>1, <3>2, <3>3 DEF Linked
  <2>6. \A v \in Busy' : v # w => v \in Busy
    BY <2>2 DEF Busy, LInv, IInv, TypeOK
  <2>7. \A v \in Busy' : Linked(v)'
    <3>1. \A v \in Busy' : v \in Workers
      BY DEF Busy
    <3>2. QED
      BY <1>4, <2>2, <2>5, <2>6, <3>1
  <2>8. QED
    BY <2>3, <2>7 DEF LInv, CodesHaveAccounts, RequestsAreLinked
<1>6. ASSUME NEW w \in Workers, ListSessions(w)
      PROVE  RequestsAreLinked' /\ CodesHaveAccounts'
  <2>1. w \in Busy /\ req[w] \in Request /\ Linked(w) /\ pc[w] = "list"
    BY <1>6 DEF ListSessions, LInv, IInv, TypeOK, RequestsAreLinked, Busy
  <2>2. PICK found : /\ \A t \in found : TokenOwner[t] = req[w].owner \/ t \in req[w].found
                     /\ found \subseteq Tokens
                     /\ req'[w] = [req[w] EXCEPT !.found = found]
    <3> DEFINE found == OpenSessions(req[w].owner)
                          \cup {t \in req[w].found : sessions[t].status = "active"}
    <3>1. /\ \A t \in found : TokenOwner[t] = req[w].owner \/ t \in req[w].found
          /\ found \subseteq Tokens
      BY <2>1 DEF OpenSessions, Request
    <3>2. req'[w] = [req[w] EXCEPT !.found = found]
      BY <1>6, <2>1 DEF ListSessions, LInv, IInv, TypeOK
    <3> HIDE DEF found
    <3>3. QED
      BY <3>1, <3>2
  <2>3. req[w].token \notin Tokens
    BY <2>1 DEF Linked
  <2>4. Linked(w)'
    BY <1>2, <1>3, <2>1, <2>2, <2>3 DEF Linked, Request
  <2>5. /\ UNCHANGED <<users, codes>> /\ Busy' \subseteq Busy
        /\ \A v \in Workers : v # w => pc'[v] = pc[v] /\ req'[v] = req[v]
    BY <1>6 DEF ListSessions, dbVars, Busy, LInv, IInv, TypeOK
  <2>6. \A v \in Busy' : Linked(v)'
    <3>1. \A v \in Busy' : v \in Workers
      BY DEF Busy
    <3>2. QED
      BY <1>4, <2>4, <2>5, <3>1
  <2>7. QED
    BY <2>5, <2>6 DEF LInv, CodesHaveAccounts, RequestsAreLinked
<1>7. ASSUME NEW w \in Workers, Commit(w)
      PROVE  RequestsAreLinked' /\ CodesHaveAccounts'
  <2>1. \A v \in Busy' : v \in Busy /\ pc'[v] = pc[v] /\ req'[v] = req[v]
    BY <1>7, EndsType DEF Commit, LInv, IInv, Busy
  <2>2. ASSUME NEW c \in Codes, codes'[c] # "none"
        PROVE  users'[CodeOwner[c]].exists
    <3>1. codes'[c] = CommittedCode(req[w], c)
      BY <1>7, CommitEffects
    <3>2. CASE c # req[w].code
      BY <1>2, <2>2, <3>1, <3>2, OwnerAssumption DEF CommittedCode, LInv, CodesHaveAccounts
    <3>3. CASE c = req[w].code
      <4>1. Linked(w) /\ req[w].kind \in {"forgot", "reset"}
        BY <1>7, <3>3, CommitEffects, NoneAssumption DEF Linked
      <4>2. users[CodeOwner[c]].exists
        BY <3>3, <4>1 DEF Linked
      <4>3. QED
        BY <1>2, <4>2, OwnerAssumption
    <3>4. QED
      BY <3>2, <3>3
  <2>3. QED
    BY <1>4, <2>1, <2>2 DEF RequestsAreLinked, CodesHaveAccounts
<1>8. ASSUME Environment \/ \E w \in Workers : Dropped(w)
      PROVE  RequestsAreLinked' /\ CodesHaveAccounts'
  <2>1. \A v \in Busy' : v \in Busy /\ pc'[v] = pc[v] /\ req'[v] = req[v]
    BY <1>8, EndsType DEF Environment, Dropped, LInv, IInv, Busy
  <2>2. users' = users /\ \A c \in Codes : codes[c] = "none" => codes'[c] = "none"
    BY <1>8 DEF Environment, Dropped, dbVars
  <2>3. QED
    BY <1>4, <2>1, <2>2 DEF RequestsAreLinked, CodesHaveAccounts, LInv
<1>9. RequestsAreLinked' /\ CodesHaveAccounts'
  BY <1>5, <1>6, <1>7, <1>8, StepForms DEF LInv, IInv
<1>10. QED
  BY <1>1, <1>2, <1>9 DEF LInv

-----------------------------------------------------------------------------
(* One step of Sessions is one step of SessionLife, or none.               *)

Accounts == {a \in Addresses : users[a].exists}
Passwords == [a \in Addresses |-> users[a].version]
States == [t \in Tokens |-> sessions[t].status]

LEMMA CommitOfLife ==
    ASSUME LInv, NEW w \in Workers, Commit(w)
    PROVE  Life!Next \/ UNCHANGED <<Accounts, Passwords, States>>
<1> DEFINE q == req[w]
<1>1. /\ q \in Request /\ w \in Busy /\ Linked(w) /\ Sound(w) /\ pc[w] = "commit"
      /\ users'[q.owner] = CommittedUser(q)
      /\ \A a \in Addresses : a # q.owner => users'[a] = users[a]
      /\ \A t \in Tokens : sessions'[t] = CommittedSession(q, t)
  BY CommitEffects
<1>2. q.owner \in Addresses /\ q.found \subseteq Tokens /\ \A t \in Tokens : sessions[t] \in Session
  BY <1>1 DEF Request, LInv, IInv, TypeOK
<1>3. \A t \in q.found : sessions[t].status # "none"
  BY <1>1 DEF Sound
<1> HIDE DEF q
<1>4. ASSUME NEW t \in Tokens, t = q.token
      PROVE  Life!Next
  <2>1. /\ q.found = {} /\ TokenOwner[t] = q.owner
        /\ sessions[t].status = "none"
    BY <1>1, <1>4 DEF Linked, LInv, IInv, TokensAreNew, q
  <2>2. /\ CommittedUser(q).exists
        /\ \/ CommittedUser(q).version = users[q.owner].version
           \/ ~users[q.owner].exists /\ CommittedUser(q).version = 1
    BY <1>4, CommittedAccount DEF q
  <2>3. States' = [States EXCEPT ![t] = "active"]
    <3>1. CommittedSession(q, t).status = "active"
      BY <1>4 DEF CommittedSession
    <3>2. \A u \in Tokens : u # t => CommittedSession(q, u) = sessions[u]
      BY <1>4, <2>1 DEF CommittedSession
    <3>3. QED
      BY <1>1, <1>4, <3>1, <3>2 DEF States
  <2>4. Accounts' = Accounts \cup {TokenOwner[t]}
    BY <1>1, <1>2, <2>1, <2>2 DEF Accounts
  <2>5. \/ Passwords' = Passwords
        \/ /\ TokenOwner[t] \notin Accounts
           /\ Passwords' = [Passwords EXCEPT ![TokenOwner[t]] = 1]
    <3>1. CASE CommittedUser(q).version = users[q.owner].version
      BY <1>1, <1>2, <3>1 DEF Passwords
    <3>2. CASE ~users[q.owner].exists /\ CommittedUser(q).version = 1
      <4>1. Passwords' = [Passwords EXCEPT ![q.owner] = 1]
        BY <1>1, <1>2, <3>2 DEF Passwords
      <4>2. q.owner \notin Accounts
        BY <3>2 DEF Accounts
      <4>3. QED
        BY <2>1, <4>1, <4>2
    <3>3. QED
      BY <2>2, <3>1, <3>2
  <2>6. Life!SignIn(t)
    BY <1>4, <2>1, <2>3, <2>4, <2>5 DEF Life!SignIn, Life!Issued, Accounts, Passwords, States
  <2>7. QED
    BY <2>6 DEF Life!Next
<1>5. ASSUME NEW T \in SUBSET Tokens, T = q.found, q.token \notin Tokens
      PROVE  Life!Next
  <2>1. States' = [t \in Tokens |-> IF t \in T THEN "revoked" ELSE States[t]]
    BY <1>1, <1>2, <1>5 DEF States, CommittedSession, Session
  <2>2. ASSUME NEW a \in Addresses, a = q.owner, q.kind = "reset"
        PROVE  Life!Next
    <3>1. /\ users[q.owner].exists /\ CommittedUser(q).exists
          /\ CommittedUser(q).version = users[q.owner].version + 1
      BY <2>2, CommittedAccount DEF q
    <3>2. \A t \in T : TokenOwner[t] = q.owner
      BY <1>1, <1>5, <2>2 DEF Linked, q
    <3>3. Accounts' = Accounts /\ a \in Accounts
      BY <1>1, <1>2, <2>2, <3>1 DEF Accounts
    <3>4. Passwords' = [Passwords EXCEPT ![a] = @ + 1]
      BY <1>1, <1>2, <2>2, <3>1 DEF Passwords
    <3>5. Life!Reset(a, T)
      BY <1>2, <1>3, <1>5, <2>1, <2>2, <3>2, <3>3, <3>4
      DEF Life!Reset, Life!Issued, Life!Revoked, Accounts, Passwords, States
    <3>6. QED
      BY <3>5 DEF Life!Next
  <2>3. ASSUME q.kind # "reset"
        PROVE  Life!Next
    <3>1. CommittedUser(q) = users[q.owner]
      BY <1>5, <2>3, CommittedAccount DEF q
    <3>2. Accounts' = Accounts /\ Passwords' = Passwords
      BY <1>1, <1>2, <3>1 DEF Accounts, Passwords
    <3>3. Life!Revoke(T)
      BY <1>2, <1>3, <1>5, <2>1, <3>2
      DEF Life!Revoke, Life!Issued, Life!Revoked, Accounts, Passwords, States
    <3>4. QED
      BY <3>3 DEF Life!Next
  <2>4. QED
    BY <1>2, <2>2, <2>3
<1>6. QED
  BY <1>2, <1>4, <1>5

LEMMA StepOfLife ==
    ASSUME LInv, [Next]_vars
    PROVE  Life!Next \/ UNCHANGED <<Accounts, Passwords, States>>
<1>1. ASSUME NEW w \in Workers, Commit(w)
      PROVE  Life!Next \/ UNCHANGED <<Accounts, Passwords, States>>
  BY <1>1, CommitOfLife
<1>2. CASE users' = users /\ sessions' = sessions
  BY <1>2 DEF Accounts, Passwords, States
<1>3. CASE Expiry
  <2>1. ASSUME NEW t \in Tokens, ExpireSession(t)
        PROVE  Life!Next
    <3>1. /\ sessions[t].status = "active" /\ users' = users
          /\ sessions' = [sessions EXCEPT ![t].status = "expired"]
      BY <2>1 DEF ExpireSession
    <3>2. /\ States' = [States EXCEPT ![t] = "expired"] /\ States[t] = "active"
          /\ Accounts' = Accounts /\ Passwords' = Passwords
      BY <3>1 DEF States, Accounts, Passwords, LInv, IInv, TypeOK, Session
    <3>3. Life!Expire(t)
      BY <3>2 DEF Life!Expire, States, Accounts, Passwords
    <3>4. QED
      BY <3>3 DEF Life!Next
  <2>2. ASSUME NEW c \in Codes, ExpireCode(c)
        PROVE  users' = users /\ sessions' = sessions
    BY <2>2 DEF ExpireCode
  <2>3. ASSUME NEW a \in Addresses, ExpireAccess(a)
        PROVE  users' = users /\ sessions' = sessions
    BY <2>3 DEF ExpireAccess, dbVars
  <2>4. QED
    BY <1>2, <1>3, <2>1, <2>2, <2>3 DEF Expiry
<1>4. \/ users' = users /\ sessions' = sessions
      \/ Expiry
      \/ \E w \in Workers : Commit(w)
  <2>1. ASSUME NEW w \in Workers, \/ \E t \in Tokens : SessionRequest(w, t)
                                  \/ \E c \in Codes : ResetRequest(w, c)
                                  \/ \E a \in Addresses : LogoutRequest(w, a)
        PROVE  users' = users /\ sessions' = sessions
    BY <2>1, RequestArrives DEF LInv, IInv, NewRequest, Arrived, dbVars
  <2>2. ASSUME NEW w \in Workers, WorkerStep(w) \/ Rollback(w), ~Commit(w)
        PROVE  users' = users /\ sessions' = sessions
    BY <2>2 DEF WorkerStep, ListSessions, Conflict, Rollback, dbVars
  <2>3. ASSUME NEW t \in Tokens, Refresh(t)
        PROVE  users' = users /\ sessions' = sessions
    BY <2>3 DEF Refresh, dbVars
  <2>4. QED
    BY <2>1, <2>2, <2>3 DEF Next, vars
<1>5. QED
  BY <1>1, <1>2, <1>3, <1>4

\* Whatever requests overlap, the tables go through the life that the service promises:
\* accounts are opened once and stay, tokens are issued once, revoked ones stay revoked.
THEOREM LifeImplemented == Spec => ImplementsLife
<1>1. Init => Life!Init
  BY DEF Init, Life!Init, NoUser, NoSession
<1>2. LInv /\ [Next]_vars => LInv'
  BY LinkedStep
<1>3. LInv /\ [Next]_vars => [Life!Next]_(Life!lifeVars)
  BY StepOfLife DEF Life!lifeVars, Accounts, Passwords, States
<1>4. QED
  BY <1>1, <1>2, <1>3, LinkedInit, PTL DEF Spec, ImplementsLife, Life!Spec
=============================================================================
