------------------------ MODULE SessionsSerialProofs ------------------------
(***************************************************************************)
(* Sessions when requests do not overlap: one worker, any addresses,       *)
(* tokens, codes and failures.  Then a password reset ends every session   *)
(* of the old password, and a code is used once.                           *)
(***************************************************************************)
EXTENDS SessionsProofs

OneWorker == \A v, w \in Workers : v = w

(***************************************************************************)
(* The inductive invariant, on top of IInv: the request in flight holds    *)
(* what the tables hold.                                                   *)
(***************************************************************************)

Current(w) ==
    /\ req[w].user = users[req[w].owner]
    /\ req[w].token \in Tokens => req[w].kind \in {"register", "login", "google"}
    /\ req[w].kind \in {"login", "forgot", "reset"} => req[w].user.exists
    /\ req[w].kind \notin {"forgot", "reset"} => req[w].code = NoCode
    /\ req[w].kind \in {"forgot", "reset"} => req[w].code \in Codes /\ CodeOwner[req[w].code] = req[w].owner
    /\ req[w].kind = "forgot" => codes[req[w].code] = "none"
    /\ req[w].kind = "reset" => codes[req[w].code] # "consumed"
    /\ req[w].kind = "reset" /\ pc[w] = "commit" =>
            \A t \in Tokens : TokenOwner[t] = req[w].owner /\ sessions[t].status = "active" =>
                t \in req[w].found

RequestsAreCurrent == \A w \in Busy : Current(w)

\* Rows refer to rows, and an address without a user has no password.
RowsAreLinked ==
    /\ \A t \in Tokens : sessions[t].status # "none" => users[TokenOwner[t]].exists
    /\ \A c \in Codes : codes[c] # "none" => users[CodeOwner[c]].exists
    /\ \A a \in Addresses : ~users[a].exists => users[a].version = 0

UsesAreMarked == \A c \in Codes : uses[c] = IF codes[c] = "consumed" THEN 1 ELSE 0

SInv ==
    /\ IInv
    /\ RequestsAreCurrent
    /\ RowsAreLinked
    /\ UsesAreMarked
    /\ ResetEndsSessions

-----------------------------------------------------------------------------
(* Steps                                                                   *)

LEMMA SerialInit == Init => SInv
<1>1. Init => Busy = {}
  BY DEF Init, Busy
<1>2. QED
  BY <1>1, InitInv, OwnerAssumption
     DEF Init, SInv, RequestsAreCurrent, RowsAreLinked, UsesAreMarked, ResetEndsSessions,
         NoUser, NoSession

\* The only worker moves, so nothing needs to be said of the others.
LEMMA OnlyWorker ==
    ASSUME OneWorker, NEW w \in Workers, pc'[w] = "idle" \/ Current(w)'
    PROVE  RequestsAreCurrent'
BY DEF OneWorker, RequestsAreCurrent, Busy

LEMMA ArrivesCurrent ==
    ASSUME OneWorker, SInv, NEW w \in Workers, NewRequest(w)
    PROVE  RequestsAreCurrent'
<1>1. PICK kind \in Kinds, next \in {"list", "commit"}, owner \in Addresses,
           token \in Tokens \cup {NoToken}, code \in Codes \cup {NoCode}, found \in SUBSET Tokens :
                Arrived(w, kind, next, owner, token, code, found)
  BY DEF NewRequest
<1>2. /\ pc'[w] = next
      /\ req'[w] = [kind |-> kind, owner |-> owner, user |-> users[owner],
                    token |-> token, code |-> code, found |-> found,
                    earlier |-> OpenSessions(owner)]
  BY <1>1, ArrivesType DEF Arrived, SInv, IInv, PC
<1>3. users' = users /\ codes' = codes
  BY <1>1 DEF Arrived, dbVars
<1>4. kind \in {"login", "forgot", "reset"} => users[owner].exists
  BY <1>1 DEF Arrived, SInv, RowsAreLinked
<1>5. Current(w)'
  BY <1>1, <1>2, <1>3, <1>4 DEF Arrived, Current
<1>6. QED
  BY <1>5, OnlyWorker

LEMMA ListCurrent ==
    ASSUME OneWorker, SInv, NEW w \in Workers, ListSessions(w)
    PROVE  RequestsAreCurrent'
<1>1. w \in Busy /\ req[w] \in Request /\ Current(w)
  BY DEF ListSessions, SInv, IInv, TypeOK, RequestsAreCurrent, Busy
<1>2. PICK found : /\ OpenSessions(req[w].owner) \subseteq found
                   /\ req'[w] = [req[w] EXCEPT !.found = found]
  BY DEF ListSessions, SInv, IInv, TypeOK
<1>3. UNCHANGED <<users, sessions, codes>>
  BY DEF ListSessions, dbVars
<1>4. \A t \in Tokens : TokenOwner[t] = req[w].owner /\ sessions[t].status = "active" => t \in found
  BY <1>2 DEF OpenSessions
<1>5. Current(w)'
  BY <1>1, <1>2, <1>3, <1>4 DEF Current, Request
<1>6. QED
  BY <1>5, OnlyWorker

\* What a commit of a request that is up to date leaves.
LEMMA CommitKeepsTables ==
    ASSUME SInv, NEW w \in Workers, Commit(w)
    PROVE  RowsAreLinked' /\ UsesAreMarked' /\ ResetEndsSessions'
<1> DEFINE q == req[w]
<1>1. w \in Busy /\ q \in Request /\ Current(w) /\ Sound(w) /\ pc[w] = "commit"
  BY DEF Commit, SInv, IInv, TypeOK, RequestsAreCurrent, RequestsAreSound, Busy
<1>2. q.owner \in Addresses /\ users[q.owner] \in User /\ q.user = users[q.owner]
  BY <1>1 DEF Request, SInv, IInv, TypeOK, Current
<1>3. users' = [users EXCEPT ![q.owner] = CommittedUser(q)]
  BY DEF Commit
<1>4. /\ users'[q.owner] = CommittedUser(q)
      /\ \A a \in Addresses : a # q.owner => users'[a] = users[a]
  BY <1>2, <1>3 DEF SInv, IInv, TypeOK
<1>5. \A t \in Tokens : sessions'[t] = CommittedSession(q, t)
  BY DEF Commit
<1>6. \A c \in Codes : codes'[c] = CommittedCode(q, c)
  BY DEF Commit
<1>7. q.token \in Tokens => TokenOwner[q.token] = q.owner
  BY <1>1 DEF SInv, IInv, TokensAreNew
<1>8. /\ users[q.owner].exists => CommittedUser(q).exists
      /\ ~CommittedUser(q).exists => CommittedUser(q).version = 0
      /\ q.kind \in {"register", "login", "google", "forgot", "reset"} => CommittedUser(q).exists
  BY <1>1, <1>2 DEF CommittedUser, Current, User, SInv, RowsAreLinked, Request, Kinds
<1>9. \A a \in Addresses : users[a].exists => users'[a].exists
  BY <1>4, <1>8
<1>10. RowsAreLinked'
  <2>1. ASSUME NEW t \in Tokens, sessions'[t].status # "none"
        PROVE  users'[TokenOwner[t]].exists
    <3>1. TokenOwner[t] \in Addresses
      BY OwnerAssumption
    <3>2. CASE t = q.token
      BY <1>1, <1>4, <1>7, <1>8, <3>2 DEF Current
    <3>3. CASE t # q.token
      <4>1. sessions[t].status # "none"
        BY <1>1, <1>5, <2>1, <3>3 DEF CommittedSession, Sound
      <4>2. QED
        BY <1>9, <3>1, <4>1 DEF SInv, RowsAreLinked
    <3>4. QED
      BY <3>2, <3>3
  <2>2. ASSUME NEW c \in Codes, codes'[c] # "none"
        PROVE  users'[CodeOwner[c]].exists
    <3>1. CodeOwner[c] \in Addresses
      BY OwnerAssumption
    <3>2. CASE c = q.code
      BY <1>1, <1>4, <1>8, <3>2, NoneAssumption DEF Current
    <3>3. CASE c # q.code
      BY <1>6, <1>9, <2>2, <3>1, <3>3 DEF CommittedCode, SInv, RowsAreLinked
    <3>4. QED
      BY <3>2, <3>3
  <2>3. ASSUME NEW a \in Addresses, ~users'[a].exists
        PROVE  users'[a].version = 0
    BY <1>4, <1>8, <2>3 DEF SInv, RowsAreLinked
  <2>4. QED
    BY <2>1, <2>2, <2>3 DEF RowsAreLinked
<1>11. UsesAreMarked'
  <2> SUFFICES ASSUME NEW c \in Codes
               PROVE  uses'[c] = IF codes'[c] = "consumed" THEN 1 ELSE 0
    BY DEF UsesAreMarked
  <2>1. uses' = IF q.kind = "reset" THEN [uses EXCEPT ![q.code] = @ + 1] ELSE uses
    BY DEF Commit
  <2>2. uses[c] = IF codes[c] = "consumed" THEN 1 ELSE 0
    BY DEF SInv, UsesAreMarked
  <2>3. CASE c = q.code /\ q.kind = "reset"
    <3>1. uses[c] = 0 /\ uses'[c] = 1
      BY <1>1, <2>1, <2>2, <2>3 DEF Current, SInv, IInv, TypeOK
    <3>2. QED
      BY <1>6, <2>3, <3>1 DEF CommittedCode
  <2>4. CASE c = q.code /\ q.kind = "forgot"
    BY <1>1, <1>6, <2>1, <2>2, <2>4 DEF Current, CommittedCode
  <2>5. CASE c # q.code
    BY <1>6, <2>1, <2>2, <2>5 DEF CommittedCode, SInv, IInv, TypeOK
  <2>6. c = q.code => q.kind \in {"forgot", "reset"}
    BY <1>1, NoneAssumption DEF Current
  <2>7. QED
    BY <2>3, <2>4, <2>5, <2>6
<1>12. ResetEndsSessions'
  <2> SUFFICES ASSUME NEW t \in Tokens, sessions'[t].status = "active"
               PROVE  sessions'[t].version = users'[TokenOwner[t]].version
    BY DEF ResetEndsSessions
  <2>1. TokenOwner[t] \in Addresses /\ sessions[t] \in Session
    BY OwnerAssumption DEF SInv, IInv, TypeOK
  <2>2. CASE t = q.token
    <3>1. q.kind \in {"register", "login", "google"}
      BY <1>1, <2>2 DEF Current
    <3>2. sessions'[t].version = IF q.kind = "register" THEN 1 ELSE q.user.version
      <4>1. sessions'[t] = [status |-> "active",
                            version |-> IF q.kind = "register" THEN 1 ELSE q.user.version]
        BY <1>5, <2>2, Zenon DEF CommittedSession
      <4>2. QED
        BY <4>1
    <3>3. CommittedUser(q).version = IF q.kind = "register" THEN 1 ELSE q.user.version
      BY <1>2, <3>1 DEF CommittedUser, User, SInv, RowsAreLinked
    <3>4. QED
      BY <1>4, <1>7, <2>2, <3>2, <3>3
  <2>3. CASE t # q.token
    <3>1. sessions'[t] = sessions[t] /\ t \notin q.found
      BY <1>5, <2>1, <2>3 DEF CommittedSession, Session
    <3>2. sessions[t].version = users[TokenOwner[t]].version /\ users[TokenOwner[t]].exists
      BY <3>1 DEF SInv, ResetEndsSessions, RowsAreLinked
    <3>3. CASE TokenOwner[t] = q.owner
      <4>1. q.kind # "reset"
        BY <1>1, <3>1, <3>3 DEF Current
      <4>2. q.kind # "register"
        BY <1>1, <1>2, <3>2, <3>3 DEF Sound
      <4>3. CommittedUser(q).version = users[q.owner].version
        BY <1>2, <3>2, <3>3, <4>1, <4>2 DEF CommittedUser, User
      <4>4. QED
        BY <1>4, <3>1, <3>2, <3>3, <4>3
    <3>4. CASE TokenOwner[t] # q.owner
      BY <1>4, <2>1, <3>1, <3>2, <3>4
    <3>5. QED
      BY <3>3, <3>4
  <2>4. QED
    BY <2>2, <2>3
<1>13. QED
  BY <1>10, <1>11, <1>12

\* Time changes no user, consumes no code and opens no session.
LEMMA EnvironmentKeeps ==
    ASSUME SInv, Environment
    PROVE  RequestsAreCurrent' /\ RowsAreLinked' /\ UsesAreMarked' /\ ResetEndsSessions'
<1>1. /\ \A t \in Tokens : /\ sessions[t].status = "none" => sessions'[t].status = "none"
                           /\ sessions'[t].status = "active" => sessions'[t] = sessions[t]
      /\ \A c \in Codes : /\ codes[c] = "none" <=> codes'[c] = "none"
                          /\ codes[c] = "consumed" <=> codes'[c] = "consumed"
  BY DEF Environment, SInv, IInv, TypeOK, Session
<1>2. UNCHANGED <<users, uses, pc, req>>
  BY DEF Environment
<1>3. RequestsAreCurrent'
  BY <1>1, <1>2 DEF SInv, RequestsAreCurrent, Busy, Current
<1>4. RowsAreLinked' /\ UsesAreMarked' /\ ResetEndsSessions'
  BY <1>1, <1>2 DEF SInv, RowsAreLinked, UsesAreMarked, ResetEndsSessions
<1>5. QED
  BY <1>3, <1>4

LEMMA SerialStep ==
    ASSUME OneWorker, SInv, [Next]_vars
    PROVE  SInv'
<1>1. IInv'
  BY NextInv DEF SInv
<1>2. ASSUME NEW w \in Workers, NewRequest(w) \/ ListSessions(w) \/ Dropped(w)
      PROVE  SInv'
  <2>1. UNCHANGED dbVars
    BY <1>2 DEF NewRequest, Arrived, ListSessions, Dropped
  <2>2. RowsAreLinked' /\ UsesAreMarked' /\ ResetEndsSessions'
    BY <2>1 DEF dbVars, SInv, RowsAreLinked, UsesAreMarked, ResetEndsSessions
  <2>3. Dropped(w) => pc'[w] = "idle"
    BY EndsType DEF Dropped, SInv, IInv
  <2>4. RequestsAreCurrent'
    BY <1>2, <2>3, ArrivesCurrent, ListCurrent, OnlyWorker
  <2>5. QED
    BY <1>1, <2>2, <2>4 DEF SInv
<1>3. ASSUME NEW w \in Workers, Commit(w)
      PROVE  SInv'
  <2>1. pc'[w] = "idle"
    BY <1>3, EndsType DEF Commit, SInv, IInv
  <2>2. QED
    BY <1>1, <1>3, <2>1, CommitKeepsTables, OnlyWorker DEF SInv
<1>4. CASE Environment
  BY <1>1, <1>4, EnvironmentKeeps DEF SInv
<1>5. QED
  BY <1>2, <1>3, <1>4, StepForms DEF SInv, IInv

-----------------------------------------------------------------------------
(* The theorems                                                            *)

\* Requests that do not overlap keep what the comment in reset_password
\* says: no session of an earlier password is active.
THEOREM SerialResetEndsSessions == ASSUME OneWorker PROVE Spec => []ResetEndsSessions
<1>1. SInv => ResetEndsSessions
  BY DEF SInv
<1>2. SInv /\ [Next]_vars => SInv'
  BY SerialStep
<1>3. QED
  BY <1>1, <1>2, SerialInit, PTL DEF Spec

\* And a reset code changes the password once.
THEOREM SerialCodeWorksOnce == ASSUME OneWorker PROVE Spec => []CodeWorksOnce
<1>1. SInv => CodeWorksOnce
  BY DEF SInv, UsesAreMarked, CodeWorksOnce
<1>2. SInv /\ [Next]_vars => SInv'
  BY SerialStep
<1>3. QED
  BY <1>1, <1>2, SerialInit, PTL DEF Spec

=============================================================================
