---------------------- MODULE DeathVerificationProofs ----------------------
(***************************************************************************)
(* What cases, witnesses and notifications promise, for any sets of users, *)
(* devices and workers and any number of failures.  IInv holds however     *)
(* requests overlap; SInv adds what is true when they do not.              *)
(***************************************************************************)
EXTENDS DeathVerification, FiniteSetTheorems, TLAPS

Requests == NoteRequest \cup CaseRequest

Step(w) == Arrive(w) \/ Work(w)

Handles(w, kind) == ~Free(w) /\ req[w].kind = kind

\* What TypeOK leaves out: every worker has an entry in req.
TypeInv == TypeOK /\ DOMAIN req = Workers

-----------------------------------------------------------------------------
(* Types                                                                   *)

LEMMA Fields ==
    ASSUME NEW q \in Requests
    PROVE  /\ q.kind = "register" => q.user \in Users /\ q.device \in Devices
                                     /\ q.seen \in Users \cup {NoUser}
           /\ q.kind = "read" => q.found \subseteq NoteIds
           /\ q.kind = "read_all" => q.user \in Users /\ q.found \subseteq NoteIds
                                     /\ q.unread \subseteq NoteIds
           /\ q.kind = "submit" => /\ q.user \in Users /\ q.note \in NoteIds
                                   /\ q.tokens \subseteq Devices /\ q.certificate \in BOOLEAN
                                   /\ q.witnesses \subseteq Witnesses
           /\ q.kind = "stages" => q.note \in NoteIds /\ q.seen \in Case /\ q.update \in Updates
           /\ q.kind = "witness" => q.note \in NoteIds /\ q.witness \in Witnesses
           /\ q.kind = "respond" => /\ q.witness \in Witnesses /\ q.seen \in WitnessStatus
                                    /\ q.answer \in WitnessStatus
BY DEF Requests, NoteRequest, CaseRequest

LEMMA Handled ==
    ASSUME TypeInv, NEW w \in Workers, ~Free(w)
    PROVE  req[w] \in Requests
BY DEF TypeInv, TypeOK, Free, Requests

\* What a step does to the requests.
Moves(w) ==
    /\ load' = load /\ failures' \in 0 .. MaxFailures
    /\ DOMAIN req' = Workers
    /\ \A v \in Workers : v # w => req'[v] = req[v]
    /\ req'[w] \in Requests \cup {NoRequest}

LEMMA BeginsMoves ==
    ASSUME TypeInv, NEW w \in Workers, NEW r \in Requests, Begins(w, r)
    PROVE  Moves(w) /\ req'[w] = r /\ Free(w) /\ w \in load.workers
BY DEF TypeInv, TypeOK, Begins, Continues, Moves

LEMMA AnswersMoves ==
    ASSUME TypeInv, NEW w \in Workers, Answers(w)
    PROVE  Moves(w) /\ Free(w)'
BY DEF TypeInv, TypeOK, Answers, Ends, Moves, Free

LEMMA DiesMoves ==
    ASSUME TypeInv, NEW w \in Workers, Dies(w)
    PROVE  Moves(w) /\ Free(w)'
BY LoadAssumption DEF TypeInv, TypeOK, Dies, Ends, Moves, Free

\* A request arrives: only its own entry and the number of notifications change.
Arrives(w) ==
    /\ Free(w) /\ w \in load.workers
    /\ Moves(w)
    /\ created' \in 0 .. MaxNotes /\ created <= created'
    /\ UNCHANGED <<devices, notes, pushed, registrant, caseVars>>

LEMMA ArriveForm ==
    ASSUME TypeInv, NEW w \in Workers, Arrive(w)
    PROVE  /\ Arrives(w)
           /\ \/ \E u \in Users, d \in Devices : RegisterDevice(w, u, d)
              \/ \E u \in Users, n \in NoteIds : MarkRead(w, u, n)
              \/ \E u \in Users : MarkAllRead(w, u)
              \/ \E u \in Users, certificate \in BOOLEAN, listed \in SUBSET Witnesses :
                    Submit(w, u, certificate, listed)
              \/ \E n \in NoteIds, update \in Updates : UpdateStages(w, n, update)
              \/ \E n \in NoteIds, x \in Witnesses : AddWitness(w, n, x)
              \/ \E x \in Witnesses, answer \in WitnessStatus : RespondWitness(w, x, answer)
<1> USE DEF noteVars, caseVars
<1>0. TypeOK /\ NotesTypeOK /\ created \in Nat
  BY PageAssumption DEF TypeInv, TypeOK, NotesTypeOK
<1>1. ASSUME NEW u \in Users, NEW d \in Devices, RegisterDevice(w, u, d), UNCHANGED caseVars
      PROVE  Arrives(w)
  <2>1. [kind |-> "register", user |-> u, device |-> d, seen |-> devices[d]] \in Requests
    BY <1>0 DEF NotesTypeOK, Requests, NoteRequest
  <2>2. QED
    BY <1>0, <1>1, <2>1, BeginsMoves DEF RegisterDevice, Arrives, NotesTypeOK
<1>2. ASSUME NEW u \in Users, NEW n \in NoteIds, MarkRead(w, u, n), UNCHANGED caseVars
      PROVE  Arrives(w)
  <2>1. [kind |-> "read", user |-> u, found |-> {n} \cap Unread(u)] \in Requests
    BY DEF Requests, NoteRequest
  <2>2. QED
    BY <1>0, <1>2, <2>1, BeginsMoves DEF MarkRead, Arrives, NotesTypeOK
<1>3. ASSUME NEW u \in Users, MarkAllRead(w, u), UNCHANGED caseVars
      PROVE  Arrives(w)
  <2>1. [kind |-> "read_all", user |-> u, found |-> Feed(u) \cap Unread(u),
         unread |-> Unread(u)] \in Requests
    BY DEF Requests, NoteRequest, Unread
  <2>2. QED
    BY <1>0, <1>3, <2>1, BeginsMoves DEF MarkAllRead, Arrives, NotesTypeOK
<1>4. ASSUME NEW u \in Users, NEW certificate \in BOOLEAN, NEW listed \in SUBSET Witnesses,
             Submit(w, u, certificate, listed)
      PROVE  Arrives(w)
  <2>1. created + 1 \in NoteIds /\ created' \in 0 .. MaxNotes
    BY <1>0, <1>4, PageAssumption DEF Submit, NoteIds
  <2>2. [kind |-> "submit", user |-> u, note |-> created + 1, tokens |-> Recipients(u),
         certificate |-> certificate, witnesses |-> listed] \in Requests
    BY <2>1 DEF Requests, CaseRequest, Recipients, TokensOf
  <2>3. QED
    BY <1>0, <1>4, <2>1, <2>2, BeginsMoves DEF Submit, Arrives
<1>5. ASSUME NEW n \in NoteIds, NEW update \in Updates, UpdateStages(w, n, update)
      PROVE  Arrives(w)
  <2>1. [kind |-> "stages", note |-> n, seen |-> cases[n], update |-> update] \in Requests
    BY <1>0 DEF TypeOK, Requests, CaseRequest
  <2>2. QED
    BY <1>0, <1>5, <2>1, BeginsMoves DEF UpdateStages, Arrives, NotesTypeOK
<1>6. ASSUME NEW n \in NoteIds, NEW x \in Witnesses, AddWitness(w, n, x)
      PROVE  Arrives(w)
  <2>1. [kind |-> "witness", note |-> n, witness |-> x] \in Requests
    BY DEF Requests, CaseRequest
  <2>2. QED
    BY <1>0, <1>6, <2>1, BeginsMoves DEF AddWitness, Arrives, NotesTypeOK
<1>7. ASSUME NEW x \in Witnesses, NEW answer \in WitnessStatus, RespondWitness(w, x, answer)
      PROVE  Arrives(w)
  <2>1. [kind |-> "respond", witness |-> x, seen |-> witnesses[x].status,
         answer |-> answer] \in Requests
    BY <1>0 DEF TypeOK, Witness, Requests, CaseRequest
  <2>2. QED
    BY <1>0, <1>7, <2>1, BeginsMoves DEF RespondWitness, Arrives, NotesTypeOK
<1>8. QED
  BY <1>1, <1>2, <1>3, <1>4, <1>5, <1>6, <1>7 DEF Arrive

LEMMA UpdatedStages ==
    ASSUME NEW stored \in Case, NEW seen \in Case, NEW update \in Updates
    PROVE  /\ Flushed(stored, seen, UpdatedCase(seen, update)) \in Case
           /\ stored.status # "none" /\ seen.status # "none"
                => Flushed(stored, seen, UpdatedCase(seen, update)).status # "none"
BY UpdatesAssumption
DEF Flushed, UpdatedCase, Case, Stages, StageStatus, VerificationStatus

LEMMA WorkMoves ==
    ASSUME TypeInv, NEW w \in Workers, Work(w)
    PROVE  ~Free(w) /\ Moves(w) /\ created' = created /\ (Free(w)' \/ SendPush(w))
<1>1. SendPush(w) => ~Free(w) /\ Moves(w) /\ created' = created
  <2> SUFFICES ASSUME SendPush(w)
               PROVE  ~Free(w) /\ Moves(w) /\ created' = created
    OBVIOUS
  <2>1. PICK d \in req[w].tokens : Continues(w, [req[w] EXCEPT !.tokens = @ \ {d}])
    BY DEF SendPush
  <2>2. ~Free(w) /\ req[w].kind = "submit"
    BY DEF SendPush, Pushing
  <2>3. req[w] \in CaseRequest /\ req[w].tokens \subseteq Devices
    BY <2>2, Handled, Fields DEF Requests, NoteRequest
  <2>4. [req[w] EXCEPT !.tokens = @ \ {d}] \in Requests
    BY <2>2, <2>3 DEF CaseRequest, Requests
  <2>5. QED
    BY <2>1, <2>2, <2>4 DEF Continues, Moves, TypeInv, TypeOK, SendPush
<1>2. Work(w) /\ ~SendPush(w) => ~Free(w) /\ (Answers(w) \/ Dies(w)) /\ created' = created
  BY DEF Work, CommitDevice, RefuseDuplicate, CommitRead, PushFails, Pushing, CommitSubmit,
         CommitStages, CommitWitness, Rollback, Dies, noteVars
<1>3. QED
  BY <1>1, <1>2, AnswersMoves, DiesMoves

LEMMA WorkTyped ==
    ASSUME TypeInv, NEW w \in Workers, Work(w)
    PROVE  TypeInv'
<1> USE DEF noteVars, caseVars
<1>0. TypeOK /\ NotesTypeOK
  BY DEF TypeInv, TypeOK
<1>1. Moves(w) /\ ~Free(w) /\ created' = created /\ req[w] \in Requests
  BY WorkMoves, Handled
<1>2. /\ load' \in Loads /\ failures' \in 0 .. MaxFailures /\ DOMAIN req' = Workers
      /\ req' \in [Workers -> Requests \cup {NoRequest}]
  <2>1. req' = [v \in Workers |-> req'[v]]
    BY <1>0, <1>1 DEF TypeOK, Moves, SendPush, Continues, Work, Answers, Ends, Dies,
       CommitDevice, RefuseDuplicate, CommitRead, PushFails, CommitSubmit, CommitStages,
       CommitWitness, Rollback
  <2>2. QED
    BY <1>0, <1>1, <2>1 DEF TypeOK, Moves, Requests
<1>3. SUFFICES /\ NotesTypeOK'
               /\ cases' \in [NoteIds -> Case] /\ witnesses' \in [Witnesses -> Witness]
               /\ validated' \in [NoteIds -> SUBSET Stages]
  BY <1>2 DEF TypeInv, TypeOK, Requests
<1>4. CASE CommitDevice(w) /\ UNCHANGED caseVars
  <2>1. RegisteredOwner(req[w]) \in Users \cup {NoUser} /\ req[w].user \in Users
    BY <1>0, <1>1, <1>4, Fields DEF CommitDevice, RegisteredOwner, NotesTypeOK
  <2>2. QED
    BY <1>0, <1>4, <2>1 DEF CommitDevice, NotesTypeOK, TypeOK
<1>5. CASE CommitRead(w) /\ UNCHANGED caseVars
  <2>1. notes' \in [NoteIds -> Note]
    BY <1>0, <1>5 DEF CommitRead, NotesTypeOK, Note
  <2>2. QED
    BY <1>0, <1>5, <2>1 DEF CommitRead, NotesTypeOK, TypeOK
<1>6. CASE SendPush(w) /\ UNCHANGED caseVars
  <2>1. req[w].note \in NoteIds /\ req[w].tokens \subseteq Devices
    BY <1>1, <1>6, Fields DEF SendPush, Pushing
  <2>2. QED
    BY <1>0, <1>6, <2>1 DEF SendPush, NotesTypeOK, TypeOK
<1>7. CASE CommitSubmit(w)
  <2>1. /\ req[w].user \in Users /\ req[w].note \in NoteIds /\ req[w].certificate \in BOOLEAN
    BY <1>1, <1>7, Fields DEF CommitSubmit
  <2>2. notes' \in [NoteIds -> Note]
    BY <1>0, <1>7, <2>1 DEF CommitSubmit, NotesTypeOK, Note
  <2>3. cases' \in [NoteIds -> Case]
    BY <1>0, <1>7, <2>1 DEF CommitSubmit, TypeOK, Case, NoCase, VerificationStatus, StageStatus
  <2>4. witnesses' \in [Witnesses -> Witness]
    BY <1>0, <1>7, <2>1, PageAssumption DEF CommitSubmit, TypeOK, Witness, WitnessStatus, NoteIds
  <2>5. validated' \in [NoteIds -> SUBSET Stages]
    BY <1>0, <1>7, <2>1 DEF CommitSubmit, TypeOK, Stages
  <2>6. QED
    BY <1>0, <1>7, <2>2, <2>3, <2>4, <2>5 DEF CommitSubmit, NotesTypeOK
<1>8. CASE CommitStages(w)
  <2>1. req[w].note \in NoteIds /\ req[w].seen \in Case /\ req[w].update \in Updates
    BY <1>1, <1>8, Fields DEF CommitStages
  <2>2. Flushed(cases[req[w].note], req[w].seen, UpdatedCase(req[w].seen, req[w].update)) \in Case
    BY <1>0, <2>1, UpdatedStages DEF TypeOK
  <2>3. cases' \in [NoteIds -> Case] /\ validated' \in [NoteIds -> SUBSET Stages]
    BY <1>0, <1>8, <2>1, <2>2 DEF CommitStages, TypeOK
  <2>4. QED
    BY <1>0, <1>8, <2>3 DEF CommitStages, NotesTypeOK, TypeOK
<1>9. CASE CommitWitness(w)
  <2>1. req[w].kind = "witness" => req[w].witness \in Witnesses /\ req[w].note \in 0 .. MaxNotes
    BY <1>1, Fields, PageAssumption DEF NoteIds
  <2>2. req[w].kind = "respond" => req[w].witness \in Witnesses /\ req[w].answer \in WitnessStatus
    BY <1>1, Fields
  <2>3. witnesses' \in [Witnesses -> Witness]
    BY <1>0, <1>9, <2>1, <2>2 DEF CommitWitness, TypeOK, Witness, WitnessStatus
  <2>4. QED
    BY <1>0, <1>9, <2>3 DEF CommitWitness, NotesTypeOK, TypeOK
<1>10. CASE UNCHANGED <<noteVars, caseVars>>
  BY <1>0, <1>10 DEF NotesTypeOK, TypeOK
<1>11. QED
  BY <1>4, <1>5, <1>6, <1>7, <1>8, <1>9, <1>10 DEF Work, RefuseDuplicate, PushFails, Rollback

LEMMA TypeInit == Init => TypeInv
BY LoadAssumption, PageAssumption
DEF Init, NotesInit, RequestsInit, TypeInv, TypeOK, NotesTypeOK, NoteIds, Note, NoNote, Case,
    NoCase, VerificationStatus, StageStatus, Witness, WitnessStatus, Stages

LEMMA TypeNext == TypeInv /\ [Next]_vars => TypeInv'
<1> SUFFICES ASSUME TypeInv, [Next]_vars
             PROVE  TypeInv'
  OBVIOUS
<1>1. ASSUME NEW w \in Workers, Arrive(w)
      PROVE  TypeInv'
  <2>1. Arrives(w)
    BY <1>1, ArriveForm
  <2>2. req' = [v \in Workers |-> req'[v]]
    BY <1>1
    DEF TypeInv, TypeOK, Arrive, RegisterDevice, MarkRead, MarkAllRead, Submit, UpdateStages,
        AddWitness, RespondWitness, Begins, Continues
  <2>3. \A v \in Workers : req'[v] \in Requests \cup {NoRequest}
    BY <2>1 DEF Arrives, Moves, TypeInv, TypeOK, Requests
  <2>4. QED
    BY <2>1, <2>2, <2>3 DEF TypeInv, TypeOK, NotesTypeOK, Arrives, Moves, Requests, caseVars
<1>2. CASE UNCHANGED vars
  BY <1>2 DEF TypeInv, TypeOK, NotesTypeOK, vars, noteVars, requestVars
<1>3. QED
  BY <1>1, <1>2, WorkTyped DEF Next

LEMMA Typed == Spec => []TypeInv
BY TypeInit, TypeNext, PTL DEF Spec

\* Tables and requests keep their types whatever overlaps or dies.
THEOREM TypeCorrect == Spec => []TypeOK
BY Typed, PTL DEF TypeInv

-----------------------------------------------------------------------------
(* However requests overlap                                                *)

\* Case n has been committed.
Opened(n) == cases[n].status # "none"

\* How many notifications of the user are newer than n.
Newer(u, n) == {k \in NoteIds : k > n /\ notes[k].owner = u}

\* What the tables say of each other.
TablesAgree ==
    /\ CaseHasNotice
    /\ CompletedWasValidated
    /\ \A n \in NoteIds : Opened(n) => n <= created
    /\ \A n \in NoteIds, s \in Stages :
        Opened(n) /\ cases[n][s] = "validated" => s \in validated[n]

\* What the request of v loaded is not contradicted by the tables.
Sound(v) ==
    /\ Handles(v, "submit") => ~Opened(req[v].note) /\ req[v].note <= created
    /\ Handles(v, "stages") =>
        /\ Opened(req[v].note) /\ req[v].seen.status # "none"
        /\ \A s \in Stages : req[v].seen[s] = "validated" => s \in validated[req[v].note]
        /\ req[v].seen.status = "completed" => validated[req[v].note] = Stages
    /\ Handles(v, "witness") => Opened(req[v].note)
    /\ Handles(v, "respond") => witnesses[req[v].witness].case # 0
    /\ Handles(v, "read_all") =>
        \A n \in req[v].unread :
            n \in req[v].found \/ Cardinality(Newer(req[v].user, n)) >= Page

\* No two requests submit the same case.
SubmitsDiffer ==
    \A u, v \in Workers :
        Handles(u, "submit") /\ Handles(v, "submit") /\ req[u].note = req[v].note => u = v

IInv ==
    /\ TypeInv
    /\ TablesAgree
    /\ \A v \in Workers : Sound(v)
    /\ SubmitsDiffer

LEMMA InitInv == Init => IInv
<1> SUFFICES ASSUME Init
             PROVE  IInv
  OBVIOUS
<1>1. \A v \in Workers : Free(v)
  BY DEF Init, RequestsInit, Free
<1>2. TablesAgree
  BY DEF Init, NotesInit, TablesAgree, CaseHasNotice, CompletedWasValidated, Opened, NoCase, NoNote
<1>3. QED
  BY <1>1, <1>2, TypeInit DEF IInv, Sound, SubmitsDiffer, Handles

\* The tables only grow.
Grows ==
    /\ created <= created'
    /\ \A n \in NoteIds : Opened(n) => Opened(n)' /\ validated[n] \subseteq validated'[n]
    /\ \A n \in NoteIds : notes[n].owner # NoUser => notes'[n].owner = notes[n].owner
    /\ \A x \in Witnesses : witnesses[x].case # 0 => witnesses'[x].case # 0

LEMMA NewerFinite ==
    ASSUME NEW u, NEW n
    PROVE  IsFiniteSet(Newer(u, n)) /\ Cardinality(Newer(u, n)) \in Nat
<1>1. IsFiniteSet(NoteIds)
  BY PageAssumption, FS_Interval, 1 \in Int, MaxNotes \in Int DEF NoteIds
<1>2. Newer(u, n) \subseteq NoteIds
  BY DEF Newer
<1>3. QED
  BY <1>1, <1>2, FS_Subset, FS_CardinalityType

LEMMA NewerGrows ==
    ASSUME Grows, NEW u \in Users, NEW n
    PROVE  Cardinality(Newer(u, n)) >= Page => Cardinality(Newer(u, n)') >= Page
<1>1. Newer(u, n) \subseteq Newer(u, n)'
  BY PageAssumption DEF Grows, Newer
<1>2. Newer(u, n)' \subseteq NoteIds
  BY DEF Newer
<1>3. IsFiniteSet(NoteIds)
  BY PageAssumption, FS_Interval, 1 \in Int, MaxNotes \in Int DEF NoteIds
<1>4. IsFiniteSet(Newer(u, n)') /\ Cardinality(Newer(u, n)') \in Nat
  BY <1>2, <1>3, FS_Subset, FS_CardinalityType
<1>5. Cardinality(Newer(u, n)) <= Cardinality(Newer(u, n)')
  BY <1>1, <1>4, FS_Subset
<1>6. QED
  BY <1>4, <1>5, NewerFinite, PageAssumption

\* A request that does not submit stays sound while the tables grow.
LEMMA SoundKept ==
    ASSUME TypeInv, TypeInv', Grows, NEW v \in Workers, Sound(v), req'[v] = req[v],
           Handles(v, "submit") => ~Opened(req[v].note)'
    PROVE  Sound(v)'
<1>1. Free(v)' <=> Free(v)
  BY DEF Free
<1>2. CASE Free(v)
  BY <1>1, <1>2 DEF Sound, Handles
<1>3. CASE ~Free(v)
  <2>1. req[v] \in Requests
    BY <1>3, Handled
  <2>2. CASE req[v].kind = "submit"
    BY <1>1, <1>3, <2>1, <2>2, Fields, PageAssumption
    DEF Sound, Handles, Grows, Opened, NoteIds, TypeInv, TypeOK, NotesTypeOK
  <2>3. CASE req[v].kind = "stages"
    <3>1. req[v].note \in NoteIds
      BY <2>1, <2>3, Fields
    <3>2. validated'[req[v].note] \subseteq Stages
      BY <3>1 DEF TypeInv, TypeOK
    <3>3. QED
      BY <1>1, <1>3, <2>3, <3>1, <3>2 DEF Sound, Handles, Grows, Opened
  <2>4. CASE req[v].kind \in {"witness", "respond"}
    BY <1>1, <1>3, <2>1, <2>4, Fields DEF Sound, Handles, Grows, Opened
  <2>5. CASE req[v].kind = "read_all"
    <3>1. req[v].user \in Users
      BY <2>1, <2>5, Fields
    <3>2. \A n : Cardinality(Newer(req[v].user, n)) >= Page
                    => Cardinality(Newer(req[v].user, n)') >= Page
      BY <3>1, NewerGrows
    <3>3. QED
      BY <1>1, <1>3, <2>5, <3>1, <3>2 DEF Sound, Handles, Newer
  <2>6. QED
    BY <1>1, <2>2, <2>3, <2>4, <2>5 DEF Sound, Handles
<1>4. QED
  BY <1>2, <1>3

LEMMA ArrivesInv ==
    ASSUME IInv, NEW w \in Workers, Arrive(w)
    PROVE  IInv'
<1> USE DEF caseVars
<1>0. TypeInv /\ TypeInv' /\ TypeOK /\ NotesTypeOK
  BY TypeNext DEF IInv, TypeInv, TypeOK, Next
<1>1. Arrives(w)
  BY <1>0, ArriveForm
<1>2. /\ UNCHANGED <<notes, cases, witnesses, validated>>
      /\ created \in Nat /\ created' \in Nat /\ created <= created'
      /\ \A v \in Workers : v # w => req'[v] = req[v] /\ (Free(v)' <=> Free(v))
      /\ Free(w) /\ req'[w] \in Requests \cup {NoRequest}
  BY <1>0, <1>1 DEF Arrives, Moves, NotesTypeOK, Free
<1>3. Grows
  BY <1>2 DEF Grows, Opened
<1>4. TablesAgree'
  <2>1. CaseHasNotice' /\ CompletedWasValidated'
    BY <1>2 DEF IInv, TablesAgree, CaseHasNotice, CompletedWasValidated
  <2>2. QED
    BY <1>2, <2>1 DEF IInv, TablesAgree, Opened, NoteIds
<1>5. \A v \in Workers : v # w => Sound(v)'
  BY <1>0, <1>2, <1>3, SoundKept DEF IInv, Sound, Handles, Opened
<1>6. \A r : Begins(w, r) => req'[w] = r
  BY <1>0 DEF TypeInv, Begins, Continues
<1>7. CASE \/ \E u \in Users, d \in Devices : RegisterDevice(w, u, d)
           \/ \E u \in Users, n \in NoteIds : MarkRead(w, u, n)
  <2>1. req'[w].kind \in {"register", "read"}
    <3>1. ASSUME NEW u \in Users, NEW d \in Devices, RegisterDevice(w, u, d)
          PROVE  req'[w].kind = "register"
      BY <1>6, <3>1 DEF RegisterDevice
    <3>2. ASSUME NEW u \in Users, NEW n \in NoteIds, MarkRead(w, u, n)
          PROVE  req'[w].kind = "read"
      BY <1>6, <3>2 DEF MarkRead
    <3>3. QED
      BY <1>7, <3>1, <3>2
  <2>2. Sound(w)'
    BY <2>1 DEF Sound, Handles
  <2>3. SubmitsDiffer'
    BY <1>2, <2>1 DEF IInv, SubmitsDiffer, Handles
  <2>4. QED
    BY <1>0, <1>4, <1>5, <2>2, <2>3 DEF IInv
<1>8. ASSUME NEW u \in Users, MarkAllRead(w, u)
      PROVE  IInv'
  <2>1. req'[w] = [kind |-> "read_all", user |-> u, found |-> Feed(u) \cap Unread(u),
                   unread |-> Unread(u)]
    BY <1>6, <1>8 DEF MarkAllRead
  <2>2. ASSUME NEW n \in Unread(u), n \notin Feed(u)
        PROVE  Cardinality(Newer(u, n)) >= Page
    <3>1. n \in NoteIds /\ notes[n].owner = u
      BY DEF Unread
    <3>2. {k \in n + 1 .. MaxNotes : notes[k].owner = u} = Newer(u, n)
      BY <3>1, PageAssumption DEF Newer, NoteIds
    <3>3. ~(Cardinality(Newer(u, n)) < Page)
      BY <2>2, <3>1, <3>2 DEF Feed
    <3>4. QED
      BY <3>3, NewerFinite, PageAssumption
  <2>3. \A n : Newer(u, n)' = Newer(u, n)
    BY <1>2 DEF Newer
  <2>4. Sound(w)'
    BY <2>1, <2>2, <2>3 DEF Sound, Handles
  <2>5. SubmitsDiffer'
    BY <1>2, <2>1 DEF IInv, SubmitsDiffer, Handles
  <2>6. QED
    BY <1>0, <1>4, <1>5, <2>4, <2>5 DEF IInv
<1>9. ASSUME NEW u \in Users, NEW certificate \in BOOLEAN, NEW listed \in SUBSET Witnesses,
             Submit(w, u, certificate, listed)
      PROVE  IInv'
  <2>1. req'[w].kind = "submit" /\ req'[w].note = created + 1 /\ created' = created + 1
    BY <1>6, <1>9 DEF Submit
  <2>2. created + 1 \in NoteIds
    BY <1>0, <1>9, PageAssumption DEF Submit, NoteIds, NotesTypeOK
  <2>3. ~Opened(created + 1)
    BY <1>2, <2>2 DEF IInv, TablesAgree
  <2>4. Sound(w)'
    BY <1>2, <2>1, <2>3 DEF Sound, Handles, Opened
  <2>5. \A v \in Workers : Handles(v, "submit") => req[v].note <= created /\ req[v].note \in NoteIds
    BY <1>0, Handled, Fields DEF IInv, Sound, Handles
  <2>6. SubmitsDiffer'
    BY <1>2, <2>1, <2>5, PageAssumption DEF IInv, SubmitsDiffer, Handles, NoteIds
  <2>7. QED
    BY <1>0, <1>4, <1>5, <2>4, <2>6 DEF IInv
<1>10. ASSUME NEW n \in NoteIds, NEW update \in Updates, UpdateStages(w, n, update)
       PROVE  IInv'
  <2>1. req'[w] = [kind |-> "stages", note |-> n, seen |-> cases[n], update |-> update]
    BY <1>6, <1>10 DEF UpdateStages
  <2>2. Opened(n)
    BY <1>10 DEF UpdateStages, Opened
  <2>3. Sound(w)'
    BY <1>2, <2>1, <2>2 DEF Sound, Handles, Opened, IInv, TablesAgree, CompletedWasValidated
  <2>4. SubmitsDiffer'
    BY <1>2, <2>1 DEF IInv, SubmitsDiffer, Handles
  <2>5. QED
    BY <1>0, <1>4, <1>5, <2>3, <2>4 DEF IInv
<1>11. ASSUME NEW n \in NoteIds, NEW x \in Witnesses, AddWitness(w, n, x)
       PROVE  IInv'
  <2>1. req'[w] = [kind |-> "witness", note |-> n, witness |-> x] /\ Opened(n)
    BY <1>6, <1>11 DEF AddWitness, Opened
  <2>2. Sound(w)'
    BY <1>2, <2>1 DEF Sound, Handles, Opened
  <2>3. SubmitsDiffer'
    BY <1>2, <2>1 DEF IInv, SubmitsDiffer, Handles
  <2>4. QED
    BY <1>0, <1>4, <1>5, <2>2, <2>3 DEF IInv
<1>12. ASSUME NEW x \in Witnesses, NEW answer \in WitnessStatus, RespondWitness(w, x, answer)
       PROVE  IInv'
  <2>1. /\ req'[w] = [kind |-> "respond", witness |-> x, seen |-> witnesses[x].status,
                      answer |-> answer]
        /\ witnesses[x].case # 0
    BY <1>6, <1>12 DEF RespondWitness
  <2>2. Sound(w)'
    BY <1>2, <2>1 DEF Sound, Handles
  <2>3. SubmitsDiffer'
    BY <1>2, <2>1 DEF IInv, SubmitsDiffer, Handles
  <2>4. QED
    BY <1>0, <1>4, <1>5, <2>2, <2>3 DEF IInv
<1>13. QED
  BY <1>0, <1>7, <1>8, <1>9, <1>10, <1>11, <1>12, ArriveForm

LEMMA WorksInv ==
    ASSUME IInv, NEW w \in Workers, Work(w)
    PROVE  IInv'
<1> USE DEF caseVars
<1>0. TypeInv /\ TypeInv' /\ TypeOK /\ NotesTypeOK
  BY TypeNext DEF IInv, TypeInv, TypeOK, Next
<1>1. /\ ~Free(w) /\ req[w] \in Requests /\ created' = created
      /\ \A v \in Workers : v # w => req'[v] = req[v] /\ (Free(v)' <=> Free(v))
      /\ Free(w)' \/ SendPush(w)
  BY <1>0, WorkMoves, Handled DEF Moves, Free
<1>2. created \in Nat /\ created <= created'
  BY <1>0, <1>1 DEF NotesTypeOK
<1>3. SendPush(w) => req'[w].kind = "submit" /\ req'[w].note = req[w].note /\ Handles(w, "submit")
  <2> SUFFICES ASSUME SendPush(w)
               PROVE  req'[w].kind = "submit" /\ req'[w].note = req[w].note /\ Handles(w, "submit")
    OBVIOUS
  <2>1. PICK d \in req[w].tokens : Continues(w, [req[w] EXCEPT !.tokens = @ \ {d}])
    BY DEF SendPush
  <2>2. ~Free(w) /\ req[w].kind = "submit"
    BY DEF SendPush, Pushing
  <2>3. req[w] \in CaseRequest
    BY <1>1, <2>2 DEF Requests, NoteRequest
  <2>4. QED
    BY <1>0, <2>1, <2>2, <2>3 DEF Continues, TypeInv, Handles, CaseRequest
<1>4. SubmitsDiffer'
  BY <1>1, <1>3 DEF IInv, SubmitsDiffer, Handles
<1>5. SUFFICES Grows /\ TablesAgree' /\ \A v \in Workers : Handles(v, "submit") /\ v # w => ~Opened(req[v].note)'
  <2> SUFFICES ASSUME Grows, TablesAgree',
                      \A v \in Workers : Handles(v, "submit") /\ v # w => ~Opened(req[v].note)'
               PROVE  IInv'
    BY <1>5
  <2>1. \A v \in Workers : v # w => Sound(v)'
    BY <1>0, <1>1, SoundKept DEF IInv
  <2>2. Free(w)' => Sound(w)'
    BY DEF Sound, Handles
  <2>3. ASSUME SendPush(w)
        PROVE  Sound(w)'
    <3>1. cases' = cases
      BY <2>3 DEF Work, SendPush, Pushing, CommitSubmit, CommitStages, CommitWitness, Rollback
    <3>2. QED
      BY <1>1, <1>3, <2>3, <3>1 DEF IInv, Sound, Handles, Opened
  <2>4. QED
    BY <1>0, <1>1, <1>4, <2>1, <2>2, <2>3 DEF IInv
<1>6. CASE cases' = cases /\ validated' = validated /\ witnesses' = witnesses /\ notes' = notes
  <2>1. CaseHasNotice' /\ CompletedWasValidated'
    BY <1>6 DEF IInv, TablesAgree, CaseHasNotice, CompletedWasValidated
  <2>2. QED
    BY <1>1, <1>2, <1>6, <2>1 DEF Grows, IInv, TablesAgree, Opened, Sound
<1>7. CASE CommitRead(w) /\ UNCHANGED caseVars
  <2>1. \A n \in NoteIds : notes'[n].owner = notes[n].owner
    BY <1>0, <1>7 DEF CommitRead, NotesTypeOK, Note
  <2>2. CaseHasNotice' /\ CompletedWasValidated'
    BY <1>7, <2>1 DEF IInv, TablesAgree, CaseHasNotice, CompletedWasValidated
  <2>3. QED
    BY <1>1, <1>2, <1>7, <2>1, <2>2 DEF Grows, IInv, TablesAgree, Opened, Sound
<1>8. CASE CommitSubmit(w)
  <2> DEFINE r == req[w]
  <2>1. r.note \in NoteIds /\ r.user \in Users /\ r.witnesses \subseteq Witnesses /\ Handles(w, "submit")
    BY <1>1, <1>8, Fields DEF CommitSubmit, Handles
  <2>2. ~Opened(r.note) /\ r.note <= created
    BY <2>1 DEF IInv, Sound
  <2>3. /\ cases'[r.note].status = "in_progress" /\ notes'[r.note].owner = r.user
        /\ \A s \in Stages : cases'[r.note][s] = "validated" => s \in validated'[r.note]
    BY <1>0, <1>8, <2>1 DEF CommitSubmit, TypeOK, NotesTypeOK, NoCase, Stages
  <2>4. \A n \in NoteIds : n # r.note =>
            cases'[n] = cases[n] /\ notes'[n] = notes[n] /\ validated'[n] = validated[n]
    BY <1>0, <1>8, <2>1 DEF CommitSubmit, TypeOK, NotesTypeOK
  <2>5. \A x \in Witnesses : witnesses'[x].case = r.note \/ witnesses'[x] = witnesses[x]
    BY <1>0, <1>8, <2>1 DEF CommitSubmit, TypeOK
  <2>6. notes[r.note].owner = NoUser
    BY <2>1, <2>2 DEF IInv, TablesAgree, CaseHasNotice, Opened
  <2>7. r.user # NoUser
    BY <2>1, PageAssumption
  <2>8. \A n \in NoteIds : Opened(n)' <=> Opened(n) \/ n = r.note
    BY <2>1, <2>3, <2>4 DEF Opened
  <2>9. Grows
    <3>1. \A n \in NoteIds : Opened(n) => n # r.note
      BY <2>2
    <3>2. \A x \in Witnesses : witnesses[x].case # 0 => witnesses'[x].case # 0
      BY <2>1, <2>5, PageAssumption DEF NoteIds
    <3>3. QED
      BY <1>2, <2>4, <2>6, <2>8, <3>1, <3>2 DEF Grows
  <2>10. CaseHasNotice'
    <3>1. \A n \in NoteIds : cases'[n].status # "none" <=> notes'[n].owner # NoUser
      BY <2>3, <2>4, <2>7 DEF IInv, TablesAgree, CaseHasNotice
    <3>2. ASSUME NEW x \in Witnesses, witnesses'[x].case # 0
          PROVE  cases'[witnesses'[x].case].status # "none"
      <4>1. CASE witnesses'[x].case = r.note
        BY <2>3, <4>1
      <4>2. CASE witnesses'[x] = witnesses[x]
        <5>1. witnesses[x].case \in NoteIds
          BY <1>0, <3>2, <4>2, PageAssumption DEF TypeOK, Witness, NoteIds
        <5>2. cases[witnesses[x].case].status # "none"
          BY <3>2, <4>2 DEF IInv, TablesAgree, CaseHasNotice
        <5>3. QED
          BY <2>8, <4>2, <5>1, <5>2 DEF Opened
      <4>3. QED
        BY <2>5, <4>1, <4>2
    <3>3. QED
      BY <3>1, <3>2 DEF CaseHasNotice
  <2>11. CompletedWasValidated'
    BY <2>3, <2>4 DEF IInv, TablesAgree, CompletedWasValidated
  <2>12. TablesAgree'
    <3>1. \A n \in NoteIds : Opened(n)' => n <= created'
      BY <1>1, <2>2, <2>8 DEF IInv, TablesAgree
    <3>2. \A n \in NoteIds, s \in Stages :
            Opened(n)' /\ cases'[n][s] = "validated" => s \in validated'[n]
      BY <2>3, <2>4, <2>8 DEF IInv, TablesAgree
    <3>3. QED
      BY <2>10, <2>11, <3>1, <3>2 DEF TablesAgree, Opened
  <2>13. \A v \in Workers : Handles(v, "submit") /\ v # w => ~Opened(req[v].note)'
    <3> SUFFICES ASSUME NEW v \in Workers, Handles(v, "submit"), v # w
                 PROVE  ~Opened(req[v].note)'
      OBVIOUS
    <3>1. req[v].note # r.note
      BY <2>1 DEF IInv, SubmitsDiffer
    <3>2. req[v].note \in NoteIds /\ ~Opened(req[v].note)
      BY <1>0, Handled, Fields DEF IInv, Sound, Handles
    <3>3. cases'[req[v].note] = cases[req[v].note] /\ req'[v] = req[v]
      BY <1>1, <2>4, <3>1, <3>2
    <3>4. QED
      BY <3>2, <3>3 DEF Opened
  <2>14. QED
    BY <2>9, <2>12, <2>13
<1>9. CASE CommitStages(w)
  <2> DEFINE r == req[w]
             row == Flushed(cases[r.note], r.seen, UpdatedCase(r.seen, r.update))
  <2>1. r.note \in NoteIds /\ r.seen \in Case /\ r.update \in Updates /\ Handles(w, "stages")
    BY <1>1, <1>9, Fields DEF CommitStages, Handles
  <2>2. /\ Opened(r.note) /\ r.seen.status # "none"
        /\ \A s \in Stages : r.seen[s] = "validated" => s \in validated[r.note]
        /\ r.seen.status = "completed" => validated[r.note] = Stages
    BY <2>1 DEF IInv, Sound
  <2>3. cases[r.note] \in Case /\ validated[r.note] \subseteq Stages
    BY <1>0, <2>1 DEF TypeOK
  <2>4. row \in Case /\ row.status # "none"
    BY <2>1, <2>2, <2>3, UpdatedStages DEF Opened
  <2>5. /\ cases' = [cases EXCEPT ![r.note] = row]
        /\ validated' = [validated EXCEPT ![r.note] = @ \cup {s \in Stages : row[s] = "validated"}]
        /\ notes' = notes /\ witnesses' = witnesses
    BY <1>9 DEF CommitStages, noteVars
  <2>6. /\ cases'[r.note] = row
        /\ validated'[r.note] = validated[r.note] \cup {s \in Stages : row[s] = "validated"}
        /\ \A n \in NoteIds : n # r.note => cases'[n] = cases[n] /\ validated'[n] = validated[n]
    BY <1>0, <2>1, <2>5 DEF TypeOK
  <2>7. \A n \in NoteIds : Opened(n)' <=> Opened(n)
    BY <2>2, <2>4, <2>6 DEF Opened
  <2>8. Grows
    BY <1>2, <2>5, <2>6, <2>7 DEF Grows
  <2>9. row.status = "completed" => validated'[r.note] = Stages
    <3> SUFFICES ASSUME row.status = "completed"
                 PROVE  validated'[r.note] = Stages
      OBVIOUS
    <3>1. CASE cases[r.note].status = "completed"
      BY <2>1, <2>3, <2>6, <3>1 DEF IInv, TablesAgree, CompletedWasValidated
    <3>2. CASE r.seen.status = "completed"
      BY <2>2, <2>3, <2>6, <3>2
    <3>3. CASE cases[r.note].status # "completed" /\ r.seen.status # "completed"
      <4>1. UpdatedCase(r.seen, r.update).status = "completed"
        BY <2>3, <3>3 DEF Flushed, Case
      <4>2. \A s \in Stages : UpdatedCase(r.seen, r.update)[s] = "validated"
        BY <2>1, <3>3, <4>1 DEF UpdatedCase, Case, Stages
      <4>3. ASSUME NEW s \in Stages
            PROVE  s \in validated'[r.note]
        <5>1. CASE r.seen[s] = "validated"
          BY <2>2, <2>6, <5>1
        <5>2. CASE r.seen[s] # "validated"
          BY <2>3, <2>6, <4>2, <5>2 DEF Flushed, Case, Stages
        <5>3. QED
          BY <5>1, <5>2
      <4>4. QED
        BY <2>3, <2>6, <4>3
    <3>4. QED
      BY <3>1, <3>2, <3>3
  <2>10. CaseHasNotice'
    <3>1. \A x \in Witnesses : witnesses[x].case # 0 => witnesses[x].case \in NoteIds
      BY <1>0, PageAssumption DEF TypeOK, Witness, NoteIds
    <3>2. QED
      BY <2>5, <2>7, <3>1 DEF IInv, TablesAgree, CaseHasNotice, Opened
  <2>11. CompletedWasValidated'
    BY <2>6, <2>9 DEF IInv, TablesAgree, CompletedWasValidated
  <2>12. TablesAgree'
    <3>1. \A n \in NoteIds : Opened(n)' => n <= created'
      BY <1>1, <2>7 DEF IInv, TablesAgree
    <3>2. \A n \in NoteIds, s \in Stages :
            Opened(n)' /\ cases'[n][s] = "validated" => s \in validated'[n]
      BY <2>6, <2>7 DEF IInv, TablesAgree
    <3>3. QED
      BY <2>10, <2>11, <3>1, <3>2 DEF TablesAgree, Opened
  <2>13. \A v \in Workers : Handles(v, "submit") => ~Opened(req[v].note)'
    <3>1. \A v \in Workers : Handles(v, "submit") => req[v].note \in NoteIds /\ ~Opened(req[v].note)
      BY <1>0, Handled, Fields DEF IInv, Sound, Handles
    <3>2. \A v \in Workers : Handles(v, "submit") => v # w
      BY <2>1 DEF Handles
    <3>3. \A v \in Workers : Handles(v, "submit") => req'[v] = req[v]
      BY <1>1, <3>2
    <3>4. QED
      BY <2>7, <3>1, <3>3 DEF Opened
  <2>14. QED
    BY <2>8, <2>12, <2>13
<1>10. CASE CommitWitness(w)
  <2>1. cases' = cases /\ validated' = validated /\ notes' = notes
    BY <1>10 DEF CommitWitness, noteVars
  <2>2. \A x \in Witnesses : \/ witnesses'[x].case = witnesses[x].case
                             \/ /\ witnesses'[x].case \in NoteIds
                                /\ Opened(witnesses'[x].case)
    <3>1. CASE Handles(w, "witness")
      <4>1. req[w].note \in NoteIds /\ Opened(req[w].note) /\ req[w].witness \in Witnesses
        BY <1>1, <3>1, Fields DEF IInv, Sound, Handles
      <4>2. witnesses' = [witnesses EXCEPT ![req[w].witness] =
                            [case |-> req[w].note, status |-> "pending"]]
        BY <1>10, <3>1 DEF CommitWitness, Handles
      <4>3. QED
        BY <1>0, <4>1, <4>2 DEF TypeOK
    <3>2. CASE Handles(w, "respond")
      <4>1. witnesses' = [witnesses EXCEPT ![req[w].witness].status =
                            IF req[w].answer # req[w].seen THEN req[w].answer ELSE @]
        BY <1>10, <3>2 DEF CommitWitness, Handles
      <4>2. QED
        BY <1>0, <4>1 DEF TypeOK, Witness
    <3>3. QED
      BY <1>1, <1>10, <3>1, <3>2 DEF CommitWitness, Handles
  <2>3. CaseHasNotice' /\ CompletedWasValidated'
    BY <2>1, <2>2 DEF IInv, TablesAgree, CaseHasNotice, CompletedWasValidated, Opened
  <2>4. Grows
    BY <1>2, <2>1, <2>2, PageAssumption DEF Grows, Opened, NoteIds
  <2>5. QED
    BY <1>1, <2>1, <2>3, <2>4 DEF IInv, TablesAgree, Opened, Sound
<1>11. QED
  BY <1>6, <1>7, <1>8, <1>9, <1>10
  DEF Work, CommitDevice, RefuseDuplicate, SendPush, PushFails, Rollback, noteVars

LEMMA Safe == Spec => []IInv
<1>1. IInv /\ [Next]_vars => IInv'
  <2> SUFFICES ASSUME IInv, [Next]_vars
               PROVE  IInv'
    OBVIOUS
  <2>1. CASE UNCHANGED vars
    <3>1. CaseHasNotice' /\ CompletedWasValidated'
      BY <2>1 DEF vars, noteVars, requestVars, IInv, TablesAgree, CaseHasNotice, CompletedWasValidated
    <3>2. TypeInv'
      BY TypeNext DEF IInv
    <3>3. QED
      BY <2>1, <3>1, <3>2
      DEF vars, noteVars, requestVars, IInv, TablesAgree, Sound, SubmitsDiffer, Handles, Opened, Newer, Free
  <2>2. QED
    BY <2>1, ArrivesInv, WorksInv DEF Next
<1>2. QED
  BY <1>1, InitInv, PTL DEF Spec

\* A completed case has had each of its stages validated, however updates overlap.
THEOREM CompletedCorrect == Spec => []CompletedWasValidated
BY Safe, PTL DEF IInv, TablesAgree

\* A case and the notification of its owner are there together or not at all.
THEOREM NoticesCorrect == Spec => []CaseHasNotice
BY Safe, PTL DEF IInv, TablesAgree

\* What read-all leaves unread is behind a full page of newer notifications, also
\* if others are created or read while it runs.
THEOREM PageCovered == Spec => ReadAllCoversPage
<1>1. ASSUME IInv, NEW w \in Workers, ~Free(w), req[w].kind = "read_all", CommitRead(w),
             NEW n \in req[w].unread
      PROVE  \/ notes'[n].read
             \/ Cardinality({k \in NoteIds : k > n /\ notes[k].owner = req[w].user}) >= Page
  <2>1. TypeInv /\ NotesTypeOK
    BY <1>1 DEF IInv, TypeInv, TypeOK
  <2>2. n \in NoteIds
    BY <1>1, <2>1, Handled, Fields
  <2>3. n \in req[w].found \/ Cardinality(Newer(req[w].user, n)) >= Page
    BY <1>1 DEF IInv, Sound, Handles
  <2>4. n \in req[w].found => notes'[n].read
    BY <1>1, <2>1, <2>2 DEF CommitRead, NotesTypeOK, Note
  <2>5. QED
    BY <2>3, <2>4 DEF Newer
<1>2. IInv => [\A w \in Workers :
                /\ ~Free(w) /\ req[w].kind = "read_all" /\ CommitRead(w)
                => \A n \in req[w].unread :
                    \/ notes'[n].read
                    \/ Cardinality({k \in NoteIds : k > n /\ notes[k].owner = req[w].user}) >= Page
              ]_<<noteVars, requestVars>>
  BY <1>1
<1>3. QED
  BY <1>2, Safe, PTL DEF ReadAllCoversPage

-----------------------------------------------------------------------------
(* One step of DeathVerification is one step of DeathCase, or none.  Two   *)
(* things make it so: a case that a request submits is not open yet, and   *)
(* an update that loaded a case before its completion does not write its   *)
(* status unless it completes the case itself.                             *)

Status == [n \in NoteIds |-> cases[n].status]
Notified == {n \in NoteIds : notes[n].owner # NoUser}

LEMMA SubmitOpens ==
    ASSUME IInv, NEW w \in Workers, CommitSubmit(w)
    PROVE  Promise!Next
<1>1. TypeOK /\ NotesTypeOK /\ req[w] \in Requests /\ Handles(w, "submit")
  BY Handled DEF CommitSubmit, Handles, IInv, TypeInv, TypeOK
<1>2. PICK n \in NoteIds : n = req[w].note /\ ~Opened(n)
  BY <1>1, Fields DEF Handles, IInv, Sound
<1>3. req[w].user \in Users /\ req[w].user # NoUser
  BY <1>1, Fields, PageAssumption DEF Handles
<1>4. PICK S \in SUBSET Stages : validated' = [validated EXCEPT ![n] = S]
  BY <1>2 DEF CommitSubmit, Stages
<1>5. /\ cases'[n].status = "in_progress"
      /\ \A k \in NoteIds : k # n => cases'[k] = cases[k]
  BY <1>1, <1>2 DEF CommitSubmit, TypeOK, NoCase
<1>6. Status' = [Status EXCEPT ![n] = "in_progress"] /\ Status[n] = "none"
  BY <1>2, <1>5 DEF Status, Opened
<1>7. notes' = [notes EXCEPT ![n] = [owner |-> req[w].user, read |-> FALSE]]
  BY <1>2 DEF CommitSubmit
<1>8. Notified' = Notified \cup {n}
  BY <1>1, <1>3, <1>7 DEF Notified, NotesTypeOK
<1>9. Promise!Open(n, S)
  BY <1>4, <1>6, <1>8 DEF Promise!Open, Status, Notified
<1>10. QED
  BY <1>9 DEF Promise!Next

LEMMA StagesAdvance ==
    ASSUME IInv, IInv', NEW w \in Workers, CommitStages(w)
    PROVE  Promise!Next
<1> DEFINE r == req[w]
           row == Flushed(cases[r.note], r.seen, UpdatedCase(r.seen, r.update))
<1>1. TypeOK /\ r \in Requests /\ Handles(w, "stages")
  BY Handled DEF CommitStages, Handles, IInv, TypeInv
<1>2. r.note \in NoteIds /\ r.seen \in Case /\ r.update \in Updates /\ Opened(r.note)
  BY <1>1, Fields DEF Handles, IInv, Sound
<1>3. PICK n \in NoteIds : n = r.note
  BY <1>2
<1>4. cases[n] \in Case /\ Opened(n) /\ validated[n] \subseteq Stages
  BY <1>1, <1>2, <1>3 DEF TypeOK
<1>5. PICK S \in SUBSET Stages : S = {s \in Stages : row[s] = "validated"}
  OBVIOUS
<1>6. /\ cases' = [cases EXCEPT ![n] = row]
      /\ validated' = [validated EXCEPT ![n] = @ \cup S]
      /\ Notified' = Notified
  BY <1>3, <1>5 DEF CommitStages, noteVars, Notified
<1>7. /\ cases'[n] = row /\ validated'[n] = validated[n] \cup S
      /\ \A k \in NoteIds : k # n => cases'[k] = cases[k]
  BY <1>1, <1>6 DEF TypeOK
<1>8. row.status \in {cases[n].status, "completed"}
  <2>1. UpdatedCase(r.seen, r.update).status \in {r.seen.status, "completed"}
    BY <1>2 DEF UpdatedCase, Case
  <2>2. QED
    BY <1>2, <1>3, <1>4, <2>1 DEF Flushed, Case
<1> HIDE DEF row
<1>9. Status[n] # "none"
  BY <1>4 DEF Status, Opened
<1>10. CASE row.status = "completed"
  <2>1. validated'[n] = Stages
    BY <1>7, <1>10 DEF IInv, TablesAgree, CompletedWasValidated
  <2>2. Status' = [Status EXCEPT ![n] = "completed"]
    BY <1>7, <1>10 DEF Status
  <2>3. validated[n] \cup S = Stages /\ validated' = [validated EXCEPT ![n] = Stages]
    BY <1>1, <1>6, <1>7, <2>1 DEF TypeOK
  <2>4. Promise!Complete(n, S)
    BY <1>6, <1>9, <2>2, <2>3 DEF Promise!Complete, Status, Notified
  <2>5. QED
    BY <2>4 DEF Promise!Next
<1>11. CASE row.status = cases[n].status
  <2>1. Status' = Status
    BY <1>7, <1>11 DEF Status
  <2>2. Promise!Validate(n, S)
    BY <1>6, <1>9, <2>1 DEF Promise!Validate, Status, Notified
  <2>3. QED
    BY <2>2 DEF Promise!Next
<1>12. QED
  BY <1>8, <1>10, <1>11

LEMMA StepOfCase ==
    ASSUME IInv, IInv', [Next]_vars
    PROVE  Promise!Next \/ UNCHANGED <<Status, validated, Notified>>
<1>1. CASE /\ cases' = cases /\ validated' = validated
           /\ \A n \in NoteIds : notes'[n].owner = notes[n].owner
  BY <1>1 DEF Status, Notified
<1>2. ASSUME NEW w \in Workers, Arrive(w)
      PROVE  cases' = cases /\ validated' = validated /\ notes' = notes
  BY <1>2, ArriveForm DEF IInv, Arrives, caseVars
<1>3. ASSUME NEW w \in Workers, CommitRead(w), UNCHANGED caseVars
      PROVE  /\ cases' = cases /\ validated' = validated
             /\ \A n \in NoteIds : notes'[n].owner = notes[n].owner
  BY <1>3 DEF CommitRead, caseVars, IInv, TypeInv, TypeOK, NotesTypeOK, Note
<1>4. ASSUME NEW w \in Workers, Work(w), ~CommitSubmit(w), ~CommitStages(w),
             ~(CommitRead(w) /\ UNCHANGED caseVars)
      PROVE  cases' = cases /\ validated' = validated /\ notes' = notes
  BY <1>4 DEF Work, CommitDevice, RefuseDuplicate, SendPush, PushFails, CommitWitness, Rollback,
              noteVars, caseVars
<1>5. ASSUME UNCHANGED vars
      PROVE  cases' = cases /\ validated' = validated /\ notes' = notes
  BY <1>5 DEF vars, noteVars
<1>6. QED
  BY <1>1, <1>2, <1>3, <1>4, <1>5, SubmitOpens, StagesAdvance DEF Next

\* However updates overlap, a case goes through its life: opened with the notice to the
\* owner, completed after each stage was validated, never reopened.
THEOREM CaseImplemented == Spec => ImplementsCase
<1>1. Init => Promise!Init
  BY DEF Init, NotesInit, NoNote, NoCase, Promise!Init
<1>2. IInv /\ IInv' /\ [Next]_vars => [Promise!Next]_(Promise!promiseVars)
  BY StepOfCase DEF Promise!promiseVars, Status, Notified
<1>3. QED
  BY <1>1, <1>2, Safe, PTL DEF Spec, ImplementsCase, Promise!Spec

-----------------------------------------------------------------------------
(* Requests that do not overlap                                            *)

Busy == \A v \in Workers : ~Free(v) => v \in load.workers

\* The sole request in flight loaded what is stored.
Current(v) ==
    /\ Handles(v, "register") => req[v].seen = devices[req[v].device]
    /\ Handles(v, "submit") => \A d \in req[v].tokens : devices[d] = req[v].user
    /\ Handles(v, "stages") => req[v].seen = cases[req[v].note]

SInv ==
    /\ Busy
    /\ Serial => /\ devices = registrant
                 /\ \A v \in Workers : Current(v)
                 /\ \A n \in NoteIds :
                    (\A s \in Stages : cases[n][s] = "validated") => cases[n].status = "completed"

LEMMA SerialInit == Init => SInv
BY DEF Init, NotesInit, RequestsInit, SInv, Busy, Current, Handles, Free, NoCase, Stages

LEMMA BusyNext ==
    ASSUME IInv, Busy, NEW w \in Workers, Step(w)
    PROVE  /\ Busy' /\ load' = load /\ w \in load.workers
           /\ Serial => \A v \in Workers : v # w => Free(v) /\ Free(v)'
<1>1. Moves(w) /\ w \in load.workers
  <2>1. CASE Arrive(w)
    BY <2>1, ArriveForm DEF IInv, Arrives
  <2>2. CASE Work(w)
    BY <2>2, WorkMoves DEF IInv, Busy
  <2>3. QED
    BY <2>1, <2>2 DEF Step
<1>2. load' = load /\ \A v \in Workers : v # w => (Free(v)' <=> Free(v))
  BY <1>1 DEF Moves, Free
<1>3. QED
  BY <1>1, <1>2 DEF Busy, Serial

LEMMA SerialArrives ==
    ASSUME IInv, SInv, Serial, NEW w \in Workers, Arrive(w)
    PROVE  /\ Current(w)'
           /\ UNCHANGED <<devices, registrant, cases>>
<1>1. TypeInv /\ NotesTypeOK
  BY DEF IInv, TypeInv, TypeOK
<1>2. UNCHANGED <<devices, registrant, cases>>
  BY <1>1, ArriveForm DEF Arrives, caseVars
<1>3. \A r : Begins(w, r) => req'[w] = r
  BY <1>1 DEF TypeInv, Begins, Continues
<1>4. ASSUME NEW u \in Users, NEW d \in Devices, RegisterDevice(w, u, d)
      PROVE  Current(w)'
  BY <1>2, <1>3, <1>4 DEF RegisterDevice, Current, Handles
<1>5. ASSUME NEW u \in Users, NEW n \in NoteIds, MarkRead(w, u, n)
      PROVE  Current(w)'
  BY <1>3, <1>5 DEF MarkRead, Current, Handles
<1>6. ASSUME NEW u \in Users, MarkAllRead(w, u)
      PROVE  Current(w)'
  BY <1>3, <1>6 DEF MarkAllRead, Current, Handles
<1>7. ASSUME NEW u \in Users, NEW certificate \in BOOLEAN, NEW listed \in SUBSET Witnesses,
             Submit(w, u, certificate, listed)
      PROVE  Current(w)'
  <2>1. req'[w] = [kind |-> "submit", user |-> u, note |-> created + 1,
                   tokens |-> Recipients(u), certificate |-> certificate, witnesses |-> listed]
    BY <1>3, <1>7 DEF Submit
  <2>2. \A d \in Recipients(u) : devices[d] = u
    BY DEF Recipients, TokensOf
  <2>3. QED
    BY <1>2, <2>1, <2>2 DEF Current, Handles
<1>8. ASSUME NEW n \in NoteIds, NEW update \in Updates, UpdateStages(w, n, update)
      PROVE  Current(w)'
  BY <1>2, <1>3, <1>8 DEF UpdateStages, Current, Handles
<1>9. ASSUME NEW n \in NoteIds, NEW x \in Witnesses, AddWitness(w, n, x)
      PROVE  Current(w)'
  BY <1>3, <1>9 DEF AddWitness, Current, Handles
<1>10. ASSUME NEW x \in Witnesses, NEW answer \in WitnessStatus, RespondWitness(w, x, answer)
       PROVE  Current(w)'
  BY <1>3, <1>10 DEF RespondWitness, Current, Handles
<1>11. QED
  BY <1>1, <1>2, <1>4, <1>5, <1>6, <1>7, <1>8, <1>9, <1>10, ArriveForm

LEMMA SerialWorks ==
    ASSUME IInv, SInv, Serial, NEW w \in Workers, Work(w)
    PROVE  /\ devices' = registrant'
           /\ Current(w)'
           /\ \A n \in NoteIds :
                (\A s \in Stages : cases'[n][s] = "validated") => cases'[n].status = "completed"
<1> USE DEF noteVars, caseVars
<1>0. TypeInv /\ TypeOK /\ NotesTypeOK
  BY DEF IInv, TypeInv, TypeOK
<1>1. ~Free(w) /\ req[w] \in Requests /\ (Free(w)' \/ SendPush(w))
  BY <1>0, WorkMoves, Handled
<1>2. Free(w)' => Current(w)'
  BY DEF Current, Handles
<1>3. \A n \in NoteIds :
        (\A s \in Stages : cases[n][s] = "validated") => cases[n].status = "completed"
  BY DEF SInv
<1>4. Current(w) /\ devices = registrant
  BY DEF SInv
<1>5. CASE SendPush(w) /\ UNCHANGED caseVars
  <2>1. PICK d \in req[w].tokens : Continues(w, [req[w] EXCEPT !.tokens = @ \ {d}])
    BY <1>5 DEF SendPush
  <2>2. ~Free(w) /\ req[w].kind = "submit" /\ UNCHANGED <<devices, registrant>>
    BY <1>5 DEF SendPush, Pushing
  <2>3. req[w] \in CaseRequest
    BY <1>1, <2>2 DEF Requests, NoteRequest
  <2>4. /\ req'[w].kind = "submit" /\ req'[w].user = req[w].user
        /\ req'[w].tokens \subseteq req[w].tokens
    BY <1>0, <2>1, <2>2, <2>3 DEF Continues, TypeInv, CaseRequest
  <2>5. QED
    BY <1>3, <1>4, <1>5, <2>2, <2>4 DEF Current, Handles
<1>6. CASE CommitDevice(w) /\ UNCHANGED caseVars
  <2>1. req[w].seen = devices[req[w].device] /\ req[w].device \in Devices
    BY <1>1, <1>4, <1>6, Fields DEF CommitDevice, Current, Handles
  <2>2. RegisteredOwner(req[w]) = req[w].user
    BY <2>1 DEF RegisteredOwner
  <2>3. devices' = registrant'
    BY <1>4, <1>6, <2>2 DEF CommitDevice
  <2>4. Free(w)'
    BY <1>0, <1>6, AnswersMoves DEF CommitDevice
  <2>5. QED
    BY <1>2, <1>3, <1>6, <2>3, <2>4
<1>7. CASE CommitSubmit(w)
  <2>1. req[w].note \in NoteIds
    BY <1>1, <1>7, Fields DEF CommitSubmit
  <2>2. cases'[req[w].note].court = "pending"
        /\ \A n \in NoteIds : n # req[w].note => cases'[n] = cases[n]
    BY <1>0, <1>7, <2>1 DEF CommitSubmit, TypeOK, NoCase
  <2>3. devices' = registrant' /\ Free(w)'
    BY <1>0, <1>4, <1>7, AnswersMoves DEF CommitSubmit
  <2>4. QED
    BY <1>2, <1>3, <2>2, <2>3 DEF Stages
<1>8. CASE CommitStages(w)
  <2> DEFINE r == req[w]
             row == Flushed(cases[r.note], r.seen, UpdatedCase(r.seen, r.update))
  <2>1. r.note \in NoteIds /\ r.seen \in Case /\ r.update \in Updates /\ r.seen = cases[r.note]
    BY <1>1, <1>4, <1>8, Fields DEF CommitStages, Current, Handles
  <2>2. cases'[r.note] = row /\ \A n \in NoteIds : n # r.note => cases'[n] = cases[n]
    BY <1>0, <1>8, <2>1 DEF CommitStages, TypeOK
  <2>3. \A c \in DOMAIN r.seen : row[c] = UpdatedCase(r.seen, r.update)[c]
    BY <2>1 DEF Flushed, UpdatedCase
  <2>4. (\A s \in Stages : row[s] = "validated") => row.status = "completed"
    BY <2>1, <2>3 DEF UpdatedCase, Case, Stages
  <2>5. devices' = registrant' /\ Free(w)'
    BY <1>0, <1>4, <1>8, AnswersMoves DEF CommitStages
  <2>6. QED
    BY <1>2, <1>3, <2>2, <2>4, <2>5
<1>9. CASE UNCHANGED <<devices, registrant, cases>> /\ Free(w)'
  BY <1>2, <1>3, <1>4, <1>9
<1>10. CASE \/ (RefuseDuplicate(w) \/ CommitRead(w) \/ PushFails(w)) /\ UNCHANGED caseVars
            \/ CommitWitness(w) \/ Rollback(w)
  <2>1. UNCHANGED <<devices, registrant, cases>> /\ (Answers(w) \/ Dies(w))
    BY <1>10 DEF RefuseDuplicate, CommitRead, PushFails, CommitWitness, Rollback
  <2>2. QED
    BY <1>0, <1>9, <2>1, AnswersMoves, DiesMoves
<1>11. QED
  BY <1>5, <1>6, <1>7, <1>8, <1>10 DEF Work

LEMMA SerialNext == IInv /\ SInv /\ [Next]_vars => SInv'
<1> SUFFICES ASSUME IInv, SInv, [Next]_vars
             PROVE  SInv'
  OBVIOUS
<1>1. CASE UNCHANGED vars
  BY <1>1 DEF vars, noteVars, requestVars, SInv, Busy, Serial, Current, Handles, Free
<1>2. ASSUME NEW w \in Workers, Step(w)
      PROVE  SInv'
  <2>1. /\ Busy' /\ load' = load
        /\ Serial => \A v \in Workers : v # w => Free(v) /\ Free(v)'
    BY <1>2, BusyNext DEF SInv
  <2>2. SUFFICES ASSUME Serial
                 PROVE  /\ devices' = registrant' /\ Current(w)'
                        /\ \A n \in NoteIds : (\A s \in Stages : cases'[n][s] = "validated")
                                                => cases'[n].status = "completed"
    <3>1. \A v \in Workers : v # w /\ Serial => Current(v)'
      BY <2>1 DEF Current, Handles
    <3>2. Serial' <=> Serial
      BY <2>1 DEF Serial
    <3>3. QED
      BY <2>1, <2>2, <3>1, <3>2 DEF SInv
  <2>3. CASE Arrive(w)
    BY <2>2, <2>3, SerialArrives DEF SInv
  <2>4. CASE Work(w)
    BY <2>2, <2>4, SerialWorks
  <2>5. QED
    BY <1>2, <2>3, <2>4 DEF Step
<1>3. QED
  BY <1>1, <1>2 DEF Next, Step

LEMMA SerialSafe == Spec => []SInv
BY SerialInit, SerialNext, Safe, PTL DEF Spec

LEMMA FullProgress ==
    ASSUME NEW case \in Case, Progress(case) = 100
    PROVE  \A s \in Stages : case[s] = "validated"
<1> DEFINE done == {s \in Stages : case[s] = "validated"}
<1>1. /\ IsFiniteSet(Stages) /\ Cardinality(Stages) = 3
  <2>1. IsFiniteSet({}) /\ Cardinality({}) = 0
    BY FS_EmptySet
  <2>2. IsFiniteSet({"document"}) /\ Cardinality({"document"}) = 1
    BY <2>1, FS_AddElement, {"document"} = {} \cup {"document"}
  <2>3. IsFiniteSet({"document", "court"}) /\ Cardinality({"document", "court"}) = 2
    BY <2>2, FS_AddElement, {"document", "court"} = {"document"} \cup {"court"}
  <2>4. QED
    BY <2>3, FS_AddElement, Stages = {"document", "court"} \cup {"vault"} DEF Stages
<1>2. /\ Cardinality(done) <= 3 /\ Cardinality(done) \in Nat
      /\ Cardinality(done) = 3 => done = Stages
  BY <1>1, FS_Subset, FS_CardinalityType
<1>3. (200 * Cardinality(done) + 3) \div 6 = 100
  BY DEF Progress
<1>4. Cardinality(done) = 3
  BY <1>2, <1>3
<1>5. QED
  BY <1>2, <1>4

\* Updates that come one after the other complete a case as soon as it shows 100
\* percent.
THEOREM StagesComplete == Spec => []AllValidatedIsCompleted
<1>1. IInv /\ SInv => AllValidatedIsCompleted
  <2> SUFFICES ASSUME IInv, SInv, Serial, NEW n \in NoteIds, Progress(cases[n]) = 100
               PROVE  cases[n].status = "completed"
    BY DEF AllValidatedIsCompleted, CompletionFollows
  <2>1. cases[n] \in Case
    BY DEF IInv, TypeInv, TypeOK
  <2>2. QED
    BY <2>1, FullProgress DEF SInv
<1>2. QED
  BY <1>1, Safe, SerialSafe, PTL

\* A device belongs to the last user it was registered for, one after the other.
THEOREM DevicesStand == Spec => []RegistrationStands
<1>1. SInv => RegistrationStands
  BY DEF SInv, RegistrationStands, LastRegistrantOwns
<1>2. QED
  BY <1>1, SerialSafe, PTL

\* A push about a user's estate reaches only devices that are this user's by then.
THEOREM PushesReachOwner == Spec => PushGoesToOwner
<1> DEFINE A == Serial => \A w \in Workers, n \in NoteIds, d \in Devices :
        /\ <<n, d>> \in pushed' \ pushed
        /\ ~Free(w) /\ req[w].kind = "submit" /\ req[w].note = n
        => devices[d] = req[w].user
<1>1. ASSUME IInv, SInv, [Next]_vars
      PROVE  [A]_<<noteVars, requestVars>>
  <2> SUFFICES ASSUME Serial, NEW w \in Workers, NEW n \in NoteIds, NEW d \in Devices,
                      <<n, d>> \in pushed' \ pushed, Handles(w, "submit"), req[w].note = n
               PROVE  devices[d] = req[w].user
    BY DEF Handles
  <2>1. PICK v \in Workers : Step(v)
    BY <1>1 DEF Next, Step, vars, noteVars
  <2>2. SendPush(v)
    <3>1. CASE Arrive(v)
      BY <1>1, <3>1, ArriveForm DEF IInv, Arrives
    <3>2. CASE Work(v)
      BY <3>2 DEF Work, CommitDevice, RefuseDuplicate, CommitRead, PushFails, CommitSubmit,
                  CommitStages, CommitWitness, Rollback, noteVars
    <3>3. QED
      BY <2>1, <3>1, <3>2 DEF Step
  <2>3. Handles(v, "submit") /\ d \in req[v].tokens /\ req[v].note = n
    BY <2>2 DEF SendPush, Pushing, Handles
  <2>4. v = w
    BY <1>1, <2>3 DEF IInv, SubmitsDiffer
  <2>5. QED
    BY <1>1, <2>3, <2>4 DEF SInv, Current
<1>2. QED
  BY <1>1, Safe, SerialSafe, PTL DEF Spec, PushGoesToOwner
=============================================================================
