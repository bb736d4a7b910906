---------------------------- MODULE EstateProofs ----------------------------
(***************************************************************************)
(* The types of Estate, for any sets of rows, users and workers and any    *)
(* number of failures: each component keeps its own tables typed, and the  *)
(* requests of all of them share req.                                      *)
(***************************************************************************)
EXTENDS Estate, TLAPS

IsRequest(q) ==
    \/ q \in HeirRequest
    \/ q \in InheritanceRequest
    \/ q \in VaultRequest
    \/ q \in LegacyRequest
    \/ q \in SuccessionRequest
    \/ q \in UserRequest

\* What TypeOK leaves out: every worker has an entry in req.
TypeInv == TypeOK /\ DOMAIN req = Workers

\* A step of w, for the requests: the next one of w, if any, is in S.
Advances(w, S) ==
    /\ load' = load
    /\ failures' \in 0 .. MaxFailures
    /\ DOMAIN req' = Workers
    /\ \A v \in Workers : v # w => req'[v] = req[v]
    /\ req'[w] = NoRequest \/ req'[w] \in S

LEMMA ContinuesAdvances ==
    ASSUME TypeInv, NEW w \in Workers, NEW S, NEW r \in S, Continues(w, r)
    PROVE  Advances(w, S)
BY DEF TypeInv, TypeOK, Continues, Advances

LEMMA BeginsAdvances ==
    ASSUME TypeInv, NEW w \in Workers, NEW S, NEW r \in S, Begins(w, r)
    PROVE  Advances(w, S)
BY ContinuesAdvances DEF Begins

LEMMA AnswersAdvances ==
    ASSUME TypeInv, NEW w \in Workers, NEW S, Answers(w)
    PROVE  Advances(w, S)
BY DEF TypeInv, TypeOK, Answers, Ends, Advances

LEMMA DiesAdvances ==
    ASSUME TypeInv, NEW w \in Workers, NEW S, Dies(w)
    PROVE  Advances(w, S)
BY LoadAssumption DEF TypeInv, TypeOK, Dies, Ends, Advances

\* Requests of different components differ in their kinds.
HeirKinds == {"create", "edit", "contact", "plan", "mail"}
InheritanceKinds == {"rule", "edit_rule", "open", "decide"}
VaultKinds == {"record", "change", "view"}
LegacyKinds == {"letter", "edit_letter", "memory"}
SuccessionKinds == {"generate", "generated", "share"}
UserKinds == {"user", "code"}

LEMMA KindsTell ==
    ASSUME NEW q, IsRequest(q)
    PROVE  /\ q.kind \in HeirKinds <=> q \in HeirRequest
           /\ q.kind \in InheritanceKinds <=> q \in InheritanceRequest
           /\ q.kind \in VaultKinds <=> q \in VaultRequest
           /\ q.kind \in LegacyKinds <=> q \in LegacyRequest
           /\ q.kind \in SuccessionKinds <=> q \in SuccessionRequest
           /\ q.kind \in UserKinds <=> q \in UserRequest
<1>1. q \in HeirRequest => q.kind \in HeirKinds
  BY DEF HeirRequest, HeirKinds
<1>2. q \in InheritanceRequest => q.kind \in InheritanceKinds
  BY DEF InheritanceRequest, InheritanceKinds
<1>3. q \in VaultRequest => q.kind \in VaultKinds
  BY DEF VaultRequest, VaultKinds
<1>4. q \in LegacyRequest => q.kind \in LegacyKinds
  BY DEF LegacyRequest, LegacyKinds
<1>5. q \in SuccessionRequest => q.kind \in SuccessionKinds
  BY DEF SuccessionRequest, SuccessionKinds
<1>6. q \in UserRequest => q.kind \in UserKinds
  BY DEF UserRequest, UserKinds
<1>7. QED
  BY <1>1, <1>2, <1>3, <1>4, <1>5, <1>6
  DEF IsRequest, HeirKinds, InheritanceKinds, VaultKinds, LegacyKinds, SuccessionKinds, UserKinds

LEMMA Handled ==
    ASSUME TypeInv, NEW w \in Workers, ~Free(w)
    PROVE  IsRequest(req[w])
BY DEF TypeInv, TypeOK, Free, IsRequest

-----------------------------------------------------------------------------
(* Beneficiaries                                                           *)

LEMMA HeirFields ==
    ASSUME NEW q \in HeirRequest
    PROVE  /\ q.kind = "create" => q.heir \in Heirs /\ q.percent \in Percents
           /\ q.kind = "edit" => /\ q.heir \in Heirs /\ q.seen \in Heir
                                 /\ q.set \in HeirUpdate \cup HeirVerify \cup HeirDelete
           /\ q.kind = "contact" => q.contact \in Contacts
           /\ q.kind = "plan" => q.plan \in PlanTier
           /\ q.kind = "mail" => q.heir \in Heirs
BY DEF HeirRequest

LEMMA UpdatedHeir ==
    ASSUME NEW stored \in Heir, NEW seen \in Heir,
           NEW set \in HeirUpdate \cup HeirVerify \cup HeirDelete
    PROVE  Updated(stored, seen, set) \in Heir
BY DEF Heir, HeirUpdate, HeirVerify, HeirDelete, Updated, Flushed, Edited

LEMMA HeirArrives ==
    ASSUME TypeInv, NEW w \in Workers, ArriveHeir(w)
    PROVE  Advances(w, HeirRequest) /\ UNCHANGED heirVars
<1>1. ASSUME NEW h \in Heirs, NEW p \in Percents, Create(w, h, p)
      PROVE  Advances(w, HeirRequest) /\ UNCHANGED heirVars
  <2>1. [kind |-> "create", heir |-> h, percent |-> p] \in HeirRequest
    BY DEF HeirRequest
  <2>2. QED
    BY <1>1, <2>1, BeginsAdvances DEF Create
<1>2. ASSUME NEW h \in Heirs, NEW set \in HeirUpdate \cup HeirVerify \cup HeirDelete, Edit(w, h, set)
      PROVE  Advances(w, HeirRequest) /\ UNCHANGED heirVars
  <2>1. [kind |-> "edit", heir |-> h, seen |-> heirs[h], set |-> set] \in HeirRequest
    BY DEF HeirRequest, TypeInv, TypeOK, HeirsTypeOK
  <2>2. QED
    BY <1>2, <2>1, BeginsAdvances DEF Edit
<1>3. ASSUME NEW c \in Contacts, CreateContact(w, c)
      PROVE  Advances(w, HeirRequest) /\ UNCHANGED heirVars
  <2>1. [kind |-> "contact", contact |-> c] \in HeirRequest
    BY DEF HeirRequest
  <2>2. QED
    BY <1>3, <2>1, BeginsAdvances DEF CreateContact
<1>4. ASSUME NEW p \in PlanTier, ChangePlan(w, p)
      PROVE  Advances(w, HeirRequest) /\ UNCHANGED heirVars
  <2>1. [kind |-> "plan", plan |-> p] \in HeirRequest
    BY DEF HeirRequest
  <2>2. QED
    BY <1>4, <2>1, BeginsAdvances DEF ChangePlan
<1>5. QED
  BY <1>1, <1>2, <1>3, <1>4 DEF ArriveHeir

LEMMA HeirWorks ==
    ASSUME TypeInv, NEW w \in Workers, WorkHeir(w)
    PROVE  Advances(w, HeirRequest) /\ HeirsTypeOK'
<1> USE DEF heirVars
<1>1. HeirsTypeOK
  BY DEF TypeInv, TypeOK
<1>2. ~Free(w) /\ req[w].kind \in HeirKinds
  BY DEF WorkHeir, CommitCreate, SendMail, CommitEdit, CommitContact, CommitPlan, HeirKinds
<1>3. req[w] \in HeirRequest
  BY <1>2, Handled, KindsTell
<1>4. CASE CommitCreate(w)
  <2>1. req[w].heir \in Heirs /\ req[w].percent \in Percents
    BY <1>3, <1>4, HeirFields DEF CommitCreate
  <2>2. [status |-> "pending_verification", percent |-> req[w].percent, deleted |-> FALSE] \in Heir
    BY <2>1 DEF Heir, BeneficiaryStatus
  <2>3. [kind |-> "mail", heir |-> req[w].heir] \in HeirRequest
    BY <2>1 DEF HeirRequest
  <2>4. QED
    BY <1>1, <1>4, <2>2, <2>3, ContinuesAdvances DEF CommitCreate, HeirsTypeOK
<1>5. CASE SendMail(w)
  <2>1. req[w].heir \in Heirs
    BY <1>3, <1>5, HeirFields DEF SendMail
  <2>2. QED
    BY <1>1, <1>5, <2>1, AnswersAdvances DEF SendMail, HeirsTypeOK
<1>6. CASE CommitEdit(w)
  <2>1. /\ req[w].heir \in Heirs /\ req[w].seen \in Heir
        /\ req[w].set \in HeirUpdate \cup HeirVerify \cup HeirDelete
    BY <1>3, <1>6, HeirFields DEF CommitEdit
  <2>2. Updated(heirs[req[w].heir], req[w].seen, req[w].set) \in Heir
    BY <1>1, <2>1, UpdatedHeir DEF HeirsTypeOK
  <2>3. QED
    BY <1>1, <1>6, <2>2, AnswersAdvances DEF CommitEdit, HeirsTypeOK
<1>7. CASE CommitContact(w)
  <2>1. req[w].contact \in Contacts
    BY <1>3, <1>7, HeirFields DEF CommitContact
  <2>2. QED
    BY <1>1, <1>7, <2>1, AnswersAdvances DEF CommitContact, HeirsTypeOK
<1>8. CASE CommitPlan(w)
  <2>1. req[w].plan \in PlanTier
    BY <1>3, <1>8, HeirFields DEF CommitPlan
  <2>2. QED
    BY <1>1, <1>8, <2>1, AnswersAdvances, LimitAssumption DEF CommitPlan, HeirsTypeOK
<1>9. QED
  BY <1>4, <1>5, <1>6, <1>7, <1>8 DEF WorkHeir

-----------------------------------------------------------------------------
(* Inheritance                                                             *)

LEMMA InheritanceFields ==
    ASSUME NEW q \in InheritanceRequest
    PROVE  /\ q.kind = "rule" => q.rule \in Rules /\ q.heir \in Heirs /\ q.trigger \in Triggers
           /\ q.kind = "edit_rule" => /\ q.rule \in Rules /\ q.seen \in Rule
                                      /\ q.set \in RuleUpdate \cup RuleToggle
           /\ q.kind = "open" => q.heir \in Heirs /\ q.id \in AccessIds
           /\ q.kind = "decide" => /\ q.id \in AccessIds /\ q.seen \in Access
                                   /\ q.status \in AccessRequestStatus /\ q.byAdmin \in BOOLEAN
BY DEF InheritanceRequest

LEMMA UpdatedRule ==
    ASSUME NEW stored \in Rule, NEW seen \in Rule, NEW set \in RuleUpdate \cup RuleToggle
    PROVE  Updated(stored, seen, set) \in Rule
BY DEF Rule, RuleUpdate, RuleToggle, Updated, Flushed, Edited

LEMMA DecidedAccess ==
    ASSUME NEW stored \in Access, NEW seen \in Access, NEW r,
           r.seen = seen, r.status \in AccessRequestStatus, r.byAdmin \in BOOLEAN
    PROVE  Flushed(stored, seen, DecidedRow(r)) \in Access
<1>1. DecidedRow(r) \in Access
  BY DEF Access, DecidedRow
<1>2. QED
  BY <1>1 DEF Access, Flushed

LEMMA InheritanceArrives ==
    ASSUME TypeInv, NEW w \in Workers, ArriveInheritance(w)
    PROVE  Advances(w, InheritanceRequest) /\ HeirsTypeOK' /\ InheritanceTypeOK'
<1>1. HeirsTypeOK /\ InheritanceTypeOK
  BY DEF TypeInv, TypeOK
<1>2. ASSUME NEW x \in Rules, NEW h \in Heirs, NEW t \in Triggers, CreateRule(w, x, h, t)
      PROVE  Advances(w, InheritanceRequest) /\ UNCHANGED <<heirVars, inhVars>>
  <2>1. [kind |-> "rule", rule |-> x, heir |-> h, trigger |-> t] \in InheritanceRequest
    BY DEF InheritanceRequest
  <2>2. QED
    BY <1>2, <2>1, BeginsAdvances DEF CreateRule
<1>3. ASSUME NEW x \in Rules, NEW set \in RuleUpdate \cup RuleToggle, EditRule(w, x, set)
      PROVE  Advances(w, InheritanceRequest) /\ UNCHANGED <<heirVars, inhVars>>
  <2>1. [kind |-> "edit_rule", rule |-> x, seen |-> rules[x], set |-> set] \in InheritanceRequest
    BY <1>1 DEF InheritanceRequest, InheritanceTypeOK
  <2>2. QED
    BY <1>3, <2>1, BeginsAdvances DEF EditRule
<1>4. ASSUME NEW q \in AccessIds, NEW status \in AccessRequestStatus, NEW byAdmin \in BOOLEAN,
             NEW shown \in HeirName, Decide(w, q, status, byAdmin, shown)
      PROVE  Advances(w, InheritanceRequest) /\ UNCHANGED <<heirVars, inhVars>>
  <2>1. [kind |-> "decide", id |-> q, seen |-> access[q], status |-> status,
         byAdmin |-> byAdmin, shown |-> shown] \in InheritanceRequest
    BY <1>1 DEF InheritanceRequest, InheritanceTypeOK
  <2>2. QED
    BY <1>4, <2>1, BeginsAdvances DEF Decide
<1>5. ASSUME NEW h \in Heirs, CreateAccessRequest(w, h)
      PROVE  Advances(w, InheritanceRequest) /\ HeirsTypeOK' /\ InheritanceTypeOK'
  <2>1. opened + 1 \in AccessIds
    BY <1>1, <1>5, AccessAssumption DEF CreateAccessRequest, InheritanceTypeOK, AccessIds
  <2>2. [kind |-> "open", heir |-> h, id |-> opened + 1] \in InheritanceRequest
    BY <2>1 DEF InheritanceRequest
  <2>3. Advances(w, InheritanceRequest)
    BY <1>5, <2>2, BeginsAdvances DEF CreateAccessRequest
  <2>4. opened' \in 0 .. MaxAccess
    BY <1>1, <1>5, AccessAssumption DEF CreateAccessRequest, InheritanceTypeOK
  <2>5. QED
    BY <1>1, <1>5, <2>3, <2>4
    DEF CreateAccessRequest, HeirsTypeOK, heirVars, InheritanceTypeOK
<1>6. CASE Advances(w, InheritanceRequest) /\ UNCHANGED <<heirVars, inhVars>>
  BY <1>1, <1>6 DEF HeirsTypeOK, heirVars, InheritanceTypeOK, inhVars
<1>7. QED
  <2>1. ASSUME NEW q \in AccessIds, NEW status \in AccessRequestStatus,
               UpdateAccessStatus(w, q, status) \/ SetVerificationStatus(w, q, status)
        PROVE  Advances(w, InheritanceRequest) /\ UNCHANGED <<heirVars, inhVars>>
    BY <1>4, <2>1 DEF UpdateAccessStatus, SetVerificationStatus, ShownHeir, HeirName
  <2>2. QED
    BY <1>2, <1>3, <1>5, <1>6, <2>1 DEF ArriveInheritance

LEMMA InheritanceWorks ==
    ASSUME TypeInv, NEW w \in Workers, WorkInheritance(w)
    PROVE  Advances(w, InheritanceRequest) /\ HeirsTypeOK' /\ InheritanceTypeOK'
<1>1. HeirsTypeOK /\ InheritanceTypeOK
  BY DEF TypeInv, TypeOK
<1>2. ~Free(w) /\ req[w].kind \in InheritanceKinds
  BY DEF WorkInheritance, CommitRule, CommitOpen, CommitDecide, InheritanceKinds
<1>3. req[w] \in InheritanceRequest
  BY <1>2, Handled, KindsTell
<1>4. HeirsTypeOK'
  BY <1>1 DEF WorkInheritance, CommitRule, CommitOpen, CommitDecide, HeirsTypeOK, heirVars
<1>5. CASE CommitRule(w)
  <2>1. CASE req[w].kind = "rule"
    <3>1. [heir |-> req[w].heir, trigger |-> req[w].trigger, active |-> TRUE] \in Rule
      BY <1>3, <2>1, InheritanceFields DEF Rule
    <3>2. QED
      BY <1>1, <1>3, <1>4, <1>5, <2>1, <3>1, InheritanceFields, AnswersAdvances
      DEF CommitRule, InheritanceTypeOK
  <2>2. CASE req[w].kind = "edit_rule"
    <3>1. Updated(rules[req[w].rule], req[w].seen, req[w].set) \in Rule
      BY <1>1, <1>3, <2>2, InheritanceFields, UpdatedRule DEF InheritanceTypeOK
    <3>2. QED
      BY <1>1, <1>3, <1>4, <1>5, <2>2, <3>1, InheritanceFields, AnswersAdvances
      DEF CommitRule, InheritanceTypeOK
  <2>3. QED
    BY <1>5, <2>1, <2>2 DEF CommitRule
<1>6. CASE CommitOpen(w)
  <2>1. req[w].heir \in Heirs /\ req[w].id \in AccessIds
    BY <1>3, <1>6, InheritanceFields DEF CommitOpen
  <2>2. [heir |-> req[w].heir, status |-> "identity_verification", release |-> FALSE] \in Access
    BY <2>1 DEF Access, AccessRequestStatus
  <2>3. QED
    BY <1>1, <1>4, <1>6, <2>1, <2>2, AnswersAdvances
    DEF CommitOpen, InheritanceTypeOK, AccessRequestStatus
<1>7. CASE CommitDecide(w)
  <2>1. /\ req[w].id \in AccessIds /\ req[w].seen \in Access
        /\ req[w].status \in AccessRequestStatus /\ req[w].byAdmin \in BOOLEAN
    BY <1>3, <1>7, InheritanceFields DEF CommitDecide
  <2>2. Flushed(access[req[w].id], req[w].seen, DecidedRow(req[w])) \in Access
    BY <1>1, <2>1, DecidedAccess DEF InheritanceTypeOK
  <2>3. QED
    BY <1>1, <1>4, <1>7, <2>1, <2>2, AnswersAdvances DEF CommitDecide, InheritanceTypeOK
<1>8. QED
  BY <1>5, <1>6, <1>7 DEF WorkInheritance

-----------------------------------------------------------------------------
(* Vault                                                                   *)

LEMMA VaultFields ==
    ASSUME NEW q \in VaultRequest
    PROVE  /\ q.record \in Records
           /\ q.kind = "record" => q.new \in Record
           /\ q.kind = "change" => q.seen \in Record /\ q.set \in RecordUpdate \cup RecordDelete
BY DEF VaultRequest

LEMMA UpdatedRecord ==
    ASSUME NEW stored \in Record, NEW seen \in Record, NEW set \in RecordUpdate \cup RecordDelete
    PROVE  Encrypted(stored, seen, set) \in Record
<1>1. Updated(stored, seen, set) \in Record
  BY DEF Record, RecordUpdate, RecordDelete, Updated, Flushed, Edited
<1>2. set.secret \in Secrets \cup {Keep}
  BY DEF RecordUpdate, RecordDelete
<1>3. QED
  BY <1>1, <1>2 DEF Encrypted, Record

LEMMA InsertsAdvances ==
    ASSUME TypeInv, NoRecord \in Record,
           NEW w \in Workers, NEW x \in Records, NEW table \in Tables,
           NEW secret \in Secrets, NEW object \in {"none", "given", "stored"},
           Inserts(w, x, table, secret, object)
    PROVE  Advances(w, VaultRequest)
<1>1. [NoRecord EXCEPT !.table = table, !.secret = secret, !.object = object] \in Record
  BY DEF Record
<1>2. [kind |-> "record", record |-> x,
       new |-> [NoRecord EXCEPT !.table = table, !.secret = secret, !.object = object]]
         \in VaultRequest
  BY <1>1 DEF VaultRequest
<1>3. QED
  BY <1>2, BeginsAdvances DEF Inserts

LEMMA VaultArrives ==
    ASSUME TypeInv, NoRecord \in Record, NEW w \in Workers, ArriveVault(w)
    PROVE  Advances(w, VaultRequest) /\ VaultTypeOK'
<1>1. VaultTypeOK
  BY DEF TypeInv, TypeOK
<1>2. ASSUME NEW x \in Records, NEW table \in Tables, NEW s \in Secrets, CreateRecord(w, x, table, s)
      PROVE  Advances(w, VaultRequest) /\ VaultTypeOK'
  BY <1>1, <1>2, InsertsAdvances DEF CreateRecord, VaultTypeOK, vaultVars
<1>3. ASSUME NEW x \in Records, NEW s \in Secrets, UploadDocument(w, x, s)
      PROVE  Advances(w, VaultRequest) /\ VaultTypeOK'
  BY <1>1, <1>3, InsertsAdvances DEF UploadDocument, PutObject, VaultTypeOK, Tables
<1>4. ASSUME NEW x \in Records, NEW set \in RecordUpdate \cup RecordDelete, ChangeRecord(w, x, set)
      PROVE  Advances(w, VaultRequest) /\ VaultTypeOK'
  <2>1. [kind |-> "change", record |-> x, seen |-> records[x], set |-> set] \in VaultRequest
    BY <1>1 DEF VaultRequest, VaultTypeOK
  <2>2. QED
    BY <1>1, <1>4, <2>1, BeginsAdvances DEF ChangeRecord, VaultTypeOK, vaultVars
<1>5. ASSUME NEW x \in Records, ViewItem(w, x)
      PROVE  Advances(w, VaultRequest) /\ VaultTypeOK'
  <2>1. [kind |-> "view", record |-> x] \in VaultRequest
    BY DEF VaultRequest
  <2>2. QED
    BY <1>1, <1>5, <2>1, BeginsAdvances DEF ViewItem, VaultTypeOK, vaultVars
<1>6. QED
  BY <1>2, <1>3, <1>4, <1>5 DEF ArriveVault

LEMMA VaultWorks ==
    ASSUME TypeInv, NEW w \in Workers, WorkVault(w)
    PROVE  Advances(w, VaultRequest) /\ VaultTypeOK'
<1>1. VaultTypeOK
  BY DEF TypeInv, TypeOK
<1>2. ~Free(w) /\ req[w].kind \in VaultKinds
  BY DEF WorkVault, CommitRecord, CommitChange, CommitView, VaultKinds
<1>3. req[w] \in VaultRequest
  BY <1>2, Handled, KindsTell
<1>4. req[w].record \in Records
  BY <1>3, VaultFields
<1>5. Advances(w, VaultRequest)
  BY AnswersAdvances DEF WorkVault, CommitRecord, CommitChange, CommitView
<1>6. ASSUME NEW action \in AuditAction, Logs(req[w].record, action)
      PROVE  log' \in [Records -> SUBSET AuditAction]
  BY <1>1, <1>4, <1>6 DEF Logs, VaultTypeOK
<1>7. CASE CommitRecord(w)
  <2>1. req[w].new \in Record /\ req[w].new.secret \in Secrets
    BY <1>3, <1>7, VaultFields DEF CommitRecord, Record
  <2>2. log' \in [Records -> SUBSET AuditAction]
    BY <1>1, <1>6, <1>7 DEF CommitRecord, AuditAction, VaultTypeOK
  <2>3. QED
    BY <1>1, <1>4, <1>5, <1>7, <2>1, <2>2 DEF CommitRecord, VaultTypeOK
<1>8. CASE CommitChange(w)
  <2>1. req[w].seen \in Record /\ req[w].set \in RecordUpdate \cup RecordDelete
    BY <1>3, <1>8, VaultFields DEF CommitChange
  <2>2. Encrypted(records[req[w].record], req[w].seen, req[w].set) \in Record
    BY <1>1, <1>4, <2>1, UpdatedRecord DEF VaultTypeOK
  <2>3. log' \in [Records -> SUBSET AuditAction]
    BY <1>6, <1>8 DEF CommitChange, Changed, AuditAction
  <2>4. req[w].set.secret \in Secrets \cup {Keep}
    BY <2>1 DEF RecordUpdate, RecordDelete
  <2>5. QED
    BY <1>1, <1>4, <1>5, <1>8, <2>2, <2>3, <2>4 DEF CommitChange, VaultTypeOK
<1>9. CASE CommitView(w)
  BY <1>1, <1>5, <1>6, <1>9 DEF CommitView, VaultTypeOK, AuditAction
<1>10. QED
  BY <1>7, <1>8, <1>9 DEF WorkVault

-----------------------------------------------------------------------------
(* Legacy notes                                                            *)

LEMMA LegacyFields ==
    ASSUME NEW q \in LegacyRequest
    PROVE  /\ q.kind = "letter" => q.letter \in LegacyNotes /\ q.new \in LegacyNote
           /\ q.kind = "edit_letter" => /\ q.letter \in LegacyNotes /\ q.seen \in LegacyNote
                                        /\ q.set \in LegacyBody
           /\ q.kind = "memory" => q.memory \in Memories
BY DEF LegacyRequest

LEMMA UpdatedLetter ==
    ASSUME NEW stored \in LegacyNote, NEW seen \in LegacyNote, NEW set \in LegacyBody
    PROVE  Encrypted(stored, seen, set) \in LegacyNote
<1>1. Updated(stored, seen, set) \in LegacyNote
  BY DEF LegacyNote, LegacyNoteStatus, LegacyBody, Updated, Flushed, Edited
<1>2. set.secret \in Secrets \cup {Keep}
  BY DEF LegacyBody
<1>3. QED
  BY <1>1, <1>2 DEF Encrypted, LegacyNote

LEMMA LegacyArrives ==
    ASSUME TypeInv, NEW w \in Workers, ArriveLegacy(w)
    PROVE  Advances(w, LegacyRequest) /\ UNCHANGED legacyVars
<1>1. LegacyTypeOK
  BY DEF TypeInv, TypeOK
<1>2. ASSUME NEW x \in LegacyNotes, NEW h \in Heirs \cup {NoOne},
             NEW t \in Releases \cup {NoRelease}, NEW s \in Secrets, CreateNote(w, x, h, t, s)
      PROVE  Advances(w, LegacyRequest) /\ UNCHANGED legacyVars
  <2> DEFINE n == [status |-> IF t = NoRelease THEN "draft" ELSE "scheduled",
                   release |-> t, heir |-> h, secret |-> s, deleted |-> FALSE]
  <2>1. n \in LegacyNote
    BY DEF LegacyNote, LegacyNoteStatus
  <2>2. [kind |-> "letter", letter |-> x, new |-> n] \in LegacyRequest
    BY <2>1 DEF LegacyRequest
  <2>3. QED
    BY <1>2, <2>2, BeginsAdvances DEF CreateNote
<1>3. ASSUME NEW x \in LegacyNotes, NEW set \in LegacyBody, EditNote(w, x, set)
      PROVE  Advances(w, LegacyRequest) /\ UNCHANGED legacyVars
  <2>1. [kind |-> "edit_letter", letter |-> x, seen |-> letters[x], set |-> set] \in LegacyRequest
    BY <1>1 DEF LegacyRequest, LegacyTypeOK
  <2>2. QED
    BY <1>3, <2>1, BeginsAdvances DEF EditNote
<1>4. ASSUME NEW m \in Memories, CreateMemory(w, m)
      PROVE  Advances(w, LegacyRequest) /\ UNCHANGED legacyVars
  <2>1. [kind |-> "memory", memory |-> m] \in LegacyRequest
    BY DEF LegacyRequest
  <2>2. QED
    BY <1>4, <2>1, BeginsAdvances DEF CreateMemory
<1>5. \A s \in Secrets \cup {Keep}, t \in Releases \cup {Keep} :
        LegacyNoteUpdate(s, t) \in LegacyBody
  BY DEF LegacyNoteUpdate, LegacyBody
<1>6. LegacyNoteDelete \in LegacyBody
  BY DEF LegacyNoteDelete, LegacyBody
<1>7. QED
  BY <1>2, <1>3, <1>4, <1>5, <1>6 DEF ArriveLegacy

LEMMA LegacyWorks ==
    ASSUME TypeInv, NEW w \in Workers, WorkLegacy(w)
    PROVE  Advances(w, LegacyRequest) /\ LegacyTypeOK'
<1>1. LegacyTypeOK
  BY DEF TypeInv, TypeOK
<1>2. ~Free(w) /\ req[w].kind \in LegacyKinds
  BY DEF WorkLegacy, CommitNote, CommitMemory, LegacyKinds
<1>3. req[w] \in LegacyRequest
  BY <1>2, Handled, KindsTell
<1>4. Advances(w, LegacyRequest)
  BY AnswersAdvances DEF WorkLegacy, CommitNote, CommitMemory
<1>5. CASE CommitNote(w)
  <2>1. CASE req[w].kind = "letter"
    BY <1>1, <1>3, <1>4, <1>5, <2>1, LegacyFields DEF CommitNote, LegacyTypeOK
  <2>2. CASE req[w].kind = "edit_letter"
    <3>1. Encrypted(letters[req[w].letter], req[w].seen, req[w].set) \in LegacyNote
      BY <1>1, <1>3, <2>2, LegacyFields, UpdatedLetter DEF LegacyTypeOK
    <3>2. QED
      BY <1>1, <1>3, <1>4, <1>5, <2>2, <3>1, LegacyFields DEF CommitNote, LegacyTypeOK
  <2>3. QED
    BY <1>5, <2>1, <2>2 DEF CommitNote
<1>6. CASE CommitMemory(w)
  BY <1>1, <1>3, <1>4, <1>6, LegacyFields DEF CommitMemory, LegacyTypeOK
<1>7. QED
  BY <1>5, <1>6 DEF WorkLegacy

-----------------------------------------------------------------------------
(* The succession report                                                   *)

LEMMA SuccessionFields ==
    ASSUME NEW q \in SuccessionRequest
    PROVE  /\ q.kind = "generate" => q.assets \in AssetSummaries
           /\ q.kind = "generated" => q.assets \in AssetSummaries /\ q.distribution \in Distributions
           /\ q.kind = "share" => q.seen \in Report /\ q.set \in ShareBody
BY DEF SuccessionRequest

LEMMA Summaries ==
    ASSUME TypeInv
    PROVE  AssetSummary \in AssetSummaries /\ Distribution \in Distributions
<1>1. AssetSummary \in AssetSummaries
  <2>1. Listed("assets") \in SUBSET Records
    BY DEF Listed
  <2>2. AssetSummary \in [Listed("assets") -> Secrets \X Plains]
    BY DEF TypeInv, TypeOK, VaultTypeOK, Record, AssetSummary, Listed
  <2>3. QED
    BY <2>1, <2>2 DEF AssetSummaries
<1>2. Distribution \in Distributions
  <2>1. Living \in SUBSET Heirs
    BY DEF Living
  <2>2. Distribution \in [Living -> Percents]
    BY DEF TypeInv, TypeOK, HeirsTypeOK, Heir, Distribution, Living
  <2>3. QED
    BY <2>1, <2>2 DEF Distributions
<1>3. QED
  BY <1>1, <1>2

LEMMA UpdatedReport ==
    ASSUME NEW stored \in Report, NEW seen \in Report, NEW set \in ShareBody
    PROVE  Updated(stored, seen, set) \in Report
<1> HIDE DEF AssetSummaries, Distributions
<1>1. QED
  BY DEF Report, SuccessionReportStatus, ShareBody, Updated, Flushed, Edited

LEMMA SuccessionArrives ==
    ASSUME TypeInv, NEW w \in Workers, ArriveSuccession(w)
    PROVE  Advances(w, SuccessionRequest) /\ SuccessionTypeOK'
<1>1. SuccessionTypeOK
  BY DEF TypeInv, TypeOK
<1>2. CASE Generate(w)
  <2>1. [kind |-> "generate", assets |-> AssetSummary] \in SuccessionRequest
    BY Summaries DEF SuccessionRequest
  <2>2. QED
    BY <1>1, <1>2, <2>1, BeginsAdvances DEF Generate, SuccessionTypeOK, reportVars
<1>3. ASSUME NEW token \in Tokens, Share(w, token)
      PROVE  Advances(w, SuccessionRequest) /\ SuccessionTypeOK'
  <2> DEFINE body == [status |-> "verified_released", assets |-> Keep,
                      distribution |-> Keep, token |-> token]
  <2>1. body \in ShareBody
    BY DEF ShareBody
  <2>2. [kind |-> "share", seen |-> report, set |-> body] \in SuccessionRequest
    BY <1>1, <2>1 DEF SuccessionRequest, SuccessionTypeOK
  <2>3. QED
    BY <1>1, <1>3, <2>2, BeginsAdvances DEF Share, SuccessionTypeOK
<1>4. QED
  BY <1>2, <1>3 DEF ArriveSuccession

LEMMA SuccessionWorks ==
    ASSUME TypeInv, NEW w \in Workers, WorkSuccession(w)
    PROVE  Advances(w, SuccessionRequest) /\ SuccessionTypeOK'
<1>1. SuccessionTypeOK
  BY DEF TypeInv, TypeOK
<1>2. ~Free(w) /\ req[w].kind \in SuccessionKinds
  BY DEF WorkSuccession, ReadDistribution, CommitReport, RefuseReport, CommitShare, SuccessionKinds
<1>3. req[w] \in SuccessionRequest
  BY <1>2, Handled, KindsTell
<1>4. CASE ReadDistribution(w)
  <2>1. [kind |-> "generated", assets |-> req[w].assets, distribution |-> Distribution]
          \in SuccessionRequest
    BY <1>3, <1>4, SuccessionFields, Summaries DEF ReadDistribution, SuccessionRequest
  <2>2. QED
    BY <1>1, <1>4, <2>1, ContinuesAdvances
    DEF ReadDistribution, SuccessionTypeOK, reportVars
<1>5. CASE CommitReport(w)
  <2>1. [status |-> "draft", assets |-> req[w].assets,
         distribution |-> req[w].distribution, token |-> NoToken] \in Report
    BY <1>3, <1>5, SuccessionFields DEF CommitReport, Report, SuccessionReportStatus
  <2>2. QED
    BY <1>1, <1>5, <2>1, AnswersAdvances DEF CommitReport, SuccessionTypeOK
<1>6. CASE RefuseReport(w)
  BY <1>1, <1>6, AnswersAdvances DEF RefuseReport, SuccessionTypeOK, reportVars
<1>7. CASE CommitShare(w)
  <2>1. Updated(report, req[w].seen, req[w].set) \in Report
    BY <1>1, <1>3, <1>7, SuccessionFields, UpdatedReport DEF CommitShare, SuccessionTypeOK
  <2>2. QED
    BY <1>1, <1>7, <2>1, AnswersAdvances DEF CommitShare, SuccessionTypeOK
<1>8. QED
  BY <1>4, <1>5, <1>6, <1>7 DEF WorkSuccession

-----------------------------------------------------------------------------
(* The user                                                                *)

Chosen == UNION {[D -> BOOLEAN] : D \in SUBSET Categories}

LEMMA UserFields ==
    ASSUME NEW q \in UserRequest
    PROVE  /\ q.kind = "user" => /\ q.seen \in User /\ q.set \in UserBody
                                 /\ q.chosen \in Chosen /\ q.consumes \in SUBSET Codes
           /\ q.kind = "code" => q.code \in Codes
BY DEF UserRequest, Chosen

\* User and UserBody with preferences of any type.
UserOf(P) == [name: Names, biometric: BOOLEAN, preferences: P, mfa: BOOLEAN,
              secret: MfaSecrets \cup {NoSecret}, verified: BOOLEAN]

BodyOf(P) == [name: Names \cup {Keep}, biometric: BOOLEAN \cup {Keep}, preferences: P \cup {Keep},
              mfa: {TRUE, Keep}, secret: MfaSecrets \cup {Keep}, verified: {TRUE, Keep}]

LEMMA UpdatedFields ==
    ASSUME NEW P, NEW stored \in UserOf(P), NEW seen \in UserOf(P), NEW set \in BodyOf(P)
    PROVE  Updated(stored, seen, set) \in UserOf(P)
<1> USE DEF UserOf, BodyOf
<1> DEFINE u == Updated(stored, seen, set)
           fields == {"name", "biometric", "preferences", "mfa", "secret", "verified"}
<1>1. DOMAIN stored = fields /\ DOMAIN seen = fields
  OBVIOUS
<1>2. /\ u = [c \in fields |-> u[c]]
      /\ \A c \in fields : u[c] = stored[c] \/ u[c] = seen[c] \/ (u[c] = set[c] /\ set[c] # Keep)
  BY <1>1 DEF Updated, Flushed, Edited
<1> HIDE DEF u
<1>3. u.name \in Names /\ u.secret \in MfaSecrets \cup {NoSecret} /\ u.preferences \in P
  BY <1>2
<1>4. u.biometric \in BOOLEAN
  BY <1>2
<1>5. u.mfa \in BOOLEAN /\ u.verified \in BOOLEAN
  BY <1>2
<1>6. u \in UserOf(P)
  BY <1>2, <1>3, <1>4, <1>5
<1>7. QED
  BY <1>6 DEF u

LEMMA UpdatedUser ==
    ASSUME NEW stored \in User, NEW seen \in User, NEW set \in UserBody
    PROVE  Updated(stored, seen, set) \in User
<1>1. User = UserOf([Categories -> BOOLEAN]) /\ UserBody = BodyOf([Categories -> BOOLEAN])
  BY DEF User, UserBody, UserOf, BodyOf
<1>2. QED
  BY <1>1, UpdatedFields

LEMMA ArrivesAdvances ==
    ASSUME TypeInv, NEW w \in Workers, NEW set \in UserBody, NEW chosen \in Chosen,
           NEW consumes \in SUBSET Codes, Arrives(w, set, chosen, consumes)
    PROVE  Advances(w, UserRequest)
<1>1. user \in User
  BY DEF TypeInv, TypeOK, ProfileTypeOK
<1>2. [kind |-> "user", seen |-> user, set |-> set, chosen |-> chosen, consumes |-> consumes]
        \in UserRequest
  BY <1>1 DEF UserRequest, Chosen
<1>3. QED
  BY <1>2, BeginsAdvances DEF Arrives

\* The bodies, as update_profile and its neighbours make them.
LEMMA Bodies ==
    /\ \A name \in Names : [Nothing EXCEPT !.name = name] \in UserBody
    /\ \A on \in BOOLEAN : [Nothing EXCEPT !.biometric = on] \in UserBody
    /\ \A p \in [Categories -> BOOLEAN] : [Nothing EXCEPT !.preferences = p] \in UserBody
    /\ \A secret \in MfaSecrets : [Nothing EXCEPT !.secret = secret] \in UserBody
    /\ [Nothing EXCEPT !.mfa = TRUE] \in UserBody
    /\ [Nothing EXCEPT !.verified = TRUE] \in UserBody
<1> DEFINE P == [Categories -> BOOLEAN]
<1>1. Nothing = [name |-> Keep, biometric |-> Keep, preferences |-> Keep, mfa |-> Keep,
                 secret |-> Keep, verified |-> Keep]
  BY DEF Nothing, NewUser
<1>2. UserBody = [name: Names \cup {Keep}, biometric: BOOLEAN \cup {Keep}, preferences: P \cup {Keep},
                  mfa: {TRUE, Keep}, secret: MfaSecrets \cup {Keep}, verified: {TRUE, Keep}]
  BY DEF UserBody
<1> HIDE DEF P
<1>3. \A p \in P : [Nothing EXCEPT !.preferences = p] \in UserBody
  BY <1>1, <1>2
<1>4. QED
  BY <1>1, <1>2, <1>3 DEF P

LEMMA ProfileArrives ==
    ASSUME TypeInv, NEW w \in Workers, ArriveProfile(w)
    PROVE  Advances(w, UserRequest) /\ ProfileTypeOK'
<1>1. ProfileTypeOK
  BY DEF TypeInv, TypeOK
<1>2. <<>> \in Chosen
  <2>1. <<>> \in [{} -> BOOLEAN]
    OBVIOUS
  <2>2. QED
    BY <2>1 DEF Chosen
<1>3. CASE \/ \E name \in Names : UpdateProfile(w, name)
           \/ \E on \in BOOLEAN : UpdateSecuritySettings(w, on)
  <2>1. PICK set \in UserBody : Arrives(w, set, <<>>, {})
    <3>1. CASE \E name \in Names : UpdateProfile(w, name)
      BY <3>1, Bodies DEF UpdateProfile
    <3>2. CASE \E on \in BOOLEAN : UpdateSecuritySettings(w, on)
      BY <3>2, Bodies DEF UpdateSecuritySettings
    <3>3. QED
      BY <1>3, <3>1, <3>2
  <2>2. UNCHANGED userVars
    BY <1>3 DEF UpdateProfile, UpdateSecuritySettings
  <2>3. QED
    BY <1>1, <1>2, <2>1, <2>2, ArrivesAdvances DEF userVars, ProfileTypeOK
<1>4. ASSUME NEW D \in SUBSET Categories, NEW chosen \in [D -> BOOLEAN], UpdatePreferences(w, chosen)
      PROVE  Advances(w, UserRequest) /\ ProfileTypeOK'
  <2>1. Merged(chosen) \in [Categories -> BOOLEAN]
    BY <1>1 DEF Merged, ProfileTypeOK, User
  <2>2. chosen \in Chosen
    BY DEF Chosen
  <2>3. QED
    BY <1>1, <1>4, <2>1, <2>2, Bodies, ArrivesAdvances
    DEF UpdatePreferences, userVars, ProfileTypeOK
<1>5. ASSUME NEW secret \in MfaSecrets, SetupMfa(w, secret)
      PROVE  Advances(w, UserRequest) /\ ProfileTypeOK'
  BY <1>1, <1>2, <1>5, Bodies, ArrivesAdvances DEF SetupMfa, ProfileTypeOK
<1>6. CASE VerifyMfa(w)
  BY <1>1, <1>2, <1>6, Bodies, ArrivesAdvances DEF VerifyMfa, userVars, ProfileTypeOK
<1>7. ASSUME NEW k \in Codes, SendCode(w, k)
      PROVE  Advances(w, UserRequest) /\ ProfileTypeOK'
  <2>1. [kind |-> "code", code |-> k] \in UserRequest
    BY DEF UserRequest
  <2>2. QED
    BY <1>1, <1>7, <2>1, BeginsAdvances DEF SendCode, userVars, ProfileTypeOK
<1>8. ASSUME NEW k \in Codes, ConfirmEmail(w, k)
      PROVE  Advances(w, UserRequest) /\ ProfileTypeOK'
  BY <1>1, <1>2, <1>8, Bodies, ArrivesAdvances DEF ConfirmEmail, userVars, ProfileTypeOK
<1>9. CASE GoogleSignIn(w)
  BY <1>1, <1>2, <1>9, Bodies, ArrivesAdvances DEF GoogleSignIn, ProfileTypeOK
<1>10. QED
  BY <1>3, <1>4, <1>5, <1>6, <1>7, <1>8, <1>9 DEF ArriveProfile

LEMMA ProfileWorks ==
    ASSUME TypeInv, NEW w \in Workers, WorkProfile(w)
    PROVE  Advances(w, UserRequest) /\ ProfileTypeOK'
<1>1. ProfileTypeOK
  BY DEF TypeInv, TypeOK
<1>2. ~Free(w) /\ req[w].kind \in UserKinds
  BY DEF WorkProfile, CommitUser, CommitCode, UserKinds
<1>3. req[w] \in UserRequest
  BY <1>2, Handled, KindsTell
<1>4. Advances(w, UserRequest)
  BY AnswersAdvances DEF WorkProfile, CommitUser, CommitCode
<1>5. CASE CommitUser(w)
  <2>1. /\ req[w].seen \in User /\ req[w].set \in UserBody
        /\ req[w].chosen \in Chosen /\ req[w].consumes \in SUBSET Codes
    BY <1>3, <1>5, UserFields DEF CommitUser
  <2>2. user' \in User
    BY <1>1, <1>5, <2>1, UpdatedUser DEF CommitUser, ProfileTypeOK
  <2>3. codes' \in [Codes -> {"none", "active", "consumed"}]
    BY <1>1, <1>5 DEF CommitUser, ProfileTypeOK
  <2>4. \A c \in DOMAIN req[w].chosen : req[w].chosen[c] \in BOOLEAN
    BY <2>1 DEF Chosen
  <2>5. wanted' \in [Categories -> BOOLEAN]
    BY <1>1, <1>5, <2>4 DEF CommitUser, ProfileTypeOK
  <2>6. QED
    BY <1>1, <1>4, <1>5, <2>2, <2>3, <2>5 DEF CommitUser, ProfileTypeOK
<1>6. CASE CommitCode(w)
  BY <1>1, <1>4, <1>6 DEF CommitCode, ProfileTypeOK
<1>7. QED
  BY <1>5, <1>6 DEF WorkProfile

-----------------------------------------------------------------------------
(* All of them                                                             *)

LEMMA TypeInit == Init => TypeInv /\ NoRecord \in Record
<1> SUFFICES ASSUME Init
             PROVE  TypeInv /\ NoRecord \in Record
  OBVIOUS
<1> USE DEF Init
<1>1. NoRecord \in Record
  BY RecordAssumption DEF NoRecord, Record
<1>2. HeirsTypeOK
  BY LimitAssumption, PercentAssumption DEF HeirsInit, HeirsTypeOK, NoHeir, Heir, PlanTier
<1>3. InheritanceTypeOK
  BY AccessAssumption
  DEF InheritanceInit, InheritanceTypeOK, NoRule, Rule, NoAccess, Access, AccessRequestStatus
<1>4. VaultTypeOK
  BY <1>1 DEF VaultInit, VaultTypeOK, Record
<1>5. LegacyTypeOK
  BY <1>1 DEF LegacyInit, LegacyTypeOK, NoLetter, LegacyNote, LegacyNoteStatus, Record
<1>6. SuccessionTypeOK
  <2>1. <<>> \in AssetSummaries
    <3>1. <<>> \in [{} -> Secrets \X Plains]
      OBVIOUS
    <3>2. QED
      BY <3>1 DEF AssetSummaries
  <2>2. <<>> \in Distributions
    <3>1. <<>> \in [{} -> Percents]
      OBVIOUS
    <3>2. QED
      BY <3>1 DEF Distributions
  <2>3. NoReport \in Report
    BY <2>1, <2>2 DEF NoReport, Report, SuccessionReportStatus
  <2>4. QED
    BY <2>3 DEF SuccessionInit, SuccessionTypeOK
<1>7. ProfileTypeOK
  <2>1. NewUser \in User
    BY ProfileAssumption DEF NewUser, User
  <2>2. QED
    BY <2>1 DEF ProfileInit, ProfileTypeOK, User
<1>8. QED
  BY <1>1, <1>2, <1>3, <1>4, <1>5, <1>6, <1>7, LoadAssumption
  DEF TypeInv, TypeOK, RequestsInit, Free
\* Next, of one worker.
Step(w) ==
    \/ /\ ArriveHeir(w) \/ WorkHeir(w)
       /\ UNCHANGED <<inhVars, vaultVars, legacyVars, reportVars, userVars>>
    \/ /\ ArriveInheritance(w) \/ WorkInheritance(w)
       /\ UNCHANGED <<vaultVars, legacyVars, reportVars, userVars>>
    \/ /\ ArriveVault(w) \/ WorkVault(w)
       /\ UNCHANGED <<heirVars, inhVars, legacyVars, reportVars, userVars>>
    \/ /\ ArriveLegacy(w) \/ WorkLegacy(w)
       /\ UNCHANGED <<heirVars, inhVars, vaultVars, reportVars, userVars>>
    \/ /\ ArriveSuccession(w) \/ WorkSuccession(w)
       /\ UNCHANGED <<heirVars, inhVars, vaultVars, legacyVars, userVars>>
    \/ /\ ArriveProfile(w) \/ WorkProfile(w)
       /\ UNCHANGED <<heirVars, inhVars, vaultVars, legacyVars, reportVars>>
    \/ Rollback(w)

LEMMA NextSteps == Next => \E w \in Workers : Step(w)
BY DEF Next, Step

LEMMA TypeNext == TypeInv /\ NoRecord \in Record /\ [Next]_vars => TypeInv'
<1> SUFFICES ASSUME TypeInv, NoRecord \in Record, [Next]_vars
             PROVE  TypeInv'
  OBVIOUS
<1>1. /\ HeirsTypeOK /\ InheritanceTypeOK /\ VaultTypeOK
      /\ LegacyTypeOK /\ SuccessionTypeOK /\ ProfileTypeOK
  BY DEF TypeInv, TypeOK
<1> DEFINE TablesOK == /\ HeirsTypeOK /\ InheritanceTypeOK /\ VaultTypeOK
                       /\ LegacyTypeOK /\ SuccessionTypeOK /\ ProfileTypeOK
<1>2. /\ UNCHANGED heirVars => HeirsTypeOK'
      /\ UNCHANGED inhVars => InheritanceTypeOK'
      /\ UNCHANGED vaultVars => VaultTypeOK'
      /\ UNCHANGED legacyVars => LegacyTypeOK'
      /\ UNCHANGED reportVars => SuccessionTypeOK'
      /\ UNCHANGED userVars => ProfileTypeOK'
  <2>1. UNCHANGED heirVars => HeirsTypeOK'
    BY <1>1 DEF heirVars, HeirsTypeOK
  <2>2. UNCHANGED inhVars => InheritanceTypeOK'
    BY <1>1 DEF inhVars, InheritanceTypeOK
  <2>3. UNCHANGED vaultVars => VaultTypeOK'
    BY <1>1 DEF vaultVars, VaultTypeOK
  <2>4. UNCHANGED legacyVars => LegacyTypeOK'
    BY <1>1 DEF legacyVars, LegacyTypeOK
  <2>5. UNCHANGED reportVars => SuccessionTypeOK'
    BY <1>1 DEF reportVars, SuccessionTypeOK
  <2>6. UNCHANGED userVars => ProfileTypeOK'
    BY <1>1 DEF userVars, ProfileTypeOK
  <2>7. QED
    BY <2>1, <2>2, <2>3, <2>4, <2>5, <2>6
<1>3. ASSUME NEW w \in Workers, NEW S, Advances(w, S), \A r \in S : IsRequest(r), TablesOK'
      PROVE  TypeInv'
  <2>1. ASSUME NEW v \in Workers
        PROVE  Free(v)' \/ IsRequest(req[v])'
    <3>1. CASE v = w
      BY <1>3, <3>1 DEF Advances, Free, IsRequest
    <3>2. CASE v # w
      BY <1>3, <3>2, Handled DEF Advances, Free, IsRequest
    <3>3. QED
      BY <3>1, <3>2
  <2>2. load' \in Loads /\ failures' \in 0 .. MaxFailures /\ DOMAIN req' = Workers
    BY <1>3 DEF TypeInv, TypeOK, Advances
  <2>3. QED
    BY <1>3, <2>1, <2>2 DEF TypeInv, TypeOK, IsRequest
<1>4. CASE Next
  <2>1. PICK w \in Workers : Step(w)
    BY <1>4, NextSteps
  <2>2. CASE /\ ArriveHeir(w) \/ WorkHeir(w)
             /\ UNCHANGED <<inhVars, vaultVars, legacyVars, reportVars, userVars>>
    BY <1>2, <1>3, <2>2, HeirArrives, HeirWorks DEF IsRequest
  <2>3. CASE /\ ArriveInheritance(w) \/ WorkInheritance(w)
             /\ UNCHANGED <<vaultVars, legacyVars, reportVars, userVars>>
    BY <1>2, <1>3, <2>3, InheritanceArrives, InheritanceWorks DEF IsRequest
  <2>4. CASE /\ ArriveVault(w) \/ WorkVault(w)
             /\ UNCHANGED <<heirVars, inhVars, legacyVars, reportVars, userVars>>
    BY <1>2, <1>3, <2>4, VaultArrives, VaultWorks DEF IsRequest
  <2>5. CASE /\ ArriveLegacy(w) \/ WorkLegacy(w)
             /\ UNCHANGED <<heirVars, inhVars, vaultVars, reportVars, userVars>>
    BY <1>2, <1>3, <2>5, LegacyArrives, LegacyWorks DEF IsRequest
  <2>6. CASE /\ ArriveSuccession(w) \/ WorkSuccession(w)
             /\ UNCHANGED <<heirVars, inhVars, vaultVars, legacyVars, userVars>>
    BY <1>2, <1>3, <2>6, SuccessionArrives, SuccessionWorks DEF IsRequest
  <2>7. CASE /\ ArriveProfile(w) \/ WorkProfile(w)
             /\ UNCHANGED <<heirVars, inhVars, vaultVars, legacyVars, reportVars>>
    BY <1>2, <1>3, <2>7, ProfileArrives, ProfileWorks DEF IsRequest
  <2>8. CASE Rollback(w)
    BY <1>2, <1>3, <2>8, DiesAdvances DEF Rollback, IsRequest
  <2>9. QED
    BY <2>1, <2>2, <2>3, <2>4, <2>5, <2>6, <2>7, <2>8 DEF Step
<1>5. CASE UNCHANGED vars
  <2>1. UNCHANGED requestVars /\ TablesOK'
    BY <1>2, <1>5 DEF vars
  <2>2. QED
    BY <2>1 DEF requestVars, TypeInv, TypeOK, Free
<1>6. QED
  BY <1>4, <1>5

LEMMA Typed == Spec => [](TypeInv /\ NoRecord \in Record)
<1>1. NoRecord \in Record
  BY RecordAssumption DEF NoRecord, Record
<1>2. TypeInv /\ [Next]_vars => TypeInv'
  BY <1>1, TypeNext
<1>3. Init => TypeInv
  BY TypeInit
<1>4. QED
  BY <1>1, <1>2, <1>3, PTL DEF Spec

\* Whatever the sets of rows and of workers are, the tables and the requests of the
\* estate stay what the schema and the routes say they are.
THEOREM TypeCorrect == Spec => []TypeOK
<1>1. TypeInv => TypeOK
  BY DEF TypeInv
<1>2. QED
  BY <1>1, Typed, PTL
=============================================================================
