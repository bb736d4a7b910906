------------------------- MODULE EstateSafetyProofs -------------------------
(***************************************************************************)
(* What the records of an estate promise however its requests overlap and  *)
(* die.  Each component has an inductive invariant of its own tables and   *)
(* of the requests that are about them; the steps of the other components  *)
(* leave it alone.                                                         *)
(***************************************************************************)
EXTENDS EstateProofs

Handles(w, kind) == ~Free(w) /\ req[w].kind = kind

\* No request that w handles next is of these kinds.
Spares(w, kinds) == Free(w)' \/ req'[w].kind \notin kinds

LEMMA Others ==
    ASSUME TypeInv, NEW w \in Workers, NEW S, Advances(w, S), NEW v \in Workers, v # w
    PROVE  req'[v] = req[v] /\ (Free(v)' <=> Free(v))
BY DEF Advances, Free

LEMMA Began ==
    ASSUME TypeInv, NEW w \in Workers, NEW r, Continues(w, r)
    PROVE  req'[w] = r /\ \A v \in Workers : v # w => req'[v] = req[v]
BY DEF TypeInv, Continues

LEMMA Ended ==
    ASSUME TypeInv, NEW w \in Workers, Ends(w)
    PROVE  Free(w)' /\ \A v \in Workers : v # w => req'[v] = req[v]
BY DEF TypeInv, Ends, Free

-----------------------------------------------------------------------------
(* Beneficiaries                                                           *)

HeirSafe ==
    /\ MailIsBacked
    /\ \A v \in Workers :
        /\ Handles(v, "create") => heirs[req[v].heir].status = "none"
        /\ Handles(v, "mail") => heirs[req[v].heir].status # "none"
        /\ Handles(v, "edit") => heirs[req[v].heir].status # "none" /\ ~req[v].seen.deleted
    /\ \A u, v \in Workers :
        Handles(u, "create") /\ Handles(v, "create") /\ req[u].heir = req[v].heir => u = v

LEMMA HeirSpared ==
    ASSUME TypeInv, HeirSafe, NEW w \in Workers, NEW S, Advances(w, S), Spares(w, {"create", "edit", "mail"}),
           UNCHANGED heirVars
    PROVE  HeirSafe'
BY Others DEF HeirSafe, MailIsBacked, Handles, Spares, heirVars, Free

LEMMA HeirArrivesSafe ==
    ASSUME TypeInv, HeirSafe, NEW w \in Workers, ArriveHeir(w)
    PROVE  HeirSafe'
<1>1. UNCHANGED heirVars /\ Advances(w, HeirRequest)
  BY HeirArrives
<1>2. \A v \in Workers : v # w => (req'[v] = req[v] /\ (Free(v)' <=> Free(v)))
  BY <1>1, Others
<1>3. CASE \E h \in Heirs, p \in Percents : Create(w, h, p)
  BY <1>1, <1>2, <1>3, Began
  DEF Create, Begins, Creating, HeirSafe, MailIsBacked, Handles, heirVars, Free
<1>4. CASE \E h \in Heirs, set \in HeirUpdate \cup HeirVerify \cup HeirDelete : Edit(w, h, set)
  BY <1>1, <1>2, <1>4, Began
  DEF Edit, Begins, Living, HeirSafe, MailIsBacked, Handles, heirVars, Free
<1>5. CASE \/ \E c \in Contacts : CreateContact(w, c)
           \/ \E p \in PlanTier : ChangePlan(w, p)
  <2>1. Spares(w, {"create", "edit", "mail"})
    <3>1. ASSUME NEW c \in Contacts, CreateContact(w, c)
          PROVE  req'[w].kind = "contact"
      BY <3>1, Began DEF CreateContact, Begins
    <3>2. ASSUME NEW p \in PlanTier, ChangePlan(w, p)
          PROVE  req'[w].kind = "plan"
      BY <3>2, Began DEF ChangePlan, Begins
    <3>3. QED
      BY <1>5, <3>1, <3>2 DEF Spares
  <2>2. QED
    BY <1>1, <2>1, HeirSpared
<1>6. QED
  BY <1>3, <1>4, <1>5 DEF ArriveHeir

LEMMA HeirWorksSafe ==
    ASSUME TypeInv, HeirSafe, NEW w \in Workers, WorkHeir(w)
    PROVE  HeirSafe'
<1>1. Advances(w, HeirRequest) /\ HeirsTypeOK
  BY HeirWorks DEF TypeInv, TypeOK
<1>2. \A v \in Workers : v # w => (req'[v] = req[v] /\ (Free(v)' <=> Free(v)))
  BY <1>1, Others
<1>3. ~Free(w) /\ req[w].kind \in HeirKinds
  BY DEF WorkHeir, CommitCreate, SendMail, CommitEdit, CommitContact, CommitPlan, HeirKinds
<1>4. req[w] \in HeirRequest
  BY <1>3, Handled, KindsTell
<1>5. CASE CommitCreate(w)
  <2>1. req'[w] = [kind |-> "mail", heir |-> req[w].heir]
    BY <1>5, Began DEF CommitCreate
  <2>2. \A h \in Heirs : heirs'[h].status # "none" <=> heirs[h].status # "none" \/ h = req[w].heir
    BY <1>1, <1>4, <1>5, HeirFields DEF CommitCreate, HeirsTypeOK
  <2>3. \A v \in Workers : ~Free(v) /\ req[v].kind \in {"create", "edit", "mail"} => req[v].heir \in Heirs
    BY Handled, KindsTell, HeirFields DEF HeirKinds
  <2>4. req[w].heir \in Heirs
    BY <1>5, <2>3 DEF CommitCreate
  <2>5. QED
    BY <1>1, <1>2, <1>5, <2>1, <2>2, <2>3, <2>4
    DEF CommitCreate, HeirSafe, MailIsBacked, Handles, Free, HeirsTypeOK
<1>6. CASE SendMail(w)
  BY <1>1, <1>2, <1>6, Ended DEF SendMail, Answers, HeirSafe, MailIsBacked, Handles, Free
<1>7. CASE CommitEdit(w)
  <2>1. /\ req[w].heir \in Heirs /\ req[w].seen \in Heir
        /\ req[w].set \in HeirUpdate \cup HeirVerify \cup HeirDelete
    BY <1>4, <1>7, HeirFields DEF CommitEdit
  <2>2. heirs[req[w].heir].status # "none"
    BY <1>7 DEF CommitEdit, HeirSafe, Handles
  <2>3. Updated(heirs[req[w].heir], req[w].seen, req[w].set).status # "none"
    BY <1>1, <2>1, <2>2
    DEF HeirsTypeOK, Heir, HeirUpdate, HeirVerify, HeirDelete, BeneficiaryStatus, Updated, Flushed, Edited
  <2>4. \A h \in Heirs : heirs'[h].status = "none" <=> heirs[h].status = "none"
    BY <1>1, <1>7, <2>1, <2>2, <2>3 DEF CommitEdit, HeirsTypeOK
  <2>5. \A v \in Workers : ~Free(v) /\ req[v].kind \in {"create", "edit", "mail"} => req[v].heir \in Heirs
    BY Handled, KindsTell, HeirFields DEF HeirKinds
  <2>6. QED
    BY <1>1, <1>2, <1>7, <2>4, <2>5, Ended
    DEF CommitEdit, Answers, HeirSafe, MailIsBacked, Handles, Free, HeirsTypeOK
<1>8. CASE CommitContact(w) \/ CommitPlan(w)
  BY <1>1, <1>2, <1>8, Ended
  DEF CommitContact, CommitPlan, Answers, HeirSafe, MailIsBacked, Handles, Free
<1>9. QED
  BY <1>5, <1>6, <1>7, <1>8 DEF WorkHeir
-----------------------------------------------------------------------------
(* Access requests                                                         *)

InheritanceSafe ==
    /\ \A q \in AccessIds :
        /\ access[q].status = "waiting_period" => access[q].release
        /\ access[q].heir = NoOne => ~access[q].release
        /\ q > opened => access[q].heir = NoOne
    /\ \A v \in Workers :
        /\ Handles(v, "open") => req[v].id <= opened /\ access[req[v].id].heir = NoOne
        /\ Handles(v, "decide") =>
            /\ access[req[v].id].heir # NoOne
            /\ req[v].seen.heir # NoOne
            /\ req[v].seen.release => access[req[v].id].release
            /\ req[v].seen.status = "waiting_period" => req[v].seen.release
            /\ req[v].byAdmin => req[v].status # "waiting_period"
    /\ \A u, v \in Workers :
        Handles(u, "open") /\ Handles(v, "open") /\ req[u].id = req[v].id => u = v

LEMMA InheritanceSpared ==
    ASSUME TypeInv, InheritanceSafe, NEW w \in Workers, NEW S, Advances(w, S),
           Spares(w, {"open", "decide"}), UNCHANGED <<access, opened>>
    PROVE  InheritanceSafe'
BY Others DEF InheritanceSafe, Handles, Spares, Free

LEMMA InheritanceArrivesSafe ==
    ASSUME TypeInv, InheritanceSafe, NEW w \in Workers, ArriveInheritance(w)
    PROVE  InheritanceSafe'
<1>1. Advances(w, InheritanceRequest) /\ InheritanceTypeOK
  BY InheritanceArrives DEF TypeInv, TypeOK
<1>2. \A v \in Workers : v # w => (req'[v] = req[v] /\ (Free(v)' <=> Free(v)))
  BY <1>1, Others
<1>3. ASSUME NEW x \in Rules, NEW h \in Heirs, NEW t \in Triggers, CreateRule(w, x, h, t)
      PROVE  InheritanceSafe'
  <2>1. req'[w].kind = "rule" /\ UNCHANGED <<access, opened>>
    BY <1>3, Began DEF CreateRule, Begins, inhVars
  <2>2. QED
    BY <1>1, <2>1, InheritanceSpared DEF Spares
<1>4. ASSUME NEW x \in Rules, NEW set \in RuleUpdate \cup RuleToggle, EditRule(w, x, set)
      PROVE  InheritanceSafe'
  <2>1. req'[w].kind = "edit_rule" /\ UNCHANGED <<access, opened>>
    BY <1>4, Began DEF EditRule, Begins, inhVars
  <2>2. QED
    BY <1>1, <2>1, InheritanceSpared DEF Spares
<1>5. ASSUME NEW h \in Heirs, CreateAccessRequest(w, h)
      PROVE  InheritanceSafe'
  <2>1. req'[w] = [kind |-> "open", heir |-> h, id |-> opened + 1] /\ Free(w)
    BY <1>5, Began DEF CreateAccessRequest, Begins
  <2>2. opened \in Nat /\ opened' = opened + 1 /\ access' = access /\ opened + 1 \in AccessIds
    BY <1>1, <1>5, AccessAssumption DEF CreateAccessRequest, InheritanceTypeOK, AccessIds
  <2>3. \A v \in Workers : Handles(v, "open") \/ Handles(v, "decide") => req[v].id \in AccessIds
    BY Handled, KindsTell, InheritanceFields DEF Handles, InheritanceKinds
  <2>4. \A q \in AccessIds : q \in Nat
    BY DEF AccessIds
  <2>5. QED
    BY <1>2, <2>1, <2>2, <2>3, <2>4 DEF InheritanceSafe, Handles, Free
<1>6. ASSUME NEW q \in AccessIds, NEW status \in AccessRequestStatus, NEW byAdmin, NEW shown,
             byAdmin => status # "waiting_period", Decide(w, q, status, byAdmin, shown)
      PROVE  InheritanceSafe'
  <2>1. /\ req'[w] = [kind |-> "decide", id |-> q, seen |-> access[q], status |-> status,
                      byAdmin |-> byAdmin, shown |-> shown]
        /\ UNCHANGED <<access, opened>>
        /\ access[q].heir # NoOne
    BY <1>6, Began DEF Decide, Begins, inhVars, Opened
  <2>2. QED
    BY <1>2, <1>6, <2>1 DEF InheritanceSafe, Handles, Free
<1>7. QED
  BY <1>3, <1>4, <1>5, <1>6
  DEF ArriveInheritance, UpdateAccessStatus, SetVerificationStatus

LEMMA InheritanceWorksSafe ==
    ASSUME TypeInv, InheritanceSafe, NEW w \in Workers, WorkInheritance(w)
    PROVE  InheritanceSafe'
<1>1. Advances(w, InheritanceRequest) /\ InheritanceTypeOK
  BY InheritanceWorks DEF TypeInv, TypeOK
<1>2. \A v \in Workers : v # w => (req'[v] = req[v] /\ (Free(v)' <=> Free(v)))
  BY <1>1, Others
<1>3. \A v \in Workers : Handles(v, "open") \/ Handles(v, "decide") =>
        req[v].id \in AccessIds /\ req[v] \in InheritanceRequest
  BY Handled, KindsTell, InheritanceFields DEF Handles, InheritanceKinds
<1>4. Free(w)'
  BY Ended DEF WorkInheritance, CommitRule, CommitOpen, CommitDecide, Answers
<1>5. CASE CommitRule(w)
  BY <1>1, <1>4, <1>5, InheritanceSpared DEF CommitRule, Spares
<1>6. CASE CommitOpen(w)
  <2>1. Handles(w, "open") /\ req[w].id \in AccessIds /\ req[w].heir # NoOne /\ opened' = opened
    BY <1>3, <1>6, InheritanceFields, HeirAssumption DEF CommitOpen, Handles
  <2>2. access' = [access EXCEPT ![req[w].id] =
                     [heir |-> req[w].heir, status |-> "identity_verification", release |-> FALSE]]
    BY <1>6 DEF CommitOpen
  <2>3. /\ access'[req[w].id].heir # NoOne
        /\ access'[req[w].id].status # "waiting_period"
        /\ \A q \in AccessIds : q # req[w].id => access'[q] = access[q]
    BY <1>1, <2>1, <2>2 DEF InheritanceTypeOK
  <2>4. \A q \in AccessIds : q \in Nat
    BY DEF AccessIds
  <2>5. opened \in Nat
    BY <1>1, AccessAssumption DEF InheritanceTypeOK
  <2>6. \A q \in AccessIds :
          /\ access'[q].status = "waiting_period" => access'[q].release
          /\ access'[q].heir = NoOne => ~access'[q].release
          /\ q > opened' => access'[q].heir = NoOne
    BY <2>1, <2>3, <2>4, <2>5 DEF InheritanceSafe
  <2>7. ASSUME NEW v \in Workers, Handles(v, "open")'
        PROVE  /\ req'[v].id <= opened'
               /\ access'[req'[v].id].heir = NoOne
    <3>1. v # w /\ Handles(v, "open") /\ req'[v] = req[v]
      BY <1>2, <1>4, <2>7 DEF Handles
    <3>2. req[v].id # req[w].id
      BY <2>1, <3>1 DEF InheritanceSafe
    <3>3. QED
      BY <1>3, <2>1, <2>3, <3>1, <3>2 DEF InheritanceSafe
  <2>8. ASSUME NEW v \in Workers, Handles(v, "decide")'
        PROVE  /\ access'[req'[v].id].heir # NoOne
               /\ req'[v].seen.heir # NoOne
               /\ req'[v].seen.release => access'[req'[v].id].release
               /\ req'[v].seen.status = "waiting_period" => req'[v].seen.release
               /\ req'[v].byAdmin => req'[v].status # "waiting_period"
    <3>1. v # w /\ Handles(v, "decide") /\ req'[v] = req[v]
      BY <1>2, <1>4, <2>8 DEF Handles
    <3>2. access[req[w].id].heir = NoOne /\ access[req[v].id].heir # NoOne
      BY <2>1, <3>1 DEF InheritanceSafe
    <3>3. QED
      BY <1>3, <2>3, <3>1, <3>2 DEF InheritanceSafe
  <2>9. \A u, v \in Workers :
          Handles(u, "open")' /\ Handles(v, "open")' /\ req'[u].id = req'[v].id => u = v
    BY <1>2, <1>4 DEF InheritanceSafe, Handles
  <2>10. QED
    BY <2>6, <2>7, <2>8, <2>9 DEF InheritanceSafe
<1>7. CASE CommitDecide(w)
  <2> DEFINE r == req[w]
             new == Flushed(access[r.id], r.seen, DecidedRow(r))
  <2>1. Handles(w, "decide") /\ r.id \in AccessIds /\ opened' = opened
    BY <1>3, <1>7 DEF CommitDecide, Handles
  <2>2. r.seen \in Access /\ r.status \in AccessRequestStatus /\ r.byAdmin \in BOOLEAN
    BY <1>3, <2>1, InheritanceFields DEF Handles
  <2>3. access[r.id] \in Access
    BY <1>1, <2>1 DEF InheritanceTypeOK
  <2>4. DecidedRow(r) \in Access /\ DecidedRow(r).heir = r.seen.heir
    BY <2>2 DEF DecidedRow, Access
  <2>5. DecidedRow(r).status = r.status
    BY <2>2 DEF DecidedRow, Access
  <2>6. DecidedRow(r).release <=> r.seen.release \/ (~r.byAdmin /\ r.status = "waiting_period")
    BY <2>2 DEF DecidedRow, Access
  <2>7. new.heir = access[r.id].heir
    BY <2>2, <2>3, <2>4 DEF Flushed, Access
  <2>8. new.status = IF r.status # r.seen.status THEN r.status ELSE access[r.id].status
    BY <2>2, <2>3, <2>4, <2>5 DEF Flushed, Access
  <2>9. access[r.id].release \/ DecidedRow(r).release => new.release
    BY <2>1, <2>2, <2>3, <2>4, <2>6 DEF Flushed, Access, InheritanceSafe
  <2>10. new.status = "waiting_period" => new.release
    BY <2>1, <2>6, <2>8, <2>9 DEF InheritanceSafe
  <2>11. access' = [access EXCEPT ![r.id] = new]
    BY <1>7 DEF CommitDecide
  <2>12. access[r.id].heir # NoOne
    BY <2>1 DEF InheritanceSafe
  <2> HIDE DEF new
  <2>13. access'[r.id] = new /\ \A q \in AccessIds : q # r.id => access'[q] = access[q]
    BY <1>1, <2>1, <2>11 DEF InheritanceTypeOK
  <2>14. \A q \in AccessIds :
           /\ access'[q].heir = access[q].heir
           /\ access[q].release => access'[q].release
           /\ access'[q].status = "waiting_period" => access'[q].release
    BY <2>7, <2>9, <2>10, <2>13 DEF InheritanceSafe
  <2>15. \A q \in AccessIds : access'[q].heir = NoOne => ~access'[q].release
    BY <2>7, <2>12, <2>13 DEF InheritanceSafe
  <2>16. QED
    BY <1>2, <1>3, <1>4, <2>1, <2>14, <2>15 DEF InheritanceSafe, Handles
<1>8. QED
  BY <1>5, <1>6, <1>7 DEF WorkInheritance
-----------------------------------------------------------------------------
(* Vault                                                                   *)

VaultSafe ==
    /\ EncryptedFieldsStand /\ UploadIsBacked /\ AuditAgrees
    /\ \A v \in Workers :
        /\ Handles(v, "record") =>
            /\ records[req[v].record].table = "none" /\ ~records[req[v].record].deleted
            /\ req[v].new.table # "none" /\ ~req[v].new.deleted
            /\ req[v].new.object = "stored" => req[v].record \in objects
        /\ Handles(v, "change") =>
            /\ records[req[v].record].table # "none"
            /\ ~req[v].seen.deleted
        /\ Handles(v, "view") => records[req[v].record].table # "none"
    /\ \A u, v \in Workers :
        Handles(u, "record") /\ Handles(v, "record") /\ req[u].record = req[v].record => u = v
    /\ \A x \in Records : records[x].table = "none" => ~records[x].deleted

LEMMA VaultSpared ==
    ASSUME TypeInv, VaultSafe, NEW w \in Workers, NEW S, Advances(w, S), Spares(w, VaultKinds), UNCHANGED vaultVars
    PROVE  VaultSafe'
BY Others
DEF VaultSafe, EncryptedFieldsStand, UploadIsBacked, AuditAgrees, Handles, Spares, VaultKinds,
    vaultVars, Free

LEMMA InsertsSafe ==
    ASSUME TypeInv, NoRecord \in Record, VaultSafe,
           NEW w \in Workers, NEW x \in Records, NEW table \in Tables,
           NEW secret \in Secrets, NEW object \in {"none", "given", "stored"},
           Inserts(w, x, table, secret, object), UNCHANGED <<records, log, answered>>,
           objects' = objects \/ objects' = objects \cup {x},
           object = "stored" => x \in objects'
    PROVE  VaultSafe'
<1>1. Advances(w, VaultRequest)
  BY InsertsAdvances
<1>2. \A v \in Workers : v # w => (req'[v] = req[v] /\ (Free(v)' <=> Free(v)))
  BY <1>1, Others
<1> DEFINE new == [NoRecord EXCEPT !.table = table, !.secret = secret, !.object = object]
<1>3. req'[w] = [kind |-> "record", record |-> x, new |-> new] /\ Free(w)
  BY Began DEF Inserts, Begins
<1>4. new.table # "none" /\ ~new.deleted /\ new.object = object
  BY DEF NoRecord, Tables
<1> HIDE DEF new
<1>5. records[x].table = "none" /\ \A v \in Workers : Handles(v, "record") => req[v].record # x
  BY DEF Inserts, Handles
<1>6. /\ EncryptedFieldsStand' /\ AuditAgrees'
      /\ \A y \in Records : records'[y].table = "none" => ~records'[y].deleted
  BY DEF VaultSafe, EncryptedFieldsStand, AuditAgrees
<1>7. UploadIsBacked'
  BY DEF VaultSafe, UploadIsBacked
<1>8. QED
  BY <1>2, <1>3, <1>4, <1>5, <1>6, <1>7 DEF VaultSafe, Handles, Free

LEMMA VaultArrivesSafe ==
    ASSUME TypeInv, NoRecord \in Record, VaultSafe, NEW w \in Workers, ArriveVault(w)
    PROVE  VaultSafe'
<1>1. Advances(w, VaultRequest)
  BY VaultArrives
<1>2. \A v \in Workers : v # w => (req'[v] = req[v] /\ (Free(v)' <=> Free(v)))
  BY <1>1, Others
<1>3. ASSUME NEW x \in Records, NEW table \in Tables, NEW s \in Secrets, CreateRecord(w, x, table, s)
      PROVE  VaultSafe'
  BY <1>3, InsertsSafe DEF CreateRecord, vaultVars
<1>4. ASSUME NEW x \in Records, NEW s \in Secrets, UploadDocument(w, x, s)
      PROVE  VaultSafe'
  BY <1>4, InsertsSafe DEF UploadDocument, PutObject, Tables
<1>5. ASSUME NEW x \in Records, NEW set, ChangeRecord(w, x, set)
      PROVE  VaultSafe'
  <2>1. /\ req'[w] = [kind |-> "change", record |-> x, seen |-> records[x], set |-> set]
        /\ records[x].table # "none" /\ ~records[x].deleted
        /\ UNCHANGED vaultVars
    BY <1>5, Began DEF ChangeRecord, Begins, Listed, Tables
  <2>2. QED
    BY <1>2, <2>1
    DEF VaultSafe, EncryptedFieldsStand, UploadIsBacked, AuditAgrees, Handles, Free, vaultVars
<1>6. ASSUME NEW x \in Records, ViewItem(w, x)
      PROVE  VaultSafe'
  <2>1. /\ req'[w] = [kind |-> "view", record |-> x]
        /\ records[x].table # "none"
        /\ UNCHANGED vaultVars
    BY <1>6, Began DEF ViewItem, Begins, Listed
  <2>2. QED
    BY <1>2, <2>1
    DEF VaultSafe, EncryptedFieldsStand, UploadIsBacked, AuditAgrees, Handles, Free, vaultVars
<1>7. QED
  BY <1>3, <1>4, <1>5, <1>6 DEF ArriveVault

\* A change of a row, for its own columns.
LEMMA ChangedRecord ==
    ASSUME NEW stored \in Record, NEW seen \in Record, ~seen.deleted,
           NEW set \in RecordUpdate \cup RecordDelete
    PROVE  /\ Encrypted(stored, seen, set).table = stored.table
           /\ Encrypted(stored, seen, set).object = stored.object
           /\ Encrypted(stored, seen, set).secret = IF set.secret = Keep THEN stored.secret ELSE set.secret
           /\ Encrypted(stored, seen, set).deleted <=> stored.deleted \/ Changed(set) = "deleted"
<1>1. /\ set.table = Keep /\ set.object = Keep
      /\ set.deleted \in {Keep, TRUE}
  BY DEF RecordUpdate, RecordDelete
<1> DEFINE u == Updated(stored, seen, set)
<1>2. /\ u.table = stored.table /\ u.object = stored.object
      /\ set.secret = Keep => u.secret = stored.secret
  BY <1>1 DEF Record, Updated, Flushed, Edited
<1>3. u.deleted <=> stored.deleted \/ Changed(set) = "deleted"
  <2>1. CASE set.deleted = Keep
    BY <2>1 DEF Record, Updated, Flushed, Edited, Changed
  <2>2. CASE set.deleted # Keep
    BY <1>1, <2>2 DEF Record, Updated, Flushed, Edited, Changed
  <2>3. QED
    BY <2>1, <2>2
<1>4. u \in Record
  BY DEF Record, RecordUpdate, RecordDelete, Updated, Flushed, Edited
<1> HIDE DEF u
<1>5. Encrypted(stored, seen, set) =
        [u EXCEPT !.secret = IF set.secret = Keep THEN @ ELSE set.secret]
  BY DEF Encrypted, u
<1>6. QED
  BY <1>2, <1>3, <1>4, <1>5 DEF Record

LEMMA VaultWorksSafe ==
    ASSUME TypeInv, VaultSafe, NEW w \in Workers, WorkVault(w)
    PROVE  VaultSafe'
<1>1. Advances(w, VaultRequest) /\ VaultTypeOK
  BY VaultWorks DEF TypeInv, TypeOK
<1>2. \A v \in Workers : v # w => (req'[v] = req[v] /\ (Free(v)' <=> Free(v)))
  BY <1>1, Others
<1>3. Free(w)' /\ objects' = objects
  BY Ended DEF WorkVault, CommitRecord, CommitChange, CommitView, Answers
<1>4. \A v \in Workers : ~Free(v) /\ req[v].kind \in VaultKinds =>
        req[v] \in VaultRequest /\ req[v].record \in Records
  BY Handled, KindsTell, VaultFields
<1>5. ~Free(w) /\ req[w].kind \in VaultKinds
  BY DEF WorkVault, CommitRecord, CommitChange, CommitView, VaultKinds
<1> DEFINE x == req[w].record
<1>6. x \in Records
  BY <1>4, <1>5
<1> HIDE DEF x
<1>7. ASSUME \A y \in Records : y # x => /\ records'[y] = records[y] /\ log'[y] = log[y]
                                       /\ answered'[y] = answered[y],
             records'[x].secret = answered'[x],
             records'[x].object = "stored" => x \in objects,
             records'[x].table = "items" <=> "created" \in log'[x],
             records'[x].deleted <=> "deleted" \in log'[x],
             records'[x].table # "none",
             records[x].table = "none" => Handles(w, "record") /\ ~records'[x].deleted
      PROVE  VaultSafe'
  <2>1. /\ EncryptedFieldsStand' /\ UploadIsBacked' /\ AuditAgrees'
        /\ \A y \in Records : records'[y].table = "none" => ~records'[y].deleted
    BY <1>3, <1>6, <1>7 DEF VaultSafe, EncryptedFieldsStand, UploadIsBacked, AuditAgrees
  <2>2. ASSUME NEW v \in Workers, Handles(v, "record")'
        PROVE  req'[v] = req[v] /\ Handles(v, "record") /\ req[v].record # x
    <3>1. v # w /\ req'[v] = req[v] /\ Handles(v, "record")
      BY <1>2, <1>3, <2>2 DEF Handles
    <3>2. CASE records[x].table = "none"
      BY <1>7, <3>1, <3>2 DEF VaultSafe, x
    <3>3. CASE records[x].table # "none"
      BY <3>1, <3>3 DEF VaultSafe
    <3>4. QED
      BY <3>1, <3>2, <3>3
  <2>3. ASSUME NEW v \in Workers, Handles(v, "change")' \/ Handles(v, "view")'
        PROVE  /\ req'[v] = req[v] /\ (Handles(v, "change") \/ Handles(v, "view"))
               /\ records'[req[v].record].table # "none"
    <3>1. v # w /\ req'[v] = req[v] /\ (Handles(v, "change") \/ Handles(v, "view"))
      BY <1>2, <1>3, <2>3 DEF Handles
    <3>2. req[v].record \in Records /\ records[req[v].record].table # "none"
      BY <1>4, <3>1 DEF VaultSafe, Handles, VaultKinds
    <3>3. QED
      BY <1>7, <3>1, <3>2
  <2>4. \A v \in Workers : Handles(v, "record") => req[v].record \in Records
    BY <1>4 DEF Handles, VaultKinds
  <2>5. QED
    BY <1>3, <1>7, <2>1, <2>2, <2>3, <2>4 DEF VaultSafe, Handles
<1>8. CASE CommitRecord(w)
  <2>1. /\ Handles(w, "record") /\ req[w].new \in Record
        /\ records[x].table = "none" /\ ~records[x].deleted
        /\ req[w].new.table # "none" /\ ~req[w].new.deleted
        /\ req[w].new.object = "stored" => x \in objects
    BY <1>4, <1>8, VaultFields DEF CommitRecord, Handles, VaultKinds, VaultSafe, x
  <2>2. "created" \notin log[x] /\ "deleted" \notin log[x]
    BY <1>6, <2>1 DEF VaultSafe, AuditAgrees
  <2>3. /\ records' = [records EXCEPT ![x] = req[w].new]
        /\ answered' = [answered EXCEPT ![x] = req[w].new.secret]
        /\ IF req[w].new.table = "items" THEN log' = [log EXCEPT ![x] = @ \cup {"created"}]
           ELSE log' = log
    BY <1>8 DEF CommitRecord, Logs, x
  <2>4. QED
    BY <1>1, <1>6, <1>7, <2>1, <2>2, <2>3 DEF VaultTypeOK
<1>9. CASE CommitChange(w)
  <2>1. /\ Handles(w, "change")
        /\ req[w].seen \in Record /\ req[w].set \in RecordUpdate \cup RecordDelete
        /\ records[x].table # "none" /\ ~req[w].seen.deleted
    BY <1>4, <1>9, VaultFields DEF CommitChange, Handles, VaultKinds, VaultSafe, x
  <2> DEFINE new == Encrypted(records[x], req[w].seen, req[w].set)
  <2>2. records[x] \in Record
    BY <1>1, <1>6 DEF VaultTypeOK
  <2>3. /\ new.table = records[x].table /\ new.object = records[x].object
        /\ new.secret = IF req[w].set.secret = Keep THEN records[x].secret ELSE req[w].set.secret
        /\ new.deleted <=> records[x].deleted \/ Changed(req[w].set) = "deleted"
    BY <2>1, <2>2, ChangedRecord
  <2> HIDE DEF new
  <2>4. /\ records' = [records EXCEPT ![x] = new]
        /\ answered' = [answered EXCEPT ![x] =
                          IF req[w].set.secret = Keep THEN @ ELSE req[w].set.secret]
        /\ log' = [log EXCEPT ![x] = @ \cup {Changed(req[w].set)}]
    BY <1>9 DEF CommitChange, Logs, x, new
  <2>5. Changed(req[w].set) # "created"
    BY DEF Changed
  <2>6. QED
    BY <1>1, <1>6, <1>7, <2>1, <2>3, <2>4, <2>5
    DEF VaultTypeOK, VaultSafe, EncryptedFieldsStand, UploadIsBacked, AuditAgrees
<1>10. CASE CommitView(w)
  <2>1. Handles(w, "view") /\ records[x].table # "none"
    BY <1>10 DEF CommitView, Handles, VaultSafe, x
  <2>2. records' = records /\ answered' = answered /\ log' = [log EXCEPT ![x] = @ \cup {"viewed"}]
    BY <1>10 DEF CommitView, Logs, x
  <2>3. QED
    BY <1>1, <1>6, <1>7, <2>1, <2>2
    DEF VaultTypeOK, VaultSafe, EncryptedFieldsStand, UploadIsBacked, AuditAgrees
<1>11. QED
  BY <1>8, <1>9, <1>10 DEF WorkVault
-----------------------------------------------------------------------------
(* Legacy notes                                                            *)

\* status and release of a note, or of a version of it that was loaded.
Coherent(note) == note.status = "scheduled" <=> note.release # NoRelease

LegacySafe ==
    /\ \A x \in LegacyNotes : Coherent(letters[x])
    /\ \A v \in Workers :
        /\ Handles(v, "letter") =>
            letters[req[v].letter].status = "none" /\ Coherent(req[v].new)
        /\ Handles(v, "edit_letter") =>
            /\ letters[req[v].letter].status # "none"
            /\ Coherent(req[v].seen)
            /\ req[v].seen.status = "scheduled" => letters[req[v].letter].status = "scheduled"
            /\ req[v].set.status = "scheduled" <=> req[v].set.release # Keep
    /\ \A u, v \in Workers :
        Handles(u, "letter") /\ Handles(v, "letter") /\ req[u].letter = req[v].letter => u = v

LEMMA LegacySpared ==
    ASSUME TypeInv, LegacySafe, NEW w \in Workers, NEW S, Advances(w, S), Spares(w, LegacyKinds), UNCHANGED letters
    PROVE  LegacySafe'
BY Others DEF LegacySafe, Coherent, Handles, Spares, LegacyKinds, Free

LEMMA LegacyArrivesSafe ==
    ASSUME TypeInv, LegacySafe, NEW w \in Workers, ArriveLegacy(w)
    PROVE  LegacySafe'
<1>1. Advances(w, LegacyRequest) /\ letters' = letters
  BY LegacyArrives DEF legacyVars
<1>2. \A v \in Workers : v # w => (req'[v] = req[v] /\ (Free(v)' <=> Free(v)))
  BY <1>1, Others
<1>3. ASSUME NEW x \in LegacyNotes, NEW h, NEW t \in Releases \cup {NoRelease}, NEW s,
             CreateNote(w, x, h, t, s)
      PROVE  LegacySafe'
  <2> DEFINE n == [status |-> IF t = NoRelease THEN "draft" ELSE "scheduled",
                   release |-> t, heir |-> h, secret |-> s, deleted |-> FALSE]
  <2>1. /\ req'[w] = [kind |-> "letter", letter |-> x, new |-> n]
        /\ letters[x].status = "none"
        /\ \A v \in Workers : Handles(v, "letter") => req[v].letter # x
    BY <1>3, Began DEF CreateNote, Begins, Handles
  <2>2. Coherent(n)
    BY DEF Coherent
  <2> HIDE DEF n
  <2>3. QED
    BY <1>1, <1>2, <2>1, <2>2 DEF LegacySafe, Coherent, Handles, Free
<1>4. ASSUME NEW x \in LegacyNotes, NEW set, EditNote(w, x, set),
             set.status = "scheduled" <=> set.release # Keep
      PROVE  LegacySafe'
  <2>1. /\ req'[w] = [kind |-> "edit_letter", letter |-> x, seen |-> letters[x], set |-> set]
        /\ letters[x].status # "none"
    BY <1>4, Began DEF EditNote, Begins, Written
  <2>2. QED
    BY <1>1, <1>2, <1>4, <2>1 DEF LegacySafe, Coherent, Handles, Free
<1>5. ASSUME NEW m \in Memories, CreateMemory(w, m)
      PROVE  LegacySafe'
  <2>1. req'[w].kind = "memory"
    BY <1>5, Began DEF CreateMemory, Begins
  <2>2. QED
    BY <1>1, <1>2, <2>1 DEF LegacySafe, Coherent, Handles, Free
<1>6. \A s, t : LegacyNoteUpdate(s, t).status = "scheduled" <=> LegacyNoteUpdate(s, t).release # Keep
  BY ReleaseAssumption DEF LegacyNoteUpdate
<1>7. LegacyNoteDelete.status = "scheduled" <=> LegacyNoteDelete.release # Keep
  BY ReleaseAssumption DEF LegacyNoteDelete
<1>8. QED
  BY <1>3, <1>4, <1>5, <1>6, <1>7 DEF ArriveLegacy

\* An update of a note that was loaded when it had no more than it has now.
LEMMA UpdatedCoherent ==
    ASSUME NEW stored \in LegacyNote, NEW seen \in LegacyNote, NEW set \in LegacyBody,
           Coherent(stored), Coherent(seen),
           seen.status = "scheduled" => stored.status = "scheduled",
           stored.status # "none",
           set.status = "scheduled" <=> set.release # Keep
    PROVE  /\ Coherent(Encrypted(stored, seen, set))
           /\ Encrypted(stored, seen, set).status # "none"
           /\ stored.status = "scheduled" => Encrypted(stored, seen, set).status = "scheduled"
<1> DEFINE u == Updated(stored, seen, set)
<1>1. u.status = stored.status \/ u.status = "scheduled"
  BY DEF LegacyNote, LegacyBody, Updated, Flushed, Edited
<1>2. CASE set.release = Keep
  <2>1. set.status = Keep
    BY <1>2 DEF LegacyBody
  <2>2. u.status = stored.status /\ u.release = stored.release
    BY <1>2, <2>1 DEF LegacyNote, Updated, Flushed, Edited
  <2>3. Coherent(u)
    BY <2>2 DEF Coherent
  <2>4. QED
    BY <1>1, <2>2, <2>3 DEF Encrypted, Coherent, u, Updated, Flushed, LegacyNote
<1>3. CASE set.release # Keep
  <2>1. set.status = "scheduled" /\ set.release \in Releases
    BY <1>3 DEF LegacyBody
  <2>2. u.status = "scheduled"
    BY <2>1, ReleaseAssumption DEF LegacyNote, Updated, Flushed, Edited
  <2>3. u.release # NoRelease
    <3>1. CASE seen.release = set.release
      <4>1. u.release = stored.release
        BY <1>3, <3>1 DEF LegacyNote, Updated, Flushed, Edited
      <4>2. QED
        BY <2>1, <3>1, <4>1, ReleaseAssumption DEF Coherent
    <3>2. CASE seen.release # set.release
      <4>1. u.release = set.release
        BY <1>3, <3>2 DEF LegacyNote, Updated, Flushed, Edited
      <4>2. QED
        BY <2>1, <4>1, ReleaseAssumption
    <3>3. QED
      BY <3>1, <3>2
  <2>4. QED
    BY <2>2, <2>3 DEF Encrypted, Coherent, u, Updated, Flushed, LegacyNote
<1>4. QED
  BY <1>2, <1>3

LEMMA LegacyWorksSafe ==
    ASSUME TypeInv, LegacySafe, NEW w \in Workers, WorkLegacy(w)
    PROVE  LegacySafe'
<1>1. Advances(w, LegacyRequest) /\ LegacyTypeOK
  BY LegacyWorks DEF TypeInv, TypeOK
<1>2. \A v \in Workers : v # w => (req'[v] = req[v] /\ (Free(v)' <=> Free(v)))
  BY <1>1, Others
<1>3. Free(w)'
  BY Ended DEF WorkLegacy, CommitNote, CommitMemory, Answers
<1>4. \A v \in Workers : Handles(v, "letter") \/ Handles(v, "edit_letter") =>
        req[v] \in LegacyRequest /\ req[v].letter \in LegacyNotes
  BY Handled, KindsTell, LegacyFields DEF Handles, LegacyKinds
<1> DEFINE x == req[w].letter
<1>5. ASSUME x \in LegacyNotes, NEW note, letters' = [letters EXCEPT ![x] = note],
             Coherent(note),
             Handles(w, "letter") \/ note.status # "none",
             letters[x].status = "none" => Handles(w, "letter"),
             letters[x].status = "scheduled" => note.status = "scheduled"
      PROVE  LegacySafe'
  <2>1. letters'[x] = note /\ \A y \in LegacyNotes : y # x => letters'[y] = letters[y]
    BY <1>1, <1>5 DEF LegacyTypeOK
  <2>2. \A y \in LegacyNotes : Coherent(letters[y])'
    BY <1>5, <2>1 DEF LegacySafe, Coherent
  <2>3. ASSUME NEW v \in Workers, Handles(v, "letter")'
        PROVE  letters'[req'[v].letter].status = "none" /\ Coherent(req'[v].new)
    <3>1. v # w /\ req'[v] = req[v] /\ Handles(v, "letter")
      BY <1>2, <1>3, <2>3 DEF Handles
    <3>2. req[v].letter # x
      BY <1>5, <3>1 DEF LegacySafe
    <3>3. QED
      BY <1>4, <2>1, <3>1, <3>2 DEF LegacySafe, Coherent
  <2>4. ASSUME NEW v \in Workers, Handles(v, "edit_letter")'
        PROVE  /\ letters'[req'[v].letter].status # "none"
               /\ Coherent(req'[v].seen)
               /\ req'[v].seen.status = "scheduled" => letters'[req'[v].letter].status = "scheduled"
               /\ req'[v].set.status = "scheduled" <=> req'[v].set.release # Keep
    <3>1. v # w /\ req'[v] = req[v] /\ Handles(v, "edit_letter")
      BY <1>2, <1>3, <2>4 DEF Handles
    <3>2. /\ letters[req[v].letter].status # "none"
          /\ Coherent(req[v].seen)
          /\ req[v].seen.status = "scheduled" => letters[req[v].letter].status = "scheduled"
          /\ req[v].set.status = "scheduled" <=> req[v].set.release # Keep
      BY <3>1 DEF LegacySafe
    <3>3. CASE req[v].letter # x
      BY <1>4, <2>1, <3>1, <3>2, <3>3 DEF Coherent
    <3>4. CASE req[v].letter = x
      <4>1. ~Handles(w, "letter")
        BY <3>2, <3>4 DEF LegacySafe
      <4>2. QED
        BY <1>5, <2>1, <3>1, <3>2, <3>4, <4>1 DEF Coherent
    <3>5. QED
      BY <3>3, <3>4
  <2>5. \A u, v \in Workers :
          Handles(u, "letter")' /\ Handles(v, "letter")' /\ req'[u].letter = req'[v].letter => u = v
    BY <1>2, <1>3 DEF LegacySafe, Handles
  <2> HIDE DEF x
  <2>6. QED
    BY <2>2, <2>3, <2>4, <2>5 DEF LegacySafe, Coherent
<1>6. CASE CommitNote(w)
  <2>1. CASE req[w].kind = "letter"
    <3>1. Handles(w, "letter") /\ letters' = [letters EXCEPT ![x] = req[w].new]
      BY <1>6, <2>1 DEF CommitNote, Handles
    <3>2. QED
      BY <1>4, <1>5, <3>1 DEF LegacySafe
  <2>2. CASE req[w].kind = "edit_letter"
    <3>1. Handles(w, "edit_letter") /\ x \in LegacyNotes
      BY <1>4, <1>6, <2>2 DEF CommitNote, Handles
    <3>2. letters' = [letters EXCEPT ![x] = Encrypted(letters[x], req[w].seen, req[w].set)]
      BY <1>6, <2>2 DEF CommitNote
    <3>3. /\ req[w].seen \in LegacyNote /\ req[w].set \in LegacyBody
          /\ letters[x] \in LegacyNote
      BY <1>1, <1>4, <3>1, LegacyFields DEF LegacyTypeOK, Handles
    <3>4. /\ Coherent(letters[x]) /\ Coherent(req[w].seen)
          /\ req[w].seen.status = "scheduled" => letters[x].status = "scheduled"
          /\ letters[x].status # "none"
          /\ req[w].set.status = "scheduled" <=> req[w].set.release # Keep
      BY <3>1 DEF LegacySafe
    <3> DEFINE note == Encrypted(letters[x], req[w].seen, req[w].set)
    <3>5. /\ Coherent(note) /\ note.status # "none"
          /\ letters[x].status = "scheduled" => note.status = "scheduled"
      BY <3>3, <3>4, UpdatedCoherent
    <3> HIDE DEF note, x
    <3>6. QED
      BY <1>5, <3>1, <3>2, <3>4, <3>5 DEF note
  <2>3. QED
    BY <1>6, <2>1, <2>2 DEF CommitNote
<1>7. CASE CommitMemory(w)
  BY <1>1, <1>3, <1>7, LegacySpared DEF CommitMemory, Spares
<1>8. QED
  BY <1>6, <1>7 DEF WorkLegacy
-----------------------------------------------------------------------------
(* The user                                                                *)

ProfileSafe ==
    /\ EnabledIsBacked
    /\ \A v \in Workers :
        /\ Handles(v, "code") => codes[req[v].code] = "none"
        /\ Handles(v, "user") =>
            /\ req[v].seen.secret # NoSecret => user.secret # NoSecret
            /\ req[v].set.mfa # Keep => req[v].seen.secret # NoSecret
            /\ req[v].set.verified # Keep => vouched \/ req[v].consumes # {}
            /\ \A k \in req[v].consumes : codes[k] # "none"
    /\ \A u, v \in Workers :
        Handles(u, "code") /\ Handles(v, "code") /\ req[u].code = req[v].code => u = v

LEMMA ProfileSpared ==
    ASSUME TypeInv, ProfileSafe, NEW w \in Workers, NEW S, Advances(w, S), Spares(w, UserKinds), UNCHANGED userVars
    PROVE  ProfileSafe'
BY Others DEF ProfileSafe, EnabledIsBacked, Handles, Spares, UserKinds, userVars, Free

\* The columns that the bodies name.
LEMMA BodyColumns ==
    /\ \A name : /\ [Nothing EXCEPT !.name = name].mfa = Keep
                 /\ [Nothing EXCEPT !.name = name].verified = Keep
    /\ \A on : /\ [Nothing EXCEPT !.biometric = on].mfa = Keep
               /\ [Nothing EXCEPT !.biometric = on].verified = Keep
    /\ \A p : /\ [Nothing EXCEPT !.preferences = p].mfa = Keep
              /\ [Nothing EXCEPT !.preferences = p].verified = Keep
    /\ \A secret : /\ [Nothing EXCEPT !.secret = secret].mfa = Keep
                   /\ [Nothing EXCEPT !.secret = secret].verified = Keep
    /\ [Nothing EXCEPT !.mfa = TRUE].verified = Keep
    /\ [Nothing EXCEPT !.verified = TRUE].mfa = Keep
BY DEF Nothing, NewUser

LEMMA ArrivesSafe ==
    ASSUME TypeInv, ProfileSafe, NEW w \in Workers, NEW set, NEW chosen, NEW consumes \in SUBSET Codes,
           Arrives(w, set, chosen, consumes), Advances(w, UserRequest),
           UNCHANGED <<user, codes>>, vouched => vouched',
           set.mfa # Keep => user.secret # NoSecret,
           set.verified # Keep => vouched' \/ consumes # {},
           \A k \in consumes : codes[k] # "none"
    PROVE  ProfileSafe'
<1>1. \A v \in Workers : v # w => (req'[v] = req[v] /\ (Free(v)' <=> Free(v)))
  BY Others
<1>2. req'[w] = [kind |-> "user", seen |-> user, set |-> set, chosen |-> chosen, consumes |-> consumes]
  BY Began DEF Arrives, Begins
<1>3. EnabledIsBacked'
  BY DEF ProfileSafe, EnabledIsBacked
<1>4. QED
  BY <1>1, <1>2, <1>3 DEF ProfileSafe, Handles, Free

LEMMA ProfileArrivesSafe ==
    ASSUME TypeInv, ProfileSafe, NEW w \in Workers, ArriveProfile(w)
    PROVE  ProfileSafe'
<1>1. Advances(w, UserRequest)
  BY ProfileArrives
<1>2. ASSUME NEW name, UpdateProfile(w, name)
      PROVE  ProfileSafe'
  <2> DEFINE set == [Nothing EXCEPT !.name = name]
  <2>1. set.mfa = Keep /\ set.verified = Keep
    BY BodyColumns
  <2>2. /\ Arrives(w, set, <<>>, {})
        /\ UNCHANGED <<user, codes>> /\ (vouched => vouched')
    BY <1>2 DEF UpdateProfile, userVars
  <2> HIDE DEF set
  <2>3. QED
    BY <1>1, <2>1, <2>2, ArrivesSafe
<1>3. ASSUME NEW on, UpdateSecuritySettings(w, on)
      PROVE  ProfileSafe'
  <2> DEFINE set == [Nothing EXCEPT !.biometric = on]
  <2>1. set.mfa = Keep /\ set.verified = Keep
    BY BodyColumns
  <2>2. /\ Arrives(w, set, <<>>, {})
        /\ UNCHANGED <<user, codes>> /\ (vouched => vouched')
    BY <1>3 DEF UpdateSecuritySettings, userVars
  <2> HIDE DEF set
  <2>3. QED
    BY <1>1, <2>1, <2>2, ArrivesSafe
<1>4. ASSUME NEW chosen, UpdatePreferences(w, chosen)
      PROVE  ProfileSafe'
  <2> DEFINE set == [Nothing EXCEPT !.preferences = Merged(chosen)]
  <2>1. set.mfa = Keep /\ set.verified = Keep
    BY BodyColumns
  <2>2. /\ Arrives(w, set, chosen, {})
        /\ UNCHANGED <<user, codes>> /\ (vouched => vouched')
    BY <1>4 DEF UpdatePreferences, userVars
  <2> HIDE DEF set
  <2>3. QED
    BY <1>1, <2>1, <2>2, ArrivesSafe
<1>5. ASSUME NEW secret, SetupMfa(w, secret)
      PROVE  ProfileSafe'
  <2> DEFINE set == [Nothing EXCEPT !.secret = secret]
  <2>1. set.mfa = Keep /\ set.verified = Keep
    BY BodyColumns
  <2>2. /\ Arrives(w, set, <<>>, {})
        /\ UNCHANGED <<user, codes>> /\ (vouched => vouched')
    BY <1>5 DEF SetupMfa
  <2> HIDE DEF set
  <2>3. QED
    BY <1>1, <2>1, <2>2, ArrivesSafe
<1>6. CASE VerifyMfa(w)
  <2> DEFINE set == [Nothing EXCEPT !.mfa = TRUE]
  <2>1. set.verified = Keep
    BY BodyColumns
  <2>2. /\ Arrives(w, set, <<>>, {})
        /\ UNCHANGED <<user, codes>> /\ (vouched => vouched')
        /\ user.secret # NoSecret
    BY <1>6 DEF VerifyMfa, userVars
  <2> HIDE DEF set
  <2>3. QED
    BY <1>1, <2>1, <2>2, ArrivesSafe
<1>7. ASSUME NEW k \in Codes, SendCode(w, k)
      PROVE  ProfileSafe'
  <2>1. /\ req'[w] = [kind |-> "code", code |-> k] /\ codes[k] = "none" /\ UNCHANGED userVars
        /\ \A v \in Workers : Handles(v, "code") => req[v].code # k
    BY <1>7, Began DEF SendCode, Begins, Handles
  <2>2. \A v \in Workers : v # w => (req'[v] = req[v] /\ (Free(v)' <=> Free(v)))
    BY <1>1, Others
  <2>3. QED
    BY <2>1, <2>2 DEF ProfileSafe, EnabledIsBacked, Handles, Free, userVars
<1>8. ASSUME NEW k \in Codes, ConfirmEmail(w, k)
      PROVE  ProfileSafe'
  <2> DEFINE set == [Nothing EXCEPT !.verified = TRUE]
  <2>1. set.mfa = Keep
    BY BodyColumns
  <2>2. /\ Arrives(w, set, <<>>, {k})
        /\ UNCHANGED <<user, codes>> /\ (vouched => vouched')
        /\ codes[k] # "none"
    BY <1>8 DEF ConfirmEmail, userVars
  <2> HIDE DEF set
  <2>3. QED
    BY <1>1, <2>1, <2>2, ArrivesSafe
<1>9. CASE GoogleSignIn(w)
  <2> DEFINE set == [Nothing EXCEPT !.verified = TRUE]
  <2>1. set.mfa = Keep
    BY BodyColumns
  <2>2. /\ Arrives(w, set, <<>>, {})
        /\ UNCHANGED <<user, codes>> /\ (vouched => vouched')
        /\ vouched'
    BY <1>9 DEF GoogleSignIn
  <2> HIDE DEF set
  <2>3. QED
    BY <1>1, <2>1, <2>2, ArrivesSafe
<1>10. QED
  BY <1>2, <1>3, <1>4, <1>5, <1>6, <1>7, <1>8, <1>9 DEF ArriveProfile

LEMMA ProfileWorksSafe ==
    ASSUME TypeInv, ProfileSafe, NEW w \in Workers, WorkProfile(w)
    PROVE  ProfileSafe'
<1>1. Advances(w, UserRequest) /\ ProfileTypeOK
  BY ProfileWorks DEF TypeInv, TypeOK
<1>2. \A v \in Workers : v # w => (req'[v] = req[v] /\ (Free(v)' <=> Free(v)))
  BY <1>1, Others
<1>3. Free(w)' /\ vouched' = vouched
  BY Ended DEF WorkProfile, CommitUser, CommitCode, Answers
<1>4. \A v \in Workers : Handles(v, "user") \/ Handles(v, "code") => req[v] \in UserRequest
  BY Handled, KindsTell DEF Handles, UserKinds
<1>5. CASE CommitUser(w)
  <2> DEFINE r == req[w]
  <2>1. Handles(w, "user") /\ r.seen \in User /\ r.set \in UserBody /\ r.consumes \in SUBSET Codes
    BY <1>4, <1>5, UserFields DEF CommitUser, Handles
  <2>2. /\ r.seen.secret # NoSecret => user.secret # NoSecret
        /\ r.set.mfa # Keep => r.seen.secret # NoSecret
        /\ r.set.verified # Keep => vouched \/ r.consumes # {}
        /\ \A k \in r.consumes : codes[k] # "none"
    BY <2>1 DEF ProfileSafe
  <2>3. user \in User /\ user' = Updated(user, r.seen, r.set)
    BY <1>1, <1>5 DEF CommitUser, ProfileTypeOK
  <2>4. user'.secret = user.secret \/ (user'.secret = r.set.secret /\ r.set.secret \in MfaSecrets)
    BY <2>1, <2>3 DEF User, UserBody, Updated, Flushed, Edited
  <2>5. user'.mfa = user.mfa \/ r.set.mfa # Keep
    BY <2>1, <2>3 DEF User, UserBody, Updated, Flushed, Edited
  <2>6. user'.verified = user.verified \/ r.set.verified # Keep
    BY <2>1, <2>3 DEF User, UserBody, Updated, Flushed, Edited
  <2>7. user.secret # NoSecret => user'.secret # NoSecret
    BY <2>4, ProfileAssumption
  <2>8. \A k \in Codes : codes'[k] = IF k \in r.consumes THEN "consumed" ELSE codes[k]
    BY <1>5 DEF CommitUser
  <2>9. user'.mfa => user'.secret # NoSecret
    BY <2>2, <2>5, <2>7 DEF ProfileSafe, EnabledIsBacked
  <2>10. user'.verified => vouched \/ \E k \in Codes : codes'[k] = "consumed"
    BY <2>1, <2>2, <2>6, <2>8 DEF ProfileSafe, EnabledIsBacked
  <2>11. EnabledIsBacked'
    BY <1>3, <2>9, <2>10 DEF EnabledIsBacked
  <2>12. ASSUME NEW v \in Workers, Handles(v, "code")'
         PROVE  codes'[req'[v].code] = "none"
    <3>1. v # w /\ req'[v] = req[v] /\ Handles(v, "code")
      BY <1>2, <1>3, <2>12 DEF Handles
    <3>2. req[v].code \in Codes /\ codes[req[v].code] = "none"
      BY <1>4, <3>1, UserFields DEF Handles, ProfileSafe
    <3>3. QED
      BY <2>2, <2>8, <3>1, <3>2
  <2>13. ASSUME NEW v \in Workers, Handles(v, "user")'
         PROVE  /\ req'[v].seen.secret # NoSecret => user'.secret # NoSecret
                /\ req'[v].set.mfa # Keep => req'[v].seen.secret # NoSecret
                /\ req'[v].set.verified # Keep => vouched' \/ req'[v].consumes # {}
                /\ \A k \in req'[v].consumes : codes'[k] # "none"
    <3>1. v # w /\ req'[v] = req[v] /\ Handles(v, "user")
      BY <1>2, <1>3, <2>13 DEF Handles
    <3>2. req[v].consumes \in SUBSET Codes
      BY <1>4, <3>1, UserFields DEF Handles
    <3>3. QED
      BY <1>3, <2>7, <2>8, <3>1, <3>2 DEF ProfileSafe
  <2>14. \A u, v \in Workers :
           Handles(u, "code")' /\ Handles(v, "code")' /\ req'[u].code = req'[v].code => u = v
    BY <1>2, <1>3 DEF ProfileSafe, Handles
  <2>15. QED
    BY <2>11, <2>12, <2>13, <2>14 DEF ProfileSafe
<1>6. CASE CommitCode(w)
  <2>1. Handles(w, "code") /\ req[w].code \in Codes /\ user' = user
    BY <1>4, <1>6, UserFields DEF CommitCode, Handles
  <2>2. codes' = [codes EXCEPT ![req[w].code] = "active"]
    BY <1>6 DEF CommitCode
  <2>3. codes[req[w].code] = "none"
    BY <2>1 DEF ProfileSafe
  <2>4. \A k \in Codes : codes'[k] = IF k = req[w].code THEN "active" ELSE codes[k]
    BY <1>1, <2>1, <2>2 DEF ProfileTypeOK
  <2>5. EnabledIsBacked'
    BY <1>3, <2>1, <2>3, <2>4 DEF ProfileSafe, EnabledIsBacked
  <2>6. \A v \in Workers :
          /\ Handles(v, "code") => req[v].code \in Codes
          /\ Handles(v, "user") => req[v].consumes \in SUBSET Codes
    BY <1>4, UserFields DEF Handles
  <2>7. QED
    BY <1>2, <1>3, <2>1, <2>4, <2>5, <2>6 DEF ProfileSafe, Handles
<1>7. QED
  BY <1>5, <1>6 DEF WorkProfile
-----------------------------------------------------------------------------
(* The succession report                                                   *)

Shared(r) == r.status = "verified_released" <=> r.token # NoToken

SuccessionSafe ==
    /\ Shared(report)
    /\ \A v \in Workers : Handles(v, "share") =>
        /\ report.status # "none"
        /\ req[v].seen.status # "none"
        /\ Shared(req[v].seen)
        /\ req[v].seen.status = "verified_released" => report.status = "verified_released"

Frozen ==
    report.status # "none" =>
        /\ report'.assets = report.assets /\ report'.distribution = report.distribution
        /\ report.token # NoToken => report'.token # NoToken
        /\ report'.status = "verified_released" <=> report'.token # NoToken

LEMMA SuccessionSpared ==
    ASSUME TypeInv, SuccessionSafe, NEW w \in Workers, NEW S, Advances(w, S), Spares(w, {"share"}), UNCHANGED report
    PROVE  SuccessionSafe' /\ Frozen
BY Others DEF SuccessionSafe, Shared, Frozen, Handles, Spares, Free

LEMMA SuccessionArrivesSafe ==
    ASSUME TypeInv, SuccessionSafe, NEW w \in Workers, ArriveSuccession(w)
    PROVE  SuccessionSafe' /\ Frozen
<1>1. Advances(w, SuccessionRequest)
  BY SuccessionArrives
<1>2. \A v \in Workers : v # w => (req'[v] = req[v] /\ (Free(v)' <=> Free(v)))
  BY <1>1, Others
<1>3. CASE Generate(w)
  <2>1. req'[w].kind = "generate" /\ report' = report
    BY <1>3, Began DEF Generate, Begins, reportVars
  <2>2. QED
    BY <1>1, <2>1, SuccessionSpared DEF Spares
<1>4. ASSUME NEW token \in Tokens, Share(w, token)
      PROVE  SuccessionSafe' /\ Frozen
  <2>1. /\ req'[w].kind = "share" /\ req'[w].seen = report
        /\ report' = report /\ report.status # "none"
    BY <1>4, Began DEF Share, Begins
  <2>2. QED
    BY <1>2, <2>1 DEF SuccessionSafe, Shared, Frozen, Handles, Free
<1>5. QED
  BY <1>3, <1>4 DEF ArriveSuccession

LEMMA SharedReport ==
    ASSUME NEW stored \in Report, NEW seen \in Report, NEW set \in ShareBody,
           Shared(stored), Shared(seen),
           seen.status = "verified_released" => stored.status = "verified_released"
    PROVE  /\ Updated(stored, seen, set).status = "verified_released"
           /\ Updated(stored, seen, set).token # NoToken
           /\ Updated(stored, seen, set).assets = stored.assets
           /\ Updated(stored, seen, set).distribution = stored.distribution
<1>1. /\ set.status = "verified_released" /\ set.assets = Keep /\ set.distribution = Keep
      /\ set.token \in Tokens
  BY DEF ShareBody
<1>2. /\ DOMAIN stored = {"status", "assets", "distribution", "token"}
      /\ DOMAIN seen = {"status", "assets", "distribution", "token"}
  BY DEF Report
<1> DEFINE u == Updated(stored, seen, set)
<1>3. u.assets = stored.assets /\ u.distribution = stored.distribution
  BY <1>1, <1>2 DEF Updated, Flushed, Edited
<1>4. u.status = "verified_released"
  BY <1>1, <1>2, TokenAssumption DEF Updated, Flushed, Edited
<1>5. u.token = IF set.token # seen.token THEN set.token ELSE stored.token
  BY <1>1, <1>2, TokenAssumption DEF Updated, Flushed, Edited
<1>6. u.token # NoToken
  BY <1>1, <1>5, TokenAssumption DEF Shared
<1>7. QED
  BY <1>3, <1>4, <1>6

LEMMA SuccessionWorksSafe ==
    ASSUME TypeInv, SuccessionSafe, NEW w \in Workers, WorkSuccession(w)
    PROVE  SuccessionSafe' /\ Frozen
<1>1. Advances(w, SuccessionRequest) /\ SuccessionTypeOK
  BY SuccessionWorks DEF TypeInv, TypeOK
<1>2. \A v \in Workers : v # w => (req'[v] = req[v] /\ (Free(v)' <=> Free(v)))
  BY <1>1, Others
<1>3. CASE ReadDistribution(w)
  <2>1. req'[w].kind = "generated" /\ report' = report
    BY <1>3, Began DEF ReadDistribution, reportVars
  <2>2. QED
    BY <1>1, <2>1, SuccessionSpared DEF Spares
<1>4. CASE RefuseReport(w)
  <2>1. Free(w)' /\ report' = report
    BY <1>4, Ended DEF RefuseReport, Answers, reportVars
  <2>2. QED
    BY <1>1, <2>1, SuccessionSpared DEF Spares
<1>5. CASE CommitReport(w)
  <2>1. /\ Free(w)' /\ report.status = "none"
        /\ report'.status = "draft" /\ report'.token = NoToken
    BY <1>5, Ended DEF CommitReport, ReferenceTaken, Answers
  <2>2. QED
    BY <1>2, <2>1 DEF SuccessionSafe, Shared, Frozen, Handles
<1>6. CASE CommitShare(w)
  <2>1. Free(w)' /\ Handles(w, "share") /\ report' = Updated(report, req[w].seen, req[w].set)
    BY <1>6, Ended DEF CommitShare, Answers, Handles
  <2>2. req[w].seen \in Report /\ req[w].set \in ShareBody /\ report \in Report
    BY <1>1, <2>1, Handled, KindsTell, SuccessionFields
    DEF Handles, SuccessionKinds, SuccessionTypeOK
  <2>3. /\ report'.status = "verified_released" /\ report'.token # NoToken
        /\ report'.assets = report.assets /\ report'.distribution = report.distribution
    BY <2>1, <2>2, SharedReport DEF SuccessionSafe
  <2>4. QED
    BY <1>2, <2>1, <2>3 DEF SuccessionSafe, Shared, Frozen, Handles
<1>7. QED
  BY <1>3, <1>4, <1>5, <1>6 DEF WorkSuccession

-----------------------------------------------------------------------------
(* All of them                                                             *)

SafeInv ==
    /\ TypeInv
    /\ HeirSafe /\ InheritanceSafe /\ VaultSafe
    /\ LegacySafe /\ SuccessionSafe /\ ProfileSafe

LEMMA SafeInit == Init => SafeInv
<1> SUFFICES ASSUME Init
             PROVE  SafeInv
  OBVIOUS
<1> USE DEF Init, RequestsInit, Handles, Free
<1>1. TypeInv
  BY TypeInit
<1>2. HeirSafe
  BY DEF HeirsInit, HeirSafe, MailIsBacked
<1>3. InheritanceSafe
  BY DEF InheritanceInit, InheritanceSafe, NoAccess
<1>4. VaultSafe
  BY DEF VaultInit, VaultSafe, EncryptedFieldsStand, UploadIsBacked, AuditAgrees, NoRecord
<1>5. LegacySafe
  BY DEF LegacyInit, LegacySafe, Coherent, NoLetter
<1>6. SuccessionSafe
  BY DEF SuccessionInit, SuccessionSafe, Shared, NoReport
<1>7. ProfileSafe
  BY DEF ProfileInit, ProfileSafe, EnabledIsBacked, NewUser
<1>8. QED
  BY <1>1, <1>2, <1>3, <1>4, <1>5, <1>6, <1>7 DEF SafeInv

\* Requests of one component leave those of the others alone.
LEMMA NextKinds ==
    ASSUME TypeInv, NEW w \in Workers
    PROVE  /\ Advances(w, HeirRequest) => Free(w)' \/ req'[w].kind \in HeirKinds
           /\ Advances(w, InheritanceRequest) => Free(w)' \/ req'[w].kind \in InheritanceKinds
           /\ Advances(w, VaultRequest) => Free(w)' \/ req'[w].kind \in VaultKinds
           /\ Advances(w, LegacyRequest) => Free(w)' \/ req'[w].kind \in LegacyKinds
           /\ Advances(w, SuccessionRequest) => Free(w)' \/ req'[w].kind \in SuccessionKinds
           /\ Advances(w, UserRequest) => Free(w)' \/ req'[w].kind \in UserKinds
<1>1. \A r : /\ r \in HeirRequest => r.kind \in HeirKinds
             /\ r \in InheritanceRequest => r.kind \in InheritanceKinds
             /\ r \in VaultRequest => r.kind \in VaultKinds
             /\ r \in LegacyRequest => r.kind \in LegacyKinds
             /\ r \in SuccessionRequest => r.kind \in SuccessionKinds
             /\ r \in UserRequest => r.kind \in UserKinds
  BY KindsTell DEF IsRequest
<1>2. QED
  BY <1>1 DEF Advances, Free

\* A step that leaves the tables of a component alone, and gives w no request about
\* them, keeps its invariant.
LEMMA AllSpared ==
    ASSUME SafeInv, NEW w \in Workers, NEW S, Advances(w, S)
    PROVE  /\ Spares(w, HeirKinds) /\ UNCHANGED heirVars => HeirSafe'
           /\ Spares(w, InheritanceKinds) /\ UNCHANGED inhVars => InheritanceSafe'
           /\ Spares(w, VaultKinds) /\ UNCHANGED vaultVars => VaultSafe'
           /\ Spares(w, LegacyKinds) /\ UNCHANGED legacyVars => LegacySafe'
           /\ Spares(w, SuccessionKinds) /\ UNCHANGED reportVars => SuccessionSafe' /\ Frozen
           /\ Spares(w, UserKinds) /\ UNCHANGED userVars => ProfileSafe'
<1> USE DEF SafeInv
<1>1. Spares(w, HeirKinds) => Spares(w, {"create", "edit", "mail"})
  BY DEF Spares, HeirKinds
<1>2. Spares(w, InheritanceKinds) => Spares(w, {"open", "decide"})
  BY DEF Spares, InheritanceKinds
<1>3. Spares(w, SuccessionKinds) => Spares(w, {"share"})
  BY DEF Spares, SuccessionKinds
<1>4. Spares(w, HeirKinds) /\ UNCHANGED heirVars => HeirSafe'
  BY <1>1, HeirSpared
<1>5. Spares(w, InheritanceKinds) /\ UNCHANGED inhVars => InheritanceSafe'
  BY <1>2, InheritanceSpared DEF inhVars
<1>6. Spares(w, VaultKinds) /\ UNCHANGED vaultVars => VaultSafe'
  BY VaultSpared
<1>7. Spares(w, LegacyKinds) /\ UNCHANGED legacyVars => LegacySafe'
  BY LegacySpared DEF legacyVars
<1>8. Spares(w, SuccessionKinds) /\ UNCHANGED reportVars => SuccessionSafe' /\ Frozen
  BY <1>3, SuccessionSpared DEF reportVars
<1>9. Spares(w, UserKinds) /\ UNCHANGED userVars => ProfileSafe'
  BY ProfileSpared
<1>10. QED
  BY <1>4, <1>5, <1>6, <1>7, <1>8, <1>9

LEMMA SafeNext ==
    ASSUME SafeInv, NoRecord \in Record, [Next]_vars
    PROVE  SafeInv' /\ Frozen
<1>1. TypeInv /\ TypeInv'
  BY TypeNext DEF SafeInv
<1>2. CASE Next
  <2>1. PICK w \in Workers : Step(w)
    BY <1>2, NextSteps
  <2>2. /\ HeirSafe /\ InheritanceSafe /\ VaultSafe
        /\ LegacySafe /\ SuccessionSafe /\ ProfileSafe
    BY DEF SafeInv
  <2>3. CASE /\ ArriveHeir(w) \/ WorkHeir(w)
             /\ UNCHANGED <<inhVars, vaultVars, legacyVars, reportVars, userVars>>
    <3>1. Advances(w, HeirRequest)
      BY <1>1, <2>3, HeirArrives, HeirWorks
    <3>2. /\ Spares(w, InheritanceKinds) /\ Spares(w, VaultKinds) /\ Spares(w, LegacyKinds)
          /\ Spares(w, SuccessionKinds) /\ Spares(w, UserKinds)
      BY <1>1, <3>1, NextKinds
      DEF Spares, HeirKinds, InheritanceKinds, VaultKinds, LegacyKinds, SuccessionKinds, UserKinds
    <3>3. HeirSafe'
      BY <1>1, <2>2, <2>3, HeirArrivesSafe, HeirWorksSafe
    <3>4. QED
      BY <1>1, <2>3, <3>1, <3>2, <3>3, AllSpared DEF SafeInv
  <2>4. CASE /\ ArriveInheritance(w) \/ WorkInheritance(w)
             /\ UNCHANGED <<vaultVars, legacyVars, reportVars, userVars>>
    <3>1. Advances(w, InheritanceRequest)
      BY <1>1, <2>4, InheritanceArrives, InheritanceWorks
    <3>2. /\ Spares(w, HeirKinds) /\ Spares(w, VaultKinds) /\ Spares(w, LegacyKinds)
          /\ Spares(w, SuccessionKinds) /\ Spares(w, UserKinds)
      BY <1>1, <3>1, NextKinds
      DEF Spares, HeirKinds, InheritanceKinds, VaultKinds, LegacyKinds, SuccessionKinds, UserKinds
    <3>3. UNCHANGED heirVars
      BY <2>4 DEF ArriveInheritance, CreateRule, EditRule, CreateAccessRequest, UpdateAccessStatus,
                  SetVerificationStatus, Decide, WorkInheritance, CommitRule, CommitOpen, CommitDecide
    <3>4. InheritanceSafe'
      BY <1>1, <2>2, <2>4, InheritanceArrivesSafe, InheritanceWorksSafe
    <3>5. QED
      BY <1>1, <2>4, <3>1, <3>2, <3>3, <3>4, AllSpared DEF SafeInv
  <2>5. CASE /\ ArriveVault(w) \/ WorkVault(w)
             /\ UNCHANGED <<heirVars, inhVars, legacyVars, reportVars, userVars>>
    <3>1. Advances(w, VaultRequest)
      BY <1>1, <2>5, VaultArrives, VaultWorks
    <3>2. /\ Spares(w, HeirKinds) /\ Spares(w, InheritanceKinds) /\ Spares(w, LegacyKinds)
          /\ Spares(w, SuccessionKinds) /\ Spares(w, UserKinds)
      BY <1>1, <3>1, NextKinds
      DEF Spares, HeirKinds, InheritanceKinds, VaultKinds, LegacyKinds, SuccessionKinds, UserKinds
    <3>3. VaultSafe'
      BY <1>1, <2>2, <2>5, VaultArrivesSafe, VaultWorksSafe
    <3>4. QED
      BY <1>1, <2>5, <3>1, <3>2, <3>3, AllSpared DEF SafeInv
  <2>6. CASE /\ ArriveLegacy(w) \/ WorkLegacy(w)
             /\ UNCHANGED <<heirVars, inhVars, vaultVars, reportVars, userVars>>
    <3>1. Advances(w, LegacyRequest)
      BY <1>1, <2>6, LegacyArrives, LegacyWorks
    <3>2. /\ Spares(w, HeirKinds) /\ Spares(w, InheritanceKinds) /\ Spares(w, VaultKinds)
          /\ Spares(w, SuccessionKinds) /\ Spares(w, UserKinds)
      BY <1>1, <3>1, NextKinds
      DEF Spares, HeirKinds, InheritanceKinds, VaultKinds, LegacyKinds, SuccessionKinds, UserKinds
    <3>3. LegacySafe'
      BY <1>1, <2>2, <2>6, LegacyArrivesSafe, LegacyWorksSafe
    <3>4. QED
      BY <1>1, <2>6, <3>1, <3>2, <3>3, AllSpared DEF SafeInv
  <2>7. CASE /\ ArriveSuccession(w) \/ WorkSuccession(w)
             /\ UNCHANGED <<heirVars, inhVars, vaultVars, legacyVars, userVars>>
    <3>1. Advances(w, SuccessionRequest)
      BY <1>1, <2>7, SuccessionArrives, SuccessionWorks
    <3>2. /\ Spares(w, HeirKinds) /\ Spares(w, InheritanceKinds) /\ Spares(w, VaultKinds)
          /\ Spares(w, LegacyKinds) /\ Spares(w, UserKinds)
      BY <1>1, <3>1, NextKinds
      DEF Spares, HeirKinds, InheritanceKinds, VaultKinds, LegacyKinds, SuccessionKinds, UserKinds
    <3>3. SuccessionSafe' /\ Frozen
      BY <1>1, <2>2, <2>7, SuccessionArrivesSafe, SuccessionWorksSafe
    <3>4. QED
      BY <1>1, <2>7, <3>1, <3>2, <3>3, AllSpared DEF SafeInv
  <2>8. CASE /\ ArriveProfile(w) \/ WorkProfile(w)
             /\ UNCHANGED <<heirVars, inhVars, vaultVars, legacyVars, reportVars>>
    <3>1. Advances(w, UserRequest)
      BY <1>1, <2>8, ProfileArrives, ProfileWorks
    <3>2. /\ Spares(w, HeirKinds) /\ Spares(w, InheritanceKinds) /\ Spares(w, VaultKinds)
          /\ Spares(w, LegacyKinds) /\ Spares(w, SuccessionKinds)
      BY <1>1, <3>1, NextKinds
      DEF Spares, HeirKinds, InheritanceKinds, VaultKinds, LegacyKinds, SuccessionKinds, UserKinds
    <3>3. ProfileSafe'
      BY <1>1, <2>2, <2>8, ProfileArrivesSafe, ProfileWorksSafe
    <3>4. QED
      BY <1>1, <2>8, <3>1, <3>2, <3>3, AllSpared DEF SafeInv
  <2>9. CASE Rollback(w)
    <3>1. Free(w)' /\ Advances(w, {})
      BY <1>1, <2>9, Ended, DiesAdvances DEF Rollback, Dies
    <3>2. QED
      BY <1>1, <2>9, <3>1, AllSpared DEF Rollback, Spares, SafeInv
  <2>10. QED
    BY <2>1, <2>3, <2>4, <2>5, <2>6, <2>7, <2>8, <2>9 DEF Step
<1>3. CASE UNCHANGED vars
  <2>1. UNCHANGED <<req, heirVars, inhVars, vaultVars, legacyVars, reportVars, userVars>>
    BY <1>3 DEF vars, requestVars
  <2>2. \A v \in Workers : \A kind : Handles(v, kind)' <=> Handles(v, kind)
    BY <2>1 DEF Handles, Free
  <2>3. HeirSafe' /\ InheritanceSafe'
    BY <2>1, <2>2
    DEF SafeInv, HeirSafe, MailIsBacked, InheritanceSafe, heirVars, inhVars
  <2>4. VaultSafe'
    BY <2>1, <2>2
    DEF SafeInv, VaultSafe, EncryptedFieldsStand, UploadIsBacked, AuditAgrees, vaultVars
  <2>5. LegacySafe' /\ SuccessionSafe' /\ Frozen
    BY <2>1, <2>2
    DEF SafeInv, LegacySafe, Coherent, SuccessionSafe, Shared, Frozen, legacyVars, reportVars
  <2>6. ProfileSafe'
    BY <2>1, <2>2 DEF SafeInv, ProfileSafe, EnabledIsBacked, userVars
  <2>7. QED
    BY <1>1, <2>3, <2>4, <2>5, <2>6 DEF SafeInv
<1>4. QED
  BY <1>2, <1>3

LEMMA Safe == Spec => [](SafeInv /\ NoRecord \in Record)
<1>1. Init => SafeInv
  BY SafeInit
<1>2. SafeInv /\ NoRecord \in Record /\ [Next]_vars => SafeInv'
  BY SafeNext
<1>3. QED
  BY <1>1, <1>2, Typed, PTL DEF Spec

\* The designation mail only goes to people who have been committed as beneficiaries,
\* for any number of rows and of overlapping requests.
THEOREM MailsBacked == Spec => []MailIsBacked
<1>1. SafeInv => MailIsBacked
  BY DEF SafeInv, HeirSafe
<1>2. QED
  BY <1>1, Safe, PTL

\* An access request that waits has its release date, whoever decides what and
\* whichever decisions overlap: release dates are never taken back, and
\* administrators never begin a waiting period.
THEOREM WaitingReleases == Spec => []WaitingHasRelease
<1>1. SafeInv => WaitingHasRelease
  BY DEF SafeInv, InheritanceSafe, WaitingHasRelease, Opened
<1>2. QED
  BY <1>1, Safe, PTL

\* Of an encrypted column the last acknowledged version is stored, for any number of
\* overlapping updates: each of them has its column in the UPDATE.
THEOREM SecretsStand == Spec => []EncryptedFieldsStand
<1>1. SafeInv => EncryptedFieldsStand
  BY DEF SafeInv, VaultSafe
<1>2. QED
  BY <1>1, Safe, PTL

\* Every document that was uploaded has its file, whatever dies between the two.
THEOREM UploadsBacked == Spec => []UploadIsBacked
<1>1. SafeInv => UploadIsBacked
  BY DEF SafeInv, VaultSafe
<1>2. QED
  BY <1>1, Safe, PTL

\* The audit rows tell of every creation of an item and of every deletion, and of no
\* other, for any overlap of updates, deletions and views.
THEOREM AuditCorrect == Spec => []AuditAgrees
<1>1. SafeInv => AuditAgrees
  BY DEF SafeInv, VaultSafe
<1>2. QED
  BY <1>1, Safe, PTL

\* The scheduled notes are those with a trigger: a note is never left scheduled with
\* none, or with one and not scheduled.
THEOREM NotesScheduled == Spec => []ScheduledHasTrigger
<1>1. SafeInv => ScheduledHasTrigger
  BY DEF SafeInv, LegacySafe, Coherent, ScheduledHasTrigger, ListScheduled, Written
<1>2. QED
  BY <1>1, Safe, PTL

\* MFA is on only with a secret, an address verified only by a code or by Google,
\* however setups, confirmations and other settings of one user overlap.
THEOREM SettingsBacked == Spec => []EnabledIsBacked
<1>1. SafeInv => EnabledIsBacked
  BY DEF SafeInv, ProfileSafe
<1>2. QED
  BY <1>1, Safe, PTL

\* The content of a generated report and the fact that it is shared last, whatever is
\* generated, shared and changed afterwards.
THEOREM ReportFrozen == Spec => ReportIsFrozen
<1>1. SafeInv /\ NoRecord \in Record /\ [Next]_vars => [Frozen]_reportVars
  BY SafeNext
<1>2. Spec => [][Frozen]_reportVars
  BY <1>1, Safe, PTL DEF Spec
<1>3. QED
  BY <1>2, PTL DEF ReportIsFrozen, Frozen
-----------------------------------------------------------------------------
(* What a request leaves alone                                             *)

LEMMA KeptColumn ==
    ASSUME NEW stored, NEW seen, NEW set, DOMAIN seen = DOMAIN stored,
           NEW c \in DOMAIN stored, set[c] = Keep
    PROVE  Updated(stored, seen, set)[c] = stored[c]
BY DEF Updated, Flushed, Edited

LEMMA KeptEncrypted ==
    ASSUME NEW stored, NEW seen, NEW set, DOMAIN seen = DOMAIN stored,
           "secret" \in DOMAIN stored,
           NEW c \in DOMAIN stored, set[c] = Keep
    PROVE  Encrypted(stored, seen, set)[c] = stored[c]
<1>1. Updated(stored, seen, set)[c] = stored[c]
  BY KeptColumn
<1>2. DOMAIN Updated(stored, seen, set) = DOMAIN stored
  BY DEF Updated, Flushed
<1>3. CASE c = "secret"
  BY <1>1, <1>2, <1>3 DEF Encrypted
<1>4. CASE c # "secret"
  BY <1>1, <1>2, <1>4 DEF Encrypted
<1>5. QED
  BY <1>3, <1>4

\* Requests with a body that ends without a commit of another worker.
Leaves(w) ==
    \A r \in {req[w]} :
        /\ ~Free(w) /\ "set" \in DOMAIN r /\ req'[w] # r
        => \A c \in DOMAIN r.set : r.set[c] = Keep => RowOf(r)'[c] = RowOf(r)[c]

LEMMA BodyKinds ==
    ASSUME NEW q, IsRequest(q), "set" \in DOMAIN q
    PROVE  q.kind \in {"edit", "edit_rule", "change", "edit_letter", "share", "user"}
BY DEF IsRequest, HeirRequest, InheritanceRequest, VaultRequest, LegacyRequest,
       SuccessionRequest, UserRequest

LEMMA StepAdvances ==
    ASSUME TypeInv, NoRecord \in Record, NEW w \in Workers, Step(w)
    PROVE  \E S : Advances(w, S)
<1>1. ArriveHeir(w) \/ WorkHeir(w) => Advances(w, HeirRequest)
  BY HeirArrives, HeirWorks
<1>2. ArriveInheritance(w) \/ WorkInheritance(w) => Advances(w, InheritanceRequest)
  BY InheritanceArrives, InheritanceWorks
<1>3. ArriveVault(w) \/ WorkVault(w) => Advances(w, VaultRequest)
  BY VaultArrives, VaultWorks
<1>4. ArriveLegacy(w) \/ WorkLegacy(w) => Advances(w, LegacyRequest)
  BY LegacyArrives, LegacyWorks
<1>5. ArriveSuccession(w) \/ WorkSuccession(w) => Advances(w, SuccessionRequest)
  BY SuccessionArrives, SuccessionWorks
<1>6. ArriveProfile(w) \/ WorkProfile(w) => Advances(w, UserRequest)
  BY ProfileArrives, ProfileWorks
<1>7. Rollback(w) => Advances(w, {})
  BY DiesAdvances DEF Rollback
<1>8. QED
  BY <1>1, <1>2, <1>3, <1>4, <1>5, <1>6, <1>7 DEF Step

LEMMA ArrivesAtFree ==
    ASSUME NEW w \in Workers,
           \/ ArriveHeir(w) \/ ArriveInheritance(w) \/ ArriveVault(w)
           \/ ArriveLegacy(w) \/ ArriveSuccession(w) \/ ArriveProfile(w)
    PROVE  Free(w) /\ w \in load.workers
<1>1. ASSUME NEW r, Begins(w, r)
      PROVE  Free(w) /\ w \in load.workers
  BY <1>1 DEF Begins
<1>2. CASE ArriveHeir(w)
  BY <1>1, <1>2 DEF ArriveHeir, Create, Edit, CreateContact, ChangePlan
<1>3. CASE ArriveInheritance(w)
  BY <1>1, <1>3
  DEF ArriveInheritance, CreateRule, EditRule, CreateAccessRequest, UpdateAccessStatus,
      SetVerificationStatus, Decide
<1>4. CASE ArriveVault(w)
  BY <1>1, <1>4 DEF ArriveVault, CreateRecord, UploadDocument, Inserts, ChangeRecord, ViewItem
<1>5. CASE ArriveLegacy(w)
  BY <1>1, <1>5 DEF ArriveLegacy, CreateNote, EditNote, CreateMemory
<1>6. CASE ArriveSuccession(w)
  BY <1>1, <1>6 DEF ArriveSuccession, Generate, Share
<1>7. CASE ArriveProfile(w)
  BY <1>1, <1>7
  DEF ArriveProfile, UpdateProfile, UpdateSecuritySettings, UpdatePreferences, SetupMfa,
      VerifyMfa, SendCode, ConfirmEmail, GoogleSignIn, Arrives
<1>8. QED
  BY <1>2, <1>3, <1>4, <1>5, <1>6, <1>7

LEMMA EndsLeaving ==
    ASSUME TypeInv, NoRecord \in Record, [Next]_vars, NEW w \in Workers
    PROVE  Leaves(w)
<1> SUFFICES ASSUME NEW r \in {req[w]}, ~Free(w), "set" \in DOMAIN r, req'[w] # r,
                    NEW c \in DOMAIN r.set, r.set[c] = Keep
             PROVE  RowOf(r)'[c] = RowOf(r)[c]
  BY DEF Leaves
<1>1. /\ r = req[w] /\ IsRequest(r)
      /\ r.kind \in {"edit", "edit_rule", "change", "edit_letter", "share", "user"}
  BY Handled, BodyKinds
<1>2. PICK v \in Workers : Step(v)
  BY NextSteps DEF vars, requestVars
<1>3. v = w
  BY <1>2, StepAdvances DEF Advances
<1>4. /\ ~ArriveHeir(w) /\ ~ArriveInheritance(w) /\ ~ArriveVault(w)
      /\ ~ArriveLegacy(w) /\ ~ArriveSuccession(w) /\ ~ArriveProfile(w)
  BY ArrivesAtFree
<1>5. CASE Rollback(w)
  BY <1>5 DEF Rollback, RowOf, heirVars, inhVars, vaultVars, legacyVars, reportVars, userVars
<1>6. /\ HeirsTypeOK /\ InheritanceTypeOK /\ VaultTypeOK
      /\ LegacyTypeOK /\ SuccessionTypeOK /\ ProfileTypeOK
  BY DEF TypeInv, TypeOK
<1>7. CASE WorkHeir(w)
  <2>1. r.kind = "edit" /\ CommitEdit(w)
    BY <1>1, <1>7 DEF WorkHeir, CommitCreate, SendMail, CommitEdit, CommitContact, CommitPlan
  <2>2. /\ r.heir \in Heirs /\ r.seen \in Heir
        /\ r.set \in HeirUpdate \cup HeirVerify \cup HeirDelete
    BY <1>1, <2>1, KindsTell, HeirFields DEF HeirKinds
  <2>3. heirs'[r.heir] = Updated(heirs[r.heir], r.seen, r.set) /\ heirs[r.heir] \in Heir
    BY <1>1, <1>6, <2>1, <2>2 DEF CommitEdit, HeirsTypeOK
  <2>4. c \in DOMAIN heirs[r.heir] /\ DOMAIN r.seen = DOMAIN heirs[r.heir]
    BY <2>2, <2>3 DEF Heir, HeirUpdate, HeirVerify, HeirDelete
  <2>5. Updated(heirs[r.heir], r.seen, r.set)[c] = heirs[r.heir][c]
    BY <2>4, KeptColumn
  <2>6. QED
    BY <2>1, <2>3, <2>5 DEF RowOf
<1>8. CASE WorkInheritance(w)
  <2>1. r.kind = "edit_rule" /\ rules' = [rules EXCEPT ![r.rule] = Updated(@, r.seen, r.set)]
    BY <1>1, <1>8 DEF WorkInheritance, CommitRule, CommitOpen, CommitDecide
  <2>2. r.rule \in Rules /\ r.seen \in Rule /\ r.set \in RuleUpdate \cup RuleToggle
    BY <1>1, <2>1, KindsTell, InheritanceFields DEF InheritanceKinds
  <2>3. rules'[r.rule] = Updated(rules[r.rule], r.seen, r.set) /\ rules[r.rule] \in Rule
    BY <1>6, <2>1, <2>2 DEF InheritanceTypeOK
  <2>4. c \in DOMAIN rules[r.rule] /\ DOMAIN r.seen = DOMAIN rules[r.rule]
    BY <2>2, <2>3 DEF Rule, RuleUpdate, RuleToggle
  <2>5. Updated(rules[r.rule], r.seen, r.set)[c] = rules[r.rule][c]
    BY <2>4, KeptColumn
  <2>6. QED
    BY <2>1, <2>3, <2>5 DEF RowOf
<1>9. CASE WorkVault(w)
  <2>1. r.kind = "change" /\ CommitChange(w)
    BY <1>1, <1>9 DEF WorkVault, CommitRecord, CommitChange, CommitView
  <2>2. r.record \in Records /\ r.seen \in Record /\ r.set \in RecordUpdate \cup RecordDelete
    BY <1>1, <2>1, KindsTell, VaultFields DEF VaultKinds
  <2>3. /\ records'[r.record] = Encrypted(records[r.record], r.seen, r.set)
        /\ records[r.record] \in Record
    BY <1>1, <1>6, <2>1, <2>2 DEF CommitChange, VaultTypeOK
  <2>4. /\ c \in DOMAIN records[r.record] /\ DOMAIN r.seen = DOMAIN records[r.record]
        /\ "secret" \in DOMAIN records[r.record]
    BY <2>2, <2>3 DEF Record, RecordUpdate, RecordDelete
  <2>5. Encrypted(records[r.record], r.seen, r.set)[c] = records[r.record][c]
    BY <2>4, KeptEncrypted
  <2>6. QED
    BY <2>1, <2>3, <2>5 DEF RowOf
<1>10. CASE WorkLegacy(w)
  <2>1. /\ r.kind = "edit_letter"
        /\ letters' = [letters EXCEPT ![r.letter] = Encrypted(@, r.seen, r.set)]
    BY <1>1, <1>10 DEF WorkLegacy, CommitNote, CommitMemory
  <2>2. r.letter \in LegacyNotes /\ r.seen \in LegacyNote /\ r.set \in LegacyBody
    BY <1>1, <2>1, KindsTell, LegacyFields DEF LegacyKinds
  <2>3. /\ letters'[r.letter] = Encrypted(letters[r.letter], r.seen, r.set)
        /\ letters[r.letter] \in LegacyNote
    BY <1>6, <2>1, <2>2 DEF LegacyTypeOK
  <2>4. /\ c \in DOMAIN letters[r.letter] /\ DOMAIN r.seen = DOMAIN letters[r.letter]
        /\ "secret" \in DOMAIN letters[r.letter]
    BY <2>2, <2>3 DEF LegacyNote, LegacyBody
  <2>5. Encrypted(letters[r.letter], r.seen, r.set)[c] = letters[r.letter][c]
    BY <2>4, KeptEncrypted
  <2>6. QED
    BY <2>1, <2>3, <2>5 DEF RowOf
<1>11. CASE WorkSuccession(w)
  <2>1. r.kind = "share" /\ report' = Updated(report, r.seen, r.set)
    BY <1>1, <1>11 DEF WorkSuccession, ReadDistribution, CommitReport, RefuseReport, CommitShare
  <2>2. r.seen \in Report /\ r.set \in ShareBody /\ report \in Report
    BY <1>1, <1>6, <2>1, KindsTell, SuccessionFields DEF SuccessionKinds, SuccessionTypeOK
  <2>3. c \in DOMAIN report /\ DOMAIN r.seen = DOMAIN report
    BY <2>2 DEF Report, ShareBody
  <2>4. Updated(report, r.seen, r.set)[c] = report[c]
    BY <2>3, KeptColumn
  <2>5. QED
    BY <2>1, <2>4 DEF RowOf
<1>12. CASE WorkProfile(w)
  <2>1. r.kind = "user" /\ user' = Updated(user, r.seen, r.set)
    BY <1>1, <1>12 DEF WorkProfile, CommitUser, CommitCode
  <2>2. r.seen \in User /\ r.set \in UserBody /\ user \in User
    BY <1>1, <1>6, <2>1, KindsTell, UserFields DEF UserKinds, ProfileTypeOK
  <2>3. c \in DOMAIN user /\ DOMAIN r.seen = DOMAIN user
    BY <2>2 DEF User, UserBody
  <2>4. Updated(user, r.seen, r.set)[c] = user[c]
    BY <2>3, KeptColumn
  <2>5. QED
    BY <2>1, <2>4 DEF RowOf
<1>13. QED
  BY <1>2, <1>3, <1>4, <1>5, <1>7, <1>8, <1>9, <1>10, <1>11, <1>12 DEF Step

\* A request changes none of the columns that its body leaves out, for any rows, any
\* number of workers and any requests that overlap with it.
THEOREM NamedFieldsOnly == Spec => OnlyNamedFieldsChange
<1> DEFINE A == \A w \in Workers : Leaves(w)
<1>1. TypeInv /\ NoRecord \in Record /\ [Next]_vars => [A]_vars
  BY EndsLeaving
<1> HIDE DEF A
<1>2. Spec => [][A]_vars
  BY <1>1, Typed, PTL DEF Spec
<1>3. QED
  BY <1>2, PTL DEF OnlyNamedFieldsChange, A, Leaves
=============================================================================
