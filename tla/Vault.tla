------------------------------- MODULE Vault -------------------------------
(***************************************************************************)
(* Vault items, assets and documents of one owner                          *)
(* (backend/app/domains/vault), the object store of uploaded documents     *)
(* (integrations/storage.py) and the audit rows of all three               *)
(* (domains/security/repository.py).  Each row has encrypted columns,      *)
(* here one, secret, and columns in the clear, here one, plain.            *)
(*                                                                         *)
(* Not represented: categories, currencies, checksums, OCR text, the reads *)
(* that leave no audit row, and requests that are refused.                 *)
(***************************************************************************)
EXTENDS UnitOfWork

CONSTANTS
    Records,        \* rows of the three tables that may be inserted
    Secrets,        \* what is encrypted in them
    Plains          \* security level of an item, value estimate of an asset

ASSUME RecordAssumption == IsFiniteSet(Records) /\ Secrets # {} /\ Plains # {}

VARIABLES
    records,
    objects,        \* the documents whose file is in the object store
    log,            \* log[x]: the actions that audit rows tell of x
    answered        \* history: the secret last acknowledged

vaultVars == <<records, objects, log, answered>>

Tables == {"items", "assets", "documents"}

AuditAction == {"created", "viewed", "updated", "deleted"}

\* object: no file, a key that the client gave, or one that the upload stored.
Record == [table: Tables \cup {"none"}, secret: Secrets, plain: Plains,
           object: {"none", "given", "stored"}, deleted: BOOLEAN]

NoRecord == [table |-> "none", secret |-> CHOOSE s \in Secrets : TRUE,
             plain |-> CHOOSE p \in Plains : TRUE, object |-> "none", deleted |-> FALSE]

\* The bodies of PUT and DELETE.
RecordUpdate == [table: {Keep}, secret: Secrets \cup {Keep}, plain: Plains \cup {Keep},
                 object: {Keep}, deleted: {Keep}]
RecordDelete == [table: {Keep}, secret: {Keep}, plain: {Keep}, object: {Keep}, deleted: {TRUE}]

VaultRequest ==
    [kind: {"record"}, record: Records, new: Record]
    \cup [kind: {"change"}, record: Records, seen: Record, set: RecordUpdate \cup RecordDelete]
    \cup [kind: {"view"}, record: Records]

VaultTypeOK ==
    /\ records \in [Records -> Record]
    /\ objects \subseteq Records
    /\ log \in [Records -> SUBSET AuditAction]
    /\ answered \in [Records -> Secrets]

VaultInit ==
    /\ records = [x \in Records |-> NoRecord]
    /\ objects = {}
    /\ log = [x \in Records |-> {}]
    /\ answered = [x \in Records |-> NoRecord.secret]

\* list_items, list_assets, list_documents.
Listed(table) == {x \in Records : records[x].table = table /\ ~records[x].deleted}

-----------------------------------------------------------------------------
(* Requests arriving                                                       *)

Inserts(w, x, table, secret, object) ==
    /\ records[x].table = "none"
    /\ \A v \in Workers : ~Free(v) /\ req[v].kind = "record" => req[v].record # x
    /\ Begins(w, [kind |-> "record", record |-> x,
                  new |-> [NoRecord EXCEPT !.table = table, !.secret = secret,
                                           !.object = object]])

\* create_item, create_asset, create_document.
CreateRecord(w, x, table, secret) ==
    /\ Inserts(w, x, table, secret, IF table = "documents" THEN "given" ELSE "none")
    /\ UNCHANGED vaultVars

\* Mutant: the file is left to be stored later.
UploadDocumentLater(w, x, secret) ==
    /\ Inserts(w, x, "documents", secret, "stored")
    /\ UNCHANGED vaultVars

\* The bucket has the file, under a key that is drawn for it; nothing takes it back.
PutObject(x) == objects' = objects \cup {x}

\* The file is stored before the row is made.
UploadDocument(w, x, secret) ==
    /\ Inserts(w, x, "documents", secret, "stored")
    /\ PutObject(x)
    /\ UNCHANGED <<records, log, answered>>

\* update_item, update_asset, and the three deletes.
ChangeRecord(w, x, set) ==
    /\ \E table \in Tables : x \in Listed(table)
    /\ records[x].table = "documents" => set \in RecordDelete
    /\ Begins(w, [kind |-> "change", record |-> x, seen |-> records[x], set |-> set])
    /\ UNCHANGED vaultVars

\* get_item.
ViewItem(w, x) ==
    /\ x \in Listed("items")
    /\ Begins(w, [kind |-> "view", record |-> x])
    /\ UNCHANGED vaultVars

-----------------------------------------------------------------------------
(* Their commits                                                           *)

Logs(x, action) == log' = [log EXCEPT ![x] = @ \cup {action}]

CommitRecord(w) ==
    LET r == req[w] IN
    /\ ~Free(w) /\ r.kind = "record"
    /\ records' = [records EXCEPT ![r.record] = r.new]
    /\ answered' = [answered EXCEPT ![r.record] = r.new.secret]
    /\ IF r.new.table = "items" THEN Logs(r.record, "created") ELSE UNCHANGED log
    /\ Answers(w)
    /\ UNCHANGED objects

\* Mutant: encrypting the same text again gives the same column.
EncryptedSame(stored, seen, set) == Updated(stored, seen, set)

\* Every encryption gives another ciphertext, so an encrypted column that the body
\* names always differs from the one that was loaded, and is in the UPDATE.
Encrypted(stored, seen, set) ==
    [Updated(stored, seen, set) EXCEPT !.secret = IF set.secret = Keep THEN @ ELSE set.secret]

\* Mutant: a deletion is not recorded.
ChangedAs(set) == "updated"

Changed(set) == IF set.deleted = Keep THEN "updated" ELSE "deleted"

CommitChange(w) ==
    LET r == req[w] IN
    /\ ~Free(w) /\ r.kind = "change"
    /\ records' = [records EXCEPT ![r.record] = Encrypted(@, r.seen, r.set)]
    /\ answered' = [answered EXCEPT ![r.record] = IF r.set.secret = Keep THEN @ ELSE r.set.secret]
    /\ Logs(r.record, Changed(r.set))
    /\ Answers(w)
    /\ UNCHANGED objects

CommitView(w) ==
    /\ ~Free(w) /\ req[w].kind = "view"
    /\ Logs(req[w].record, "viewed")
    /\ Answers(w)
    /\ UNCHANGED <<records, objects, answered>>

ArriveVault(w) ==
    \/ \E x \in Records \cap load.scope, table \in Tables \cap load.kinds,
          s \in Secrets \cap load.scope :
        CreateRecord(w, x, table, s)
    \/ \E x \in Records \cap load.scope, s \in Secrets \cap load.scope :
        "upload" \in load.kinds /\ UploadDocument(w, x, s)
    \/ \E x \in Records, set \in RecordUpdate \cup RecordDelete :
        "change" \in load.kinds /\ ChangeRecord(w, x, set)
    \/ \E x \in Records : "change" \in load.kinds /\ ViewItem(w, x)

WorkVault(w) == CommitRecord(w) \/ CommitChange(w) \/ CommitView(w)

-----------------------------------------------------------------------------
(* Properties                                                              *)

\* Of what an owner writes into an encrypted column the last acknowledged version is
\* stored, also when two updates of one row overlap and the later one writes what it
\* had loaded.  (Of a column in the clear the earlier version may remain.)
EncryptedFieldsStand == \A x \in Records : records[x].secret = answered[x]

\* A document that was uploaded has its file, whatever died between the two, and
\* still has it when the document was deleted.
UploadIsBacked == \A x \in Records : records[x].object = "stored" => x \in objects

\* The audit rows tell of every item's creation and of every row's deletion, and of
\* no other, however updates and deletions of one row overlap.
AuditAgrees ==
    \A x \in Records :
        /\ records[x].table = "items" <=> "created" \in log[x]
        /\ records[x].deleted <=> "deleted" \in log[x]
=============================================================================
