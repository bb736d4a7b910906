------------------------- MODULE DeathVerification -------------------------
(***************************************************************************)
(* Death verifications (backend/app/domains/verification): a case with     *)
(* three stages and its witnesses, opened together with a notification of  *)
(* the owner.  A case is completed by the update of its stages that sees   *)
(* all three validated.  A case has the number of its notification.        *)
(*                                                                         *)
(* Not represented: certificate, names and addresses, audit rows.          *)
(***************************************************************************)
EXTENDS Notifications

CONSTANTS
    Witnesses,      \* verification_witnesses rows that may be inserted
    Updates         \* the bodies of PATCH .../stages that are sent

Stages == {"document", "court", "vault"}
StageStatus == {"pending", "validated", "failed"}
WitnessStatus == {"pending", "verified", "declined"}
VerificationStatus == {"none", "in_progress", "completed"}      \* rejected is never written

ASSUME UpdatesAssumption ==
    Updates \subseteq [Stages -> StageStatus \cup {Keep}] /\ Keep \notin StageStatus

VARIABLES
    cases,          \* death_verifications rows
    witnesses,      \* verification_witnesses rows
    validated       \* history: the stages of a case that were ever validated

vars == <<noteVars, requestVars, cases, witnesses, validated>>
caseVars == <<cases, witnesses, validated>>

Case == [status: VerificationStatus, document: StageStatus, court: StageStatus,
         vault: StageStatus]

NoCase == [status |-> "none", document |-> "pending", court |-> "pending",
           vault |-> "pending"]

Witness == [case: 0 .. MaxNotes, status: WitnessStatus]         \* case 0: no row

CaseRequest ==
    [kind: {"submit"}, user: Users, note: NoteIds, tokens: SUBSET Devices,
     certificate: BOOLEAN, witnesses: SUBSET Witnesses]
    \cup [kind: {"stages"}, note: NoteIds, seen: Case, update: Updates]
    \cup [kind: {"witness"}, note: NoteIds, witness: Witnesses]
    \cup [kind: {"respond"}, witness: Witnesses, seen: WitnessStatus, answer: WitnessStatus]

TypeOK ==
    /\ NotesTypeOK
    /\ cases \in [NoteIds -> Case]
    /\ witnesses \in [Witnesses -> Witness]
    /\ validated \in [NoteIds -> SUBSET Stages]
    /\ load \in Loads
    /\ req \in [Workers -> NoteRequest \cup CaseRequest \cup {NoRequest}]
    /\ failures \in 0 .. MaxFailures

Init ==
    /\ NotesInit
    /\ cases = [n \in NoteIds |-> NoCase]
    /\ witnesses = [x \in Witnesses |-> [case |-> 0, status |-> "pending"]]
    /\ validated = [n \in NoteIds |-> {}]
    /\ RequestsInit

-----------------------------------------------------------------------------
(* Requests arriving                                                       *)

NewWitness(x) ==
    /\ witnesses[x].case = 0
    /\ \A w \in Workers : ~Free(w) =>
        /\ req[w].kind = "submit" => x \notin req[w].witnesses
        /\ req[w].kind = "witness" => x # req[w].witness

\* create_death_verification up to the first push: rows flushed, tokens read.
Submit(w, u, certificate, listed) ==
    /\ created < MaxNotes /\ created + 1 \in load.scope
    /\ \A x \in listed : NewWitness(x)
    /\ created' = created + 1
    /\ Begins(w, [kind |-> "submit", user |-> u, note |-> created + 1,
                  tokens |-> Recipients(u), certificate |-> certificate,
                  witnesses |-> listed])
    /\ UNCHANGED <<devices, notes, pushed, registrant, caseVars>>

UpdateStages(w, n, update) ==
    /\ cases[n].status # "none"
    /\ Begins(w, [kind |-> "stages", note |-> n, seen |-> cases[n], update |-> update])
    /\ UNCHANGED <<noteVars, caseVars>>

AddWitness(w, n, x) ==
    /\ cases[n].status # "none"
    /\ NewWitness(x)
    /\ Begins(w, [kind |-> "witness", note |-> n, witness |-> x])
    /\ UNCHANGED <<noteVars, caseVars>>

RespondWitness(w, x, answer) ==
    /\ witnesses[x].case # 0
    /\ Begins(w, [kind |-> "respond", witness |-> x, seen |-> witnesses[x].status,
                  answer |-> answer])
    /\ UNCHANGED <<noteVars, caseVars>>

-----------------------------------------------------------------------------
(* Their commits                                                           *)

\* Mutant: the notification is left to a later request.
CommitSubmitUnnoticed(w) ==
    LET r == req[w] IN
    /\ ~Free(w) /\ r.kind = "submit" /\ r.tokens = {}
    /\ cases' = [cases EXCEPT ![r.note] = [NoCase EXCEPT !.status = "in_progress",
                    !.document = IF r.certificate THEN "validated" ELSE "pending"]]
    /\ validated' = [validated EXCEPT ![r.note] = IF r.certificate THEN {"document"} ELSE {}]
    /\ Answers(w)
    /\ UNCHANGED <<notes, witnesses, devices, created, pushed, registrant>>

\* The case, its witnesses and its notification are one transaction.
CommitSubmit(w) ==
    LET r == req[w] IN
    /\ ~Free(w) /\ r.kind = "submit" /\ r.tokens = {}
    /\ cases' = [cases EXCEPT ![r.note] = [NoCase EXCEPT !.status = "in_progress",
                    !.document = IF r.certificate THEN "validated" ELSE "pending"]]
    /\ validated' = [validated EXCEPT ![r.note] = IF r.certificate THEN {"document"} ELSE {}]
    /\ notes' = [notes EXCEPT ![r.note] = [owner |-> r.user, read |-> FALSE]]
    /\ witnesses' = [x \in Witnesses |-> IF x \in r.witnesses
                        THEN [case |-> r.note, status |-> "pending"] ELSE witnesses[x]]
    /\ Answers(w)
    /\ UNCHANGED <<devices, created, pushed, registrant>>

\* Mutant: a field that the body leaves out is written too.
UpdatedCaseRaw(seen, update) ==
    [c \in DOMAIN seen |-> IF c = "status" THEN seen.status ELSE update[c]]

\* Mutant: the stages are tested before the update is applied.
UpdatedCaseLate(seen, update) ==
    [c \in DOMAIN seen |->
        IF c # "status" THEN IF update[c] = Keep THEN seen[c] ELSE update[c]
        ELSE IF \A s \in Stages : seen[s] = "validated" THEN "completed" ELSE seen.status]

\* The row that update_stages makes of the one it loaded.
UpdatedCase(seen, update) ==
    LET new(s) == IF update[s] = Keep THEN seen[s] ELSE update[s]
    IN [c \in DOMAIN seen |->
        IF c # "status" THEN new(c)
        ELSE IF \A s \in Stages : new(s) = "validated" THEN "completed" ELSE seen.status]

CommitStages(w) ==
    LET r == req[w]
        row == Flushed(cases[r.note], r.seen, UpdatedCase(r.seen, r.update))
    IN /\ ~Free(w) /\ r.kind = "stages"
       /\ cases' = [cases EXCEPT ![r.note] = row]
       /\ validated' = [validated EXCEPT ![r.note] =
                            @ \cup {s \in Stages : row[s] = "validated"}]
       /\ Answers(w)
       /\ UNCHANGED <<noteVars, witnesses>>

CommitWitness(w) ==
    LET r == req[w] IN
    /\ ~Free(w)
    /\ \/ /\ r.kind = "witness"
          /\ witnesses' = [witnesses EXCEPT ![r.witness] =
                            [case |-> r.note, status |-> "pending"]]
       \/ /\ r.kind = "respond"
          /\ witnesses' = [witnesses EXCEPT ![r.witness].status =
                            IF r.answer # r.seen THEN r.answer ELSE @]
    /\ Answers(w)
    /\ UNCHANGED <<noteVars, cases, validated>>

Rollback(w) == ~Pushing(w) /\ Dies(w) /\ UNCHANGED <<noteVars, caseVars>>

-----------------------------------------------------------------------------
Arrive(w) ==
    \/ /\ \/ \E u \in Users \cap load.scope, d \in Devices \cap load.scope :
            "register" \in load.kinds /\ RegisterDevice(w, u, d)
          \/ \E u \in Users, n \in NoteIds : "read" \in load.kinds /\ MarkRead(w, u, n)
          \/ \E u \in Users \cap load.scope : "read_all" \in load.kinds /\ MarkAllRead(w, u)
       /\ UNCHANGED caseVars
    \/ \E u \in Users \cap load.scope, certificate \in BOOLEAN,
          listed \in SUBSET (Witnesses \cap load.scope) :
        "submit" \in load.kinds /\ Submit(w, u, certificate, listed)
    \/ \E n \in NoteIds, update \in Updates :
        "stages" \in load.kinds /\ UpdateStages(w, n, update)
    \/ \E n \in NoteIds, x \in Witnesses \cap load.scope :
        "witness" \in load.kinds /\ AddWitness(w, n, x)
    \/ \E x \in Witnesses, answer \in WitnessStatus :
        "witness" \in load.kinds /\ RespondWitness(w, x, answer)

Work(w) ==
    \/ /\ \/ CommitDevice(w) \/ RefuseDuplicate(w) \/ CommitRead(w)
          \/ SendPush(w) \/ PushFails(w)
       /\ UNCHANGED caseVars
    \/ CommitSubmit(w) \/ CommitStages(w) \/ CommitWitness(w)
    \/ Rollback(w)

Next == \E w \in Workers : Arrive(w) \/ Work(w)

Spec == Init /\ [][Next]_vars

-----------------------------------------------------------------------------
(* Properties                                                              *)

\* _to_response: the share of validated stages, rounded to percent.
Progress(case) ==
    (200 * Cardinality({s \in Stages : case[s] = "validated"}) + 3) \div 6

\* However updates of one case overlap, a completed case has had each of its three
\* stages validated at some time (not necessarily all at one time, and later
\* updates may set them to failed without reopening the case).
CompletedWasValidated ==
    \A n \in NoteIds : cases[n].status = "completed" => validated[n] = Stages

\* README: "status -> completed when all stages validated".  A case that is shown
\* with a progress of 100 percent is completed.  Updates that overlap break it.
CompletionFollows ==
    \A n \in NoteIds : Progress(cases[n]) = 100 => cases[n].status = "completed"

\* Updates that do not overlap complete a case as soon as it shows 100 percent, in
\* whichever order and number they validate its stages or take them back.
AllValidatedIsCompleted == Serial => CompletionFollows

\* A case is opened with the notification of its owner, or not at all, and a
\* witness row has its case, whatever dies on the way.
CaseHasNotice ==
    /\ \A n \in NoteIds : cases[n].status # "none" <=> notes[n].owner # NoUser
    /\ \A x \in Witnesses : witnesses[x].case # 0 => cases[witnesses[x].case].status # "none"

Promise == INSTANCE DeathCase WITH
            Cases <- NoteIds,
            status <- [n \in NoteIds |-> cases[n].status],
            notified <- {n \in NoteIds : notes[n].owner # NoUser}

\* However updates of one case overlap, a case goes through its life as DeathCase says: it
\* is opened with the notice to its owner, completed only when each of its stages has been
\* validated at some time (not necessarily all at one time), and never reopened, also
\* when an update that loaded it before its completion commits afterwards.
ImplementsCase == Promise!Spec
=============================================================================
