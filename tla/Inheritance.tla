---------------------------- MODULE Inheritance ----------------------------
(***************************************************************************)
(* Inheritance rules and access requests of one owner                      *)
(* (backend/app/domains/inheritance), which name beneficiaries, and the    *)
(* administrators' view of access requests (backend/app/domains/admin).    *)
(* The owner and the administrators write the status of one row.           *)
(*                                                                         *)
(* Not represented: vault item, conditions and instructions of a rule,     *)
(* evidence and notes of a request, its constant period and risk score,    *)
(* audit rows, and requests that are refused.                              *)
(***************************************************************************)
EXTENDS Beneficiaries

CONSTANTS
    Rules,          \* inheritance_rules rows that may be inserted
    Triggers,       \* some of the values of ReleaseTrigger
    MaxAccess,      \* bound on the access_requests rows
    QueueLimit      \* how many rows verification_queue returns (100)

AccessRequestStatus ==
    {"submitted", "identity_verification", "evidence_review", "waiting_period",
     "approved", "rejected", "released"}

ASSUME AccessAssumption == MaxAccess \in Nat /\ QueueLimit \in Nat /\ Triggers # {}

VARIABLES
    rules,
    access,         \* access_requests, numbered in the order of created_at
    opened,         \* how many have been flushed, committed or not
    decided         \* history: the status last acknowledged for a request

inhVars == <<rules, access, opened, decided>>

Rule == [heir: Heirs \cup {NoOne}, trigger: Triggers, active: BOOLEAN]

NoRule == [heir |-> NoOne, trigger |-> CHOOSE t \in Triggers : TRUE, active |-> TRUE]

Access == [heir: Heirs \cup {NoOne}, status: AccessRequestStatus,
           release: BOOLEAN]                            \* release_at is set

NoAccess == [heir |-> NoOne, status |-> "submitted", release |-> FALSE]

\* The bodies of PUT /rules/{id} and POST /rules/{id}/toggle.
RuleUpdate == [heir: {Keep}, trigger: Triggers \cup {Keep}, active: BOOLEAN \cup {Keep}]
RuleToggle == [heir: {Keep}, trigger: {Keep}, active: BOOLEAN]

AccessIds == 1 .. MaxAccess

\* What an answer calls the beneficiary.
HeirName == {"public_id", "internal_id"}

InheritanceRequest ==
    [kind: {"rule"}, rule: Rules, heir: Heirs, trigger: Triggers]
    \cup [kind: {"edit_rule"}, rule: Rules, seen: Rule, set: RuleUpdate \cup RuleToggle]
    \cup [kind: {"open"}, heir: Heirs, id: AccessIds]
    \cup [kind: {"decide"}, id: AccessIds, seen: Access, status: AccessRequestStatus,
          byAdmin: BOOLEAN, shown: HeirName]

InheritanceTypeOK ==
    /\ rules \in [Rules -> Rule]
    /\ access \in [AccessIds -> Access]
    /\ opened \in 0 .. MaxAccess
    /\ decided \in [AccessIds -> AccessRequestStatus]

InheritanceInit ==
    /\ rules = [x \in Rules |-> NoRule]
    /\ access = [q \in AccessIds |-> NoAccess]
    /\ opened = 0
    /\ decided = [q \in AccessIds |-> "submitted"]

-----------------------------------------------------------------------------
(* Reading                                                                 *)

Opened == {q \in AccessIds : access[q].heir # NoOne}

Pending ==
    {q \in Opened : access[q].status \in
        {"submitted", "identity_verification", "evidence_review", "waiting_period"}}

\* Mutant: requests of deleted beneficiaries are left out.
VerificationQueueOfLiving ==
    {q \in Opened : /\ access[q].heir \in Living
                    /\ Cardinality({k \in Opened : k < q}) < QueueLimit}

\* verification_queue: the oldest requests, whatever their status, joined with
\* beneficiaries that may be deleted.
VerificationQueue == {q \in Opened : Cardinality({k \in Opened : k < q}) < QueueLimit}

\* update_access_status looks for the beneficiary among those that are left.
ShownHeir(h) == IF h \in Living THEN "public_id" ELSE "internal_id"

-----------------------------------------------------------------------------
(* Requests arriving                                                       *)

CreateRule(w, x, h, t) ==
    /\ h \in Living
    /\ rules[x].heir = NoOne
    /\ \A v \in Workers : ~Free(v) /\ req[v].kind = "rule" => req[v].rule # x
    /\ Begins(w, [kind |-> "rule", rule |-> x, heir |-> h, trigger |-> t])
    /\ UNCHANGED <<heirVars, inhVars>>

EditRule(w, x, set) ==
    /\ rules[x].heir # NoOne
    /\ Begins(w, [kind |-> "edit_rule", rule |-> x, seen |-> rules[x], set |-> set])
    /\ UNCHANGED <<heirVars, inhVars>>

CreateAccessRequest(w, h) ==
    /\ h \in Living
    /\ opened < MaxAccess /\ opened + 1 \in load.scope
    /\ opened' = opened + 1
    /\ Begins(w, [kind |-> "open", heir |-> h, id |-> opened + 1])
    /\ UNCHANGED <<heirVars, rules, access, decided>>

Decide(w, q, status, byAdmin, shown) ==
    /\ q \in Opened
    /\ Begins(w, [kind |-> "decide", id |-> q, seen |-> access[q], status |-> status,
                  byAdmin |-> byAdmin, shown |-> shown])
    /\ UNCHANGED <<heirVars, inhVars>>

\* update_access_status: any status may follow any other.  (The statuses the owner asks
\* for are members of load.kinds.)
UpdateAccessStatus(w, q, status) == Decide(w, q, status, FALSE, ShownHeir(access[q].heir))

\* set_verification_status answers with the request only.
SetVerificationStatus(w, q, status) ==
    status \in {"approved", "rejected"} /\ Decide(w, q, status, TRUE, "public_id")

-----------------------------------------------------------------------------
(* Their commits                                                           *)

CommitRule(w) ==
    LET r == req[w] IN
    /\ ~Free(w)
    /\ \/ /\ r.kind = "rule"
          /\ rules' = [rules EXCEPT ![r.rule] =
                        [heir |-> r.heir, trigger |-> r.trigger, active |-> TRUE]]
       \/ /\ r.kind = "edit_rule"
          /\ rules' = [rules EXCEPT ![r.rule] = Updated(@, r.seen, r.set)]
    /\ Answers(w)
    /\ UNCHANGED <<heirVars, access, opened, decided>>

CommitOpen(w) ==
    LET r == req[w] IN
    /\ ~Free(w) /\ r.kind = "open"
    /\ access' = [access EXCEPT ![r.id] =
                    [heir |-> r.heir, status |-> "identity_verification", release |-> FALSE]]
    /\ decided' = [decided EXCEPT ![r.id] = "identity_verification"]
    /\ Answers(w)
    /\ UNCHANGED <<heirVars, rules, opened>>

\* Mutant: the period is computed by the next decision, when it has begun.
DecidedRowLate(r) ==
    [r.seen EXCEPT !.status = r.status, !.release = @ \/ r.seen.status = "waiting_period"]

\* Mutant: a closed request keeps its status.
DecidedRowOnce(r) ==
    IF r.seen.status \in {"approved", "rejected", "released"} THEN r.seen
    ELSE [r.seen EXCEPT !.status = r.status, !.release = @ \/ r.status = "waiting_period"]

\* The owner's path sets release_at when the waiting period begins; nothing clears it.
DecidedRow(r) ==
    [r.seen EXCEPT !.status = r.status,
                   !.release = @ \/ (~r.byAdmin /\ r.status = "waiting_period")]

CommitDecide(w) ==
    LET r == req[w] IN
    /\ ~Free(w) /\ r.kind = "decide"
    /\ access' = [access EXCEPT ![r.id] = Flushed(@, r.seen, DecidedRow(r))]
    /\ decided' = [decided EXCEPT ![r.id] = r.status]
    /\ Answers(w)
    /\ UNCHANGED <<heirVars, rules, opened>>

ArriveInheritance(w) ==
    \/ \E x \in Rules \cap load.scope, h \in Heirs, t \in Triggers :
        "rule" \in load.kinds /\ CreateRule(w, x, h, t)
    \/ \E x \in Rules, set \in RuleUpdate \cup RuleToggle :
        "rule" \in load.kinds /\ EditRule(w, x, set)
    \/ \E h \in Heirs : "open" \in load.kinds /\ CreateAccessRequest(w, h)
    \/ \E q \in AccessIds, status \in AccessRequestStatus \cap load.kinds :
        UpdateAccessStatus(w, q, status)
    \/ \E q \in AccessIds, status \in AccessRequestStatus :
        "decide" \in load.kinds /\ SetVerificationStatus(w, q, status)

WorkInheritance(w) == CommitRule(w) \/ CommitOpen(w) \/ CommitDecide(w)

-----------------------------------------------------------------------------
(* Properties                                                              *)

\* A request that waits has its release date, whichever of the owner's and the
\* administrators' decisions overlap, and although they write different columns.
WaitingHasRelease ==
    \A q \in Opened : access[q].status = "waiting_period" => access[q].release

\* The status is the one last acknowledged, with "Verification approved.",
\* "Verification rejected." or "Access request status updated."  Decisions that
\* overlap break it.
StatusIsDecision == \A q \in Opened : access[q].status = decided[q]

\* Of decisions that do not overlap the last one stands, whoever took it and whatever
\* was decided before.
LastDecisionStands == Serial => StatusIsDecision

\* What the dashboard counts as pending is in the administrators' queue, also when
\* the beneficiary has been deleted, as long as the queue holds every request.
PendingIsQueued == Cardinality(Opened) <= QueueLimit => Pending \subseteq VerificationQueue

\* README: "internal UUIDs never returned; opaque public_ids used externally".  A
\* decision on the request of a deleted beneficiary breaks it.
AnswersUsePublicIds ==
    \A w \in Workers : ~Free(w) /\ req[w].kind = "decide" => req[w].shown # "internal_id"
=============================================================================
