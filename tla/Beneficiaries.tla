--------------------------- MODULE Beneficiaries ---------------------------
(***************************************************************************)
(* Beneficiaries and trusted contacts of one owner                         *)
(* (backend/app/domains/beneficiaries), and the cap that the plan of the   *)
(* owner's subscription puts on them.  A request reads the plan and counts *)
(* the rows in one step here: what others commit in between could as well  *)
(* have been committed before or after both.                               *)
(*                                                                         *)
(* Not represented: names, addresses, instructions, audit rows, and        *)
(* requests that are refused.                                              *)
(***************************************************************************)
EXTENDS UnitOfWork

CONSTANTS
    Heirs,          \* beneficiaries rows that may be inserted
    Contacts,       \* trusted_contacts rows
    Percents,       \* the allocations that are asked for
    Limit,          \* Limit[plan]: beneficiary_limit of PLAN_CATALOG
    NoLimit

PlanTier == {"free", "premium", "family"}
BeneficiaryStatus == {"pending_verification", "verified", "suspended"}

ASSUME LimitAssumption ==
    /\ Limit \in [PlanTier -> Nat \cup {NoLimit}]
    /\ NoLimit \notin Nat

ASSUME PercentAssumption == Percents \subseteq 0 .. 100 /\ 0 \in Percents

NoOne == "none"         \* where another row may name a beneficiary

ASSUME HeirAssumption == IsFiniteSet(Heirs) /\ NoOne \notin Heirs

VARIABLES
    plan,           \* the plan of the owner's newest subscription row
    heirs,          \* beneficiaries rows
    contacts,       \* trusted_contacts rows
    mailed,         \* beneficiaries who got the designation mail
    highest         \* history: the highest limit the owner's plans had

heirVars == <<plan, heirs, contacts, mailed, highest>>

Heir == [status: BeneficiaryStatus \cup {"none"}, percent: Percents, deleted: BOOLEAN]

NoHeir == [status |-> "none", percent |-> 0, deleted |-> FALSE]

\* The bodies of PUT /beneficiaries/{id}, POST .../verify and DELETE, as the columns
\* they set.
HeirUpdate == [status: {Keep}, percent: Percents, deleted: {Keep}]
HeirVerify == [status: BeneficiaryStatus, percent: {Keep}, deleted: {Keep}]
HeirDelete == [status: {Keep}, percent: {Keep}, deleted: {TRUE}]

HeirRequest ==
    [kind: {"create"}, heir: Heirs, percent: Percents]
    \cup [kind: {"edit"}, heir: Heirs, seen: Heir, set: HeirUpdate \cup HeirVerify \cup HeirDelete]
    \cup [kind: {"contact"}, contact: Contacts]
    \cup [kind: {"plan"}, plan: PlanTier]
    \cup [kind: {"mail"}, heir: Heirs]

HeirsTypeOK ==
    /\ plan \in PlanTier
    /\ heirs \in [Heirs -> Heir]
    /\ contacts \subseteq Contacts
    /\ mailed \subseteq Heirs
    /\ highest \in Nat \cup {NoLimit}

HeirsInit ==
    /\ plan = "free"
    /\ heirs = [h \in Heirs |-> NoHeir]
    /\ contacts = {}
    /\ mailed = {}
    /\ highest = Limit["free"]

-----------------------------------------------------------------------------
(* Reading                                                                 *)

\* list_for_owner, get_for_owner: the rows that are not deleted.
Living == {h \in Heirs : heirs[h].status # "none" /\ ~heirs[h].deleted}

\* count_for_owner.
Count == Cardinality(Living)

\* Mutant: the cap is tested with > instead of >=.
AtLimitLoose(p) == Limit[p] # NoLimit /\ Count > Limit[p]

\* A plan without a limit never refuses.
AtLimit(p) == Limit[p] # NoLimit /\ Count >= Limit[p]

-----------------------------------------------------------------------------
(* Requests arriving                                                       *)

Creating(h) == \E w \in Workers : ~Free(w) /\ req[w].kind = "create" /\ req[w].heir = h

\* Mutant: the heir is told before the row is committed.
CreateMails(w, h, percent) ==
    /\ heirs[h].status = "none" /\ ~Creating(h)
    /\ ~AtLimit(plan)
    /\ Begins(w, [kind |-> "create", heir |-> h, percent |-> percent])
    /\ mailed' = mailed \cup {h}
    /\ UNCHANGED <<plan, heirs, contacts, highest>>

Create(w, h, percent) ==
    /\ heirs[h].status = "none" /\ ~Creating(h)
    /\ ~AtLimit(plan)
    /\ Begins(w, [kind |-> "create", heir |-> h, percent |-> percent])
    /\ UNCHANGED heirVars

\* update, verify and delete load the row and set some of its columns.
Edit(w, h, set) ==
    /\ h \in Living
    /\ Begins(w, [kind |-> "edit", heir |-> h, seen |-> heirs[h], set |-> set])
    /\ UNCHANGED heirVars

CreateContact(w, c) ==
    /\ c \notin contacts
    /\ \A v \in Workers : ~Free(v) /\ req[v].kind = "contact" => req[v].contact # c
    /\ Begins(w, [kind |-> "contact", contact |-> c])
    /\ UNCHANGED heirVars

\* A change or an activation of the plan, in the subscriptions domain.
ChangePlan(w, p) ==
    /\ Begins(w, [kind |-> "plan", plan |-> p])
    /\ UNCHANGED heirVars

-----------------------------------------------------------------------------
(* Their commits                                                           *)

\* After the commit the answer leaves, and the mail is a background task.
CommitCreate(w) ==
    LET r == req[w] IN
    /\ ~Free(w) /\ r.kind = "create"
    /\ heirs' = [heirs EXCEPT ![r.heir] = [status |-> "pending_verification",
                                           percent |-> r.percent, deleted |-> FALSE]]
    /\ Continues(w, [kind |-> "mail", heir |-> r.heir])
    /\ UNCHANGED <<plan, contacts, mailed, highest>>

\* safe_send: a mail service that fails is logged and forgotten.
SendMail(w) ==
    /\ ~Free(w) /\ req[w].kind = "mail"
    /\ mailed' \in {mailed, mailed \cup {req[w].heir}}
    /\ Answers(w)
    /\ UNCHANGED <<plan, heirs, contacts, highest>>

CommitEdit(w) ==
    LET r == req[w] IN
    /\ ~Free(w) /\ r.kind = "edit"
    /\ heirs' = [heirs EXCEPT ![r.heir] = Updated(@, r.seen, r.set)]
    /\ Answers(w)
    /\ UNCHANGED <<plan, contacts, mailed, highest>>

CommitContact(w) ==
    /\ ~Free(w) /\ req[w].kind = "contact"
    /\ contacts' = contacts \cup {req[w].contact}
    /\ Answers(w)
    /\ UNCHANGED <<plan, heirs, mailed, highest>>

CommitPlan(w) ==
    /\ ~Free(w) /\ req[w].kind = "plan"
    /\ plan' = req[w].plan
    /\ highest' = IF NoLimit \in {highest, Limit[plan']} THEN NoLimit
                  ELSE IF Limit[plan'] > highest THEN Limit[plan'] ELSE highest
    /\ Answers(w)
    /\ UNCHANGED <<heirs, contacts, mailed>>

ArriveHeir(w) ==
    \/ \E h \in Heirs \cap load.scope, p \in Percents \cap load.scope :
        "create" \in load.kinds /\ Create(w, h, p)
    \/ \E h \in Heirs, set \in HeirUpdate \cup HeirVerify :
        "edit" \in load.kinds /\ Edit(w, h, set)
    \/ \E h \in Heirs, set \in HeirDelete : "delete" \in load.kinds /\ Edit(w, h, set)
    \/ \E c \in Contacts \cap load.scope : "contact" \in load.kinds /\ CreateContact(w, c)
    \/ \E p \in PlanTier : "plan" \in load.kinds /\ ChangePlan(w, p)

WorkHeir(w) ==
    CommitCreate(w) \/ SendMail(w) \/ CommitEdit(w) \/ CommitContact(w) \/ CommitPlan(w)

-----------------------------------------------------------------------------
(* Properties                                                              *)

\* _beneficiary_limit: "Beneficiary cap for the owner's current plan".  No row is
\* added beyond the cap; a change of the plan may leave more than the new cap.
\* Creates that overlap break it.
WithinCap == Count' > Count => Limit[plan] = NoLimit \/ Count' <= Limit[plan]

CapHolds == [][WithinCap]_<<heirVars, requestVars>>

\* Creates that do not overlap stay within the cap, however deletions, changes of the
\* plan and requests that die come between them.
CapRespected == [][Serial => WithinCap]_<<heirVars, requestVars>>

\* However creates overlap, each worker adds at most the one row that its own count
\* did not see: the cap is exceeded by less than the number of workers.
OvershootIsBounded ==
    highest # NoLimit => Count < highest + Cardinality(Workers)

\* PLAN_CATALOG lists "1 trusted contact" for the free plan.  Nothing counts them.
ContactCapRespected ==
    [][contacts' # contacts /\ plan = "free" => Cardinality(contacts') <= 1]_heirVars

\* The designation mail goes to people who have been committed as beneficiaries,
\* whatever dies on the way.
MailIsBacked == \A h \in mailed : heirs[h].status # "none"
=============================================================================
