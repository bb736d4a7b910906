------------------------------ MODULE Payments ------------------------------
(***************************************************************************)
(* Paid plans: checkout, Paystack, the three ways a payment is finalized,  *)
(* and the subscription row they all write                                 *)
(* (backend/app/domains/subscriptions, backend/app/integrations/paystack). *)
(*                                                                         *)
(* A request is handled by a worker (a thread of the pool, the event loop  *)
(* or another process).  Its session reads committed rows when it needs    *)
(* them and writes them all at db.commit(); there are no row locks taken   *)
(* on read and no version columns, so what a worker read may be stale when *)
(* it commits.  One action is one database read, one exchange with         *)
(* Paystack or one commit.                                                 *)
(*                                                                         *)
(* Not represented: wording, amounts, currencies, the time a plan renews,  *)
(* the audit rows written in the same commit.                              *)
(***************************************************************************)
EXTENDS Naturals

CONSTANTS
    Owners,
    Refs,           \* payment references; each is a fresh uuid, so it has
    OwnerOf,        \* one buyer,
    PlanOf,         \* one paid plan
    CycleOf,        \* and one billing cycle, fixed by its checkout
    Workers,
    Kinds,          \* the request kinds that clients and Paystack send
    MaxFailures,    \* how many requests may die before their commit
    NoRef,          \* the reference of a request that is not about a payment
    NoRequest       \* what an idle worker is doing

PlanTier == {"free", "premium", "family"}
BillingCycle == {"monthly", "yearly"}
SubscriptionStatus == {"active", "canceled"}
PaymentStatus == {"pending", "success", "failed", "abandoned"}
ChargeStatus == {"none", "open", "failed", "abandoned", "success"}
PaymentKinds == {"checkout", "verify", "callback", "webhook"}
SubscriptionKinds == {"current", "change", "cancel"}

ASSUME PurchaseAssumption ==
    /\ OwnerOf \in [Refs -> Owners]
    /\ PlanOf \in [Refs -> PlanTier \ {"free"}]
    /\ CycleOf \in [Refs -> BillingCycle]

ASSUME RequestAssumption ==
    /\ Kinds \subseteq PaymentKinds \cup SubscriptionKinds
    /\ NoRef \notin Refs

ASSUME FailureAssumption == MaxFailures \in Nat

VARIABLES
    txn,        \* payment_transactions.status of a reference; "none": no row
    billing,    \* how many billing_records rows a reference has produced
    subs,       \* subscriptions rows: of an owner, by the worker that inserted
    clock,      \* created_at of an owner's youngest row, committed or not
    charge,     \* Paystack's status of a reference
    links,      \* references whose authorization_url a client has received
    acked,      \* references whose webhook Paystack has seen answered with 200
    pc,         \* what each worker does next
    req,        \* the request it handles
    failures

vars == <<txn, billing, subs, clock, charge, links, acked, pc, req, failures>>
dbVars == <<txn, billing, subs, clock>>
paystackVars == <<charge, links, acked>>

(***************************************************************************)
(* Types.  An owner has at most one row per inserting worker, because a    *)
(* worker inserts only when it finds no row at all; born = 0: no such row. *)
(***************************************************************************)

Row == [born: Nat, plan: PlanTier, cycle: BillingCycle, status: SubscriptionStatus]

NoRow == [born |-> 0, plan |-> "free", cycle |-> "monthly", status |-> "active"]

Request == [kind: PaymentKinds \cup SubscriptionKinds,
            owner: Owners,
            ref: Refs \cup {NoRef},
            cycle: BillingCycle,                \* asked for by a change of plan
            seen: PaymentStatus \cup {"none"},  \* transaction.status as loaded
            answer: ChargeStatus,               \* what Paystack said
            id: Workers,                        \* the subscription row in hand,
            row: Row]                           \* as loaded or as inserted

PC == {"idle", "initialized", "respond", "ask", "load", "commit"}

TypeOK ==
    /\ txn \in [Refs -> PaymentStatus \cup {"none"}]
    /\ billing \in [Refs -> Nat]
    /\ subs \in [Owners -> [Workers -> Row]]
    /\ clock \in [Owners -> Nat]
    /\ charge \in [Refs -> ChargeStatus]
    /\ links \subseteq Refs
    /\ acked \subseteq Refs
    /\ pc \in [Workers -> PC]
    /\ req \in [Workers -> Request \cup {NoRequest}]
    /\ \A w \in Workers : pc[w] # "idle" => req[w] \in Request
    /\ failures \in 0 .. MaxFailures

Init ==
    /\ txn = [r \in Refs |-> "none"]
    /\ billing = [r \in Refs |-> 0]
    /\ subs = [o \in Owners |-> [w \in Workers |-> NoRow]]
    /\ clock = [o \in Owners |-> 0]
    /\ charge = [r \in Refs |-> "none"]
    /\ links = {}
    /\ acked = {}
    /\ pc = [w \in Workers |-> "idle"]
    /\ req = [w \in Workers |-> NoRequest]
    /\ failures = 0

-----------------------------------------------------------------------------
(* Requests arriving and workers moving on                                 *)

Arrives(w, kind, next, owner, ref, cycle, seen, answer) ==
    /\ pc[w] = "idle"
    /\ kind \in Kinds
    /\ pc' = [pc EXCEPT ![w] = next]
    /\ req' = [req EXCEPT ![w] =
                [kind |-> kind, owner |-> owner, ref |-> ref, cycle |-> cycle,
                 seen |-> seen, answer |-> answer, id |-> w, row |-> NoRow]]

Ends(w) ==
    /\ pc' = [pc EXCEPT ![w] = "idle"]
    /\ req' = [req EXCEPT ![w] = NoRequest]

\* Mutant: the authorization_url leaves before the pending row is committed.
StartCheckoutRespondsFirst(w, r) ==
    /\ charge[r] = "none"
    /\ Arrives(w, "checkout", "initialized", OwnerOf[r], r, CycleOf[r], "none", "open")
    /\ charge' = [charge EXCEPT ![r] = "open"]
    /\ links' = links \cup {r}
    /\ UNCHANGED <<dbVars, acked, failures>>

\* start_checkout: the pending row is flushed but not committed when Paystack
\* learns the reference.
StartCheckout(w, r) ==
    /\ charge[r] = "none"
    /\ Arrives(w, "checkout", "initialized", OwnerOf[r], r, CycleOf[r], "none", "open")
    /\ charge' = [charge EXCEPT ![r] = "open"]
    /\ UNCHANGED <<dbVars, links, acked, failures>>

CheckoutCommit(w) ==
    /\ pc[w] = "initialized"
    /\ txn' = [txn EXCEPT ![req[w].ref] = "pending"]
    /\ pc' = [pc EXCEPT ![w] = "respond"]
    /\ UNCHANGED <<billing, subs, clock, paystackVars, req, failures>>

CheckoutRespond(w) ==
    /\ pc[w] = "respond"
    /\ links' = links \cup {req[w].ref}
    /\ Ends(w)
    /\ UNCHANGED <<dbVars, charge, acked, failures>>

\* verify and finalize_by_reference load the transaction, then ask Paystack.
Verify(w, r) ==
    /\ txn[r] # "none"
    /\ Arrives(w, "verify", "ask", OwnerOf[r], r, CycleOf[r], txn[r], "none")
    /\ UNCHANGED <<dbVars, paystackVars, failures>>

FinalizeByReference(w, r) ==
    /\ txn[r] # "none"
    /\ Arrives(w, "callback", "ask", OwnerOf[r], r, CycleOf[r], txn[r], "none")
    /\ UNCHANGED <<dbVars, paystackVars, failures>>

\* Mutant: the webhook is answered when it arrives and applied afterwards.
HandleWebhookAnswersFirst(w, r) ==
    /\ charge[r] = "success"
    /\ txn[r] \notin {"none", "success"}
    /\ Arrives(w, "webhook", "load", OwnerOf[r], r, CycleOf[r], txn[r], "success")
    /\ acked' = acked \cup {r}
    /\ UNCHANGED <<dbVars, charge, links, failures>>

\* Mutant: only a transaction that is still pending is finalized.
HandleWebhookPendingOnly(w, r) ==
    /\ charge[r] = "success"
    /\ \/ /\ txn[r] = "pending"
          /\ Arrives(w, "webhook", "load", OwnerOf[r], r, CycleOf[r], txn[r], "success")
          /\ UNCHANGED acked
       \/ /\ txn[r] # "pending"
          /\ pc[w] = "idle"
          /\ acked' = acked \cup {r}
          /\ UNCHANGED <<pc, req>>
    /\ UNCHANGED <<dbVars, charge, links, failures>>

\* The webhook of a charge that succeeded, first delivery or retry.  A
\* reference without a row, or one already successful, is answered at once.
HandleWebhook(w, r) ==
    /\ charge[r] = "success"
    /\ \/ /\ txn[r] \notin {"none", "success"}
          /\ Arrives(w, "webhook", "load", OwnerOf[r], r, CycleOf[r], txn[r], "success")
          /\ UNCHANGED acked
       \/ /\ txn[r] \in {"none", "success"}
          /\ pc[w] = "idle"
          /\ "webhook" \in Kinds
          /\ acked' = acked \cup {r}
          /\ UNCHANGED <<pc, req>>
    /\ UNCHANGED <<dbVars, charge, links, failures>>

CurrentSubscription(w, o) ==
    /\ Arrives(w, "current", "load", o, NoRef, "monthly", "none", "none")
    /\ UNCHANGED <<dbVars, paystackVars, failures>>

\* POST /change accepts only the free plan.
ChangePlan(w, o, c) ==
    /\ Arrives(w, "change", "load", o, NoRef, c, "none", "none")
    /\ UNCHANGED <<dbVars, paystackVars, failures>>

Cancel(w, o) ==
    /\ Arrives(w, "cancel", "load", o, NoRef, "monthly", "none", "none")
    /\ UNCHANGED <<dbVars, paystackVars, failures>>

-----------------------------------------------------------------------------
(* The steps of a request                                                  *)

\* Mutant: the early return of _finalize is dropped.
FinalizesAgain(q) ==
    /\ q.kind \in {"verify", "callback", "webhook"}
    /\ q.answer = "success"

\* Mutant: verify finalizes without looking at result.paid.
FinalizesUnpaid(q) ==
    /\ q.kind \in {"verify", "callback", "webhook"}
    /\ q.seen # "success"

\* _finalize goes past its early return.
Finalizes(q) ==
    /\ q.kind \in {"verify", "callback", "webhook"}
    /\ q.answer = "success"
    /\ q.seen # "success"

\* verify also touches the subscription when nothing is finalized (its
\* response shows it); finalize_by_reference then has nothing to write.
VerifyTransaction(w) ==
    /\ pc[w] = "ask"
    /\ LET q == [req[w] EXCEPT !.answer = charge[req[w].ref]] IN
        \/ /\ q.kind = "verify" \/ Finalizes(q)
           /\ pc' = [pc EXCEPT ![w] = "load"]
           /\ req' = [req EXCEPT ![w] = q]
        \/ /\ q.kind # "verify" /\ ~Finalizes(q)
           /\ Ends(w)
    /\ UNCHANGED <<dbVars, paystackVars, failures>>

Exists(o, id) == subs[o][id].born > 0

\* get_for_owner: the row with the latest created_at.
IsNewest(o, id) ==
    /\ Exists(o, id)
    /\ \A other \in Workers : subs[o][other].born <= subs[o][id].born

\* _get_or_create_by_id: a missing row is inserted and flushed now, and gets
\* its created_at now; others see it after the commit.
GetOrCreate(w) ==
    /\ pc[w] = "load"
    /\ LET o == req[w].owner IN
        \/ /\ \E id \in Workers :
                /\ IsNewest(o, id)
                /\ req' = [req EXCEPT ![w].id = id, ![w].row = subs[o][id]]
           /\ UNCHANGED clock
        \/ /\ \A id \in Workers : ~Exists(o, id)
           /\ clock' = [clock EXCEPT ![o] = @ + 1]
           /\ req' = [req EXCEPT ![w].row = [NoRow EXCEPT !.born = clock[o] + 1]]
    /\ pc' = [pc EXCEPT ![w] = "commit"]
    /\ UNCHANGED <<txn, billing, subs, paystackVars, failures>>

\* Mutant: verify stores whatever status Paystack answered.
CommittedStatusUnfiltered(q) ==
    IF Finalizes(q) THEN "success"
    ELSE IF q.kind = "verify" /\ q.answer # q.seen THEN q.answer
    ELSE txn[q.ref]

\* Mutant: what verify does not finalize goes back to pending.
CommittedStatusReset(q) ==
    IF Finalizes(q) THEN "success"
    ELSE IF q.kind = "verify" THEN "pending"
    ELSE txn[q.ref]

\* The transaction status that the commit leaves.  The attribute is written
\* only if it differs from what was loaded.
CommittedStatus(q) ==
    IF Finalizes(q) THEN "success"
    ELSE IF q.kind = "verify" /\ q.answer \in {"failed", "abandoned"} /\ q.answer # q.seen
    THEN q.answer
    ELSE txn[q.ref]

\* Mutant: a paid plan does not lift an earlier cancellation.
ActivatePaidPlanStaysCanceled(row, r) ==
    [row EXCEPT !.plan = PlanOf[r], !.cycle = CycleOf[r]]

ActivatePaidPlan(row, r) ==
    [row EXCEPT !.plan = PlanOf[r], !.cycle = CycleOf[r], !.status = "active"]

\* Mutant: /change accepts a paid plan.
ChangedPlanAny(row, cycle) ==
    [row EXCEPT !.plan = "family", !.cycle = cycle, !.status = "active"]

ChangedPlan(row, cycle) ==
    [row EXCEPT !.plan = "free", !.cycle = cycle, !.status = "active"]

Canceled(row) == [row EXCEPT !.status = "canceled"]

\* The attributes of the subscription when the handler is done with it.
EditedRow(q) ==
    CASE Finalizes(q) -> ActivatePaidPlan(q.row, q.ref)
      [] q.kind = "change" -> ChangedPlan(q.row, q.cycle)
      [] q.kind = "cancel" -> Canceled(q.row)
      [] OTHER -> q.row

\* The row after the commit: an INSERT of all columns, or an UPDATE of the
\* columns whose value differs from the one that was loaded.
CommittedRow(q) ==
    LET edited == EditedRow(q)
        stored == subs[q.owner][q.id]
        Column(loaded, new, old) == IF new = loaded THEN old ELSE new
    IN  IF stored.born = 0 THEN edited
        ELSE [born |-> stored.born,
              plan |-> Column(q.row.plan, edited.plan, stored.plan),
              cycle |-> Column(q.row.cycle, edited.cycle, stored.cycle),
              status |-> Column(q.row.status, edited.status, stored.status)]

Commit(w) ==
    /\ pc[w] = "commit"
    /\ LET q == req[w] IN
        /\ subs' = [subs EXCEPT ![q.owner][q.id] = CommittedRow(q)]
        /\ IF q.ref = NoRef THEN UNCHANGED <<txn, billing>>
           ELSE /\ txn' = [txn EXCEPT ![q.ref] = CommittedStatus(q)]
                /\ billing' = IF Finalizes(q) THEN [billing EXCEPT ![q.ref] = @ + 1] ELSE billing
        /\ \/ q.kind = "webhook" /\ acked' = acked \cup {q.ref}
           \/ UNCHANGED acked              \* no webhook, or its answer is lost
    /\ Ends(w)
    /\ UNCHANGED <<clock, charge, links, failures>>

\* An exception, a dropped connection or a crash before the commit: the
\* session is closed and the database transaction rolled back.
Rollback(w) ==
    /\ pc[w] # "idle"
    /\ failures < MaxFailures
    /\ failures' = failures + 1
    /\ Ends(w)
    /\ UNCHANGED <<dbVars, paystackVars>>

-----------------------------------------------------------------------------
(* Paystack and the customer.  A failed or abandoned charge can still be   *)
(* paid with the same authorization_url; a successful one is final.        *)

ChargeSucceeds(r) ==
    /\ r \in links
    /\ charge[r] # "success"
    /\ charge' = [charge EXCEPT ![r] = "success"]
    /\ UNCHANGED <<dbVars, links, acked, pc, req, failures>>

ChargeFails(r) ==
    /\ r \in links
    /\ charge[r] \in {"open", "abandoned"}
    /\ charge' = [charge EXCEPT ![r] = "failed"]
    /\ UNCHANGED <<dbVars, links, acked, pc, req, failures>>

ChargeAbandoned(r) ==
    /\ charge[r] \in {"open", "failed"}
    /\ charge' = [charge EXCEPT ![r] = "abandoned"]
    /\ UNCHANGED <<dbVars, links, acked, pc, req, failures>>

-----------------------------------------------------------------------------

WorkerStep(w) ==
    \/ CheckoutCommit(w)
    \/ CheckoutRespond(w)
    \/ VerifyTransaction(w)
    \/ GetOrCreate(w)
    \/ Commit(w)

PaymentRequest(w, r) ==
    \/ StartCheckout(w, r)
    \/ Verify(w, r)
    \/ FinalizeByReference(w, r)
    \/ HandleWebhook(w, r)

SubscriptionRequest(w, o) ==
    \/ CurrentSubscription(w, o)
    \/ \E c \in BillingCycle : ChangePlan(w, o, c)
    \/ Cancel(w, o)

Customer(r) == ChargeSucceeds(r) \/ ChargeFails(r) \/ ChargeAbandoned(r)

Next ==
    \/ \E w \in Workers : WorkerStep(w) \/ Rollback(w)
    \/ \E w \in Workers, r \in Refs : PaymentRequest(w, r)
    \/ \E w \in Workers, o \in Owners : SubscriptionRequest(w, o)
    \/ \E r \in Refs : Customer(r)

Spec == Init /\ [][Next]_vars

\* A request that is being handled is not suspended for ever (the Paystack
\* client has a timeout), and Paystack repeats a webhook until it has seen
\* it answered with 200.
Fairness ==
    /\ \A w \in Workers : WF_vars(WorkerStep(w))
    /\ \A r \in Refs : SF_vars(\E w \in Workers : r \notin acked /\ HandleWebhook(w, r))

FairSpec == Spec /\ Fairness

-----------------------------------------------------------------------------
(* Properties                                                              *)

\* Nobody is charged for a reference the database does not know: the pending
\* row is committed before the authorization_url leaves start_checkout.
ChargeHasTransaction ==
    \A r \in Refs : charge[r] = "success" => txn[r] # "none"

\* The payment tables agree with Paystack: a reference that was billed or is
\* recorded as successful was really paid, and one recorded as successful was
\* billed.  Holds although verify, callback and webhook act on stale reads.
LedgerIsBacked ==
    \A r \in Refs :
        /\ billing[r] > 0 => charge[r] = "success"
        /\ txn[r] = "success" => billing[r] > 0

\* No subscription row carries a paid plan that its owner has not paid for,
\* whatever mixture of finalize, change and cancel wrote its columns.
PaidPlanIsBacked ==
    \A o \in Owners, w \in Workers :
        subs[o][w].plan # "free" =>
            \E r \in Refs : /\ OwnerOf[r] = o
                            /\ PlanOf[r] = subs[o][w].plan
                            /\ charge[r] = "success"
                            /\ billing[r] > 0

\* When Paystack has been told that a webhook is handled, and so stops
\* repeating it, the payment has been applied.
AckedIsApplied ==
    \A r \in acked : billing[r] > 0

\* _finalize bills a payment once.
BilledOnce ==
    \A r \in Refs : billing[r] <= 1

\* A payment that the webhook (or another finalization) recorded as
\* successful stays so.
SuccessIsFinal ==
    [][\A r \in Refs : txn[r] = "success" => txn'[r] = "success"]_vars

\* Once a payment has been finalized, the plan that the owner's requests see
\* is the plan that was paid for.
ActivationTakesEffect ==
    [][\A r \in Refs : billing'[r] # billing[r] =>
            \E id \in Workers : /\ IsNewest(OwnerOf[r], id)'
                                /\ subs'[OwnerOf[r]][id].plan = PlanOf[r]
                                /\ subs'[OwnerOf[r]][id].status = "active"]_vars

\* A customer who has paid gets the plan activated, even if the app never
\* calls verify and the browser never returns.
PaidIsActivated ==
    \A r \in Refs : charge[r] = "success" ~> billing[r] > 0

Paid == {r \in Refs : charge[r] = "success"}

AtLeastOnce == INSTANCE PaymentLedger WITH Once <- FALSE, paid <- Paid, activated <- billing
ExactlyOnce == INSTANCE PaymentLedger WITH Once <- TRUE, paid <- Paid, activated <- billing

\* Payments implements the ledger that activates a paid purchase at least
\* once, with its liveness.
ImplementsAtLeastOnce == AtLeastOnce!Spec

\* The same, exactly once.
ImplementsExactlyOnce == ExactlyOnce!Safety
=============================================================================
