--------------------------- MODULE PaymentsProofs ---------------------------
(***************************************************************************)
(* Type correctness and safety of Payments for any owners, references,     *)
(* plans and any number of workers; then what holds on top of it when      *)
(* requests do not overlap.                                                *)
(***************************************************************************)
EXTENDS Payments, TLAPS

(***************************************************************************)
(* The inductive invariant.  What a worker holds when it commits was read  *)
(* earlier; the parts below say which of it is still true then, because    *)
(* the other side only ever moves forward: a row does not disappear, a     *)
(* successful charge stays successful, a billing record is not deleted.    *)
(***************************************************************************)

Backed(o, plan) ==
    plan # "free" =>
        \E r \in Refs : /\ OwnerOf[r] = o
                        /\ PlanOf[r] = plan
                        /\ charge[r] = "success"
                        /\ billing[r] > 0

LinksHaveTransactions == \A r \in links : txn[r] # "none"

Sound(w) ==
    /\ pc[w] \in {"initialized", "respond", "ask"} => req[w].ref \in Refs
    /\ pc[w] = "respond" => txn[req[w].ref] # "none"
    /\ pc[w] \in {"ask", "load", "commit"} /\ req[w].ref \in Refs =>
            /\ txn[req[w].ref] # "none"
            /\ req[w].owner = OwnerOf[req[w].ref]
    /\ pc[w] \in {"ask", "load", "commit"} /\ req[w].ref = NoRef =>
            req[w].kind \in SubscriptionKinds
    /\ pc[w] \in {"load", "commit"} /\ Finalizes(req[w]) => charge[req[w].ref] = "success"
    /\ pc[w] \in {"load", "commit"} /\ req[w].kind = "webhook" => Finalizes(req[w])
    /\ pc[w] = "commit" => Backed(req[w].owner, req[w].row.plan)

RequestsAreSound == \A w \in Workers : Sound(w)

RowsAreBacked == \A o \in Owners, w \in Workers : Backed(o, subs[o][w].plan)

IInv ==
    /\ TypeOK
    /\ LinksHaveTransactions
    /\ RequestsAreSound
    /\ ChargeHasTransaction
    /\ LedgerIsBacked
    /\ RowsAreBacked
    /\ AckedIsApplied

-----------------------------------------------------------------------------
(* Types                                                                   *)

\* What the steps of a worker and the requests it takes in have in common.
LEMMA ArrivesType ==
    ASSUME TypeOK, NEW w \in Workers, NEW kind, NEW next \in PC \ {"idle"},
           NEW owner \in Owners, NEW ref \in Refs \cup {NoRef}, NEW cycle \in BillingCycle,
           NEW seen \in PaymentStatus \cup {"none"}, NEW answer \in ChargeStatus,
           Arrives(w, kind, next, owner, ref, cycle, seen, answer)
    PROVE  /\ pc' \in [Workers -> PC]
           /\ req' \in [Workers -> Request \cup {NoRequest}]
           /\ \A v \in Workers : pc'[v] # "idle" => req'[v] \in Request
<1>1. NoRow \in Row
  BY DEF NoRow, Row, PlanTier, BillingCycle, SubscriptionStatus
<1>2. kind \in PaymentKinds \cup SubscriptionKinds
  BY RequestAssumption DEF Arrives
<1> DEFINE q == [kind |-> kind, owner |-> owner, ref |-> ref, cycle |-> cycle,
                 seen |-> seen, answer |-> answer, id |-> w, row |-> NoRow]
<1>3. q \in Request
  BY <1>1, <1>2 DEF Request
<1>4. /\ pc' = [pc EXCEPT ![w] = next]
      /\ req' = [req EXCEPT ![w] = q]
  BY DEF Arrives
<1> HIDE DEF q
<1>5. QED
  BY <1>3, <1>4 DEF TypeOK

LEMMA EndsType ==
    ASSUME TypeOK, NEW w \in Workers, Ends(w)
    PROVE  /\ pc' \in [Workers -> PC]
           /\ req' \in [Workers -> Request \cup {NoRequest}]
           /\ \A v \in Workers : pc'[v] # "idle" => req'[v] \in Request
BY DEF Ends, TypeOK, PC

\* The handler leaves a row of the right type, whatever it loaded.
LEMMA EditedRowType ==
    ASSUME NEW q \in Request, Finalizes(q) => q.ref \in Refs
    PROVE  EditedRow(q) \in Row
<1>1. q.row \in Row /\ q.cycle \in BillingCycle
  BY DEF Request
<1>2. CASE Finalizes(q)
  <2>1. PlanOf[q.ref] \in PlanTier /\ CycleOf[q.ref] \in BillingCycle
    BY <1>2, PurchaseAssumption
  <2>2. EditedRow(q) = [q.row EXCEPT !.plan = PlanOf[q.ref], !.cycle = CycleOf[q.ref],
                                     !.status = "active"]
    <3>1. q.kind \notin {"change", "cancel"}
      BY <1>2 DEF Finalizes
    <3>2. QED
      BY <1>2, <3>1 DEF EditedRow, ActivatePaidPlan, ChangedPlan, Canceled
  <2>3. QED
    BY <1>1, <2>1, <2>2 DEF Row, SubscriptionStatus
<1>3. CASE ~Finalizes(q) /\ q.kind = "change"
  <2>1. EditedRow(q) = [q.row EXCEPT !.plan = "free", !.cycle = q.cycle, !.status = "active"]
    BY <1>3, Zenon DEF EditedRow, ActivatePaidPlan, ChangedPlan, Canceled, Finalizes
  <2>2. QED
    BY <1>1, <2>1 DEF Row, PlanTier, SubscriptionStatus
<1>4. CASE ~Finalizes(q) /\ q.kind = "cancel"
  <2>1. EditedRow(q) = [q.row EXCEPT !.status = "canceled"]
    BY <1>4 DEF EditedRow, ActivatePaidPlan, ChangedPlan, Canceled
  <2>2. QED
    BY <1>1, <2>1 DEF Row, SubscriptionStatus
<1>5. CASE ~Finalizes(q) /\ q.kind \notin {"change", "cancel"}
  BY <1>1, <1>5 DEF EditedRow, ActivatePaidPlan, ChangedPlan, Canceled
<1>6. QED
  BY <1>2, <1>3, <1>4, <1>5

\* So does the commit, and the plan it leaves is the one that was stored or
\* the one that the handler asked for.
LEMMA CommittedRowFacts ==
    ASSUME TypeOK, NEW q \in Request, Finalizes(q) => q.ref \in Refs
    PROVE  /\ CommittedRow(q) \in Row
           /\ CommittedRow(q).plan \in {subs[q.owner][q.id].plan, EditedRow(q).plan}
<1>1. q.row \in Row /\ EditedRow(q) \in Row
  BY EditedRowType DEF Request
<1>2. subs[q.owner][q.id] \in Row
  BY DEF TypeOK, Request
<1> HIDE DEF EditedRow
<1>3. CASE subs[q.owner][q.id].born = 0
  BY <1>1, <1>3 DEF CommittedRow
<1>4. CASE subs[q.owner][q.id].born # 0
  BY <1>1, <1>2, <1>4 DEF CommittedRow, Row
<1>5. QED
  BY <1>3, <1>4

LEMMA CommittedStatusType ==
    ASSUME TypeOK, NEW q \in Request, q.ref \in Refs
    PROVE  CommittedStatus(q) \in PaymentStatus \cup {"none"}
BY DEF CommittedStatus, TypeOK, Request, PaymentStatus

\* A worker about to finalize has a reference.
LEMMA FinalizedRef ==
    ASSUME TypeOK, RequestsAreSound, NEW w \in Workers, pc[w] \in {"ask", "load", "commit"}
    PROVE  /\ req[w] \in Request
           /\ req[w].ref # NoRef => req[w].ref \in Refs
           /\ req[w].kind \in {"verify", "callback", "webhook"} => req[w].ref \in Refs
           /\ Finalizes(req[w]) => req[w].ref \in Refs
<1>1. req[w] \in Request
  BY DEF TypeOK
<1>2. req[w].ref # NoRef => req[w].ref \in Refs
  BY <1>1 DEF Request
<1>3. req[w].ref = NoRef => req[w].kind \notin {"verify", "callback", "webhook"}
  BY DEF RequestsAreSound, Sound, SubscriptionKinds
<1>4. QED
  BY <1>1, <1>2, <1>3 DEF Finalizes

LEMMA TypeStep ==
    ASSUME TypeOK, RequestsAreSound, [Next]_vars
    PROVE  TypeOK'
<1> USE PurchaseAssumption, FailureAssumption DEF dbVars, paystackVars
<1>1. ASSUME NEW w \in Workers, NEW r \in Refs, StartCheckout(w, r)
      PROVE  TypeOK'
  <2>1. OwnerOf[r] \in Owners /\ CycleOf[r] \in BillingCycle
    OBVIOUS
  <2>2. QED
    BY <1>1, <2>1, ArrivesType DEF StartCheckout, TypeOK, PC, PaymentStatus, ChargeStatus
<1>2. ASSUME NEW w \in Workers, NEW r \in Refs,
             Verify(w, r) \/ FinalizeByReference(w, r)
      PROVE  TypeOK'
  <2>1. OwnerOf[r] \in Owners /\ CycleOf[r] \in BillingCycle
    OBVIOUS
  <2>2. QED
    BY <1>2, <2>1, ArrivesType
    DEF Verify, FinalizeByReference, TypeOK, PC, PaymentStatus, ChargeStatus
<1>3. ASSUME NEW w \in Workers, NEW r \in Refs, HandleWebhook(w, r)
      PROVE  TypeOK'
  <2>1. OwnerOf[r] \in Owners /\ CycleOf[r] \in BillingCycle
    OBVIOUS
  <2>2. CASE Arrives(w, "webhook", "load", OwnerOf[r], r, CycleOf[r], txn[r], "success")
    BY <1>3, <2>1, <2>2, ArrivesType
    DEF HandleWebhook, TypeOK, PC, PaymentStatus, ChargeStatus
  <2>3. CASE UNCHANGED <<pc, req>>
    BY <1>3, <2>3 DEF HandleWebhook, TypeOK
  <2>4. QED
    BY <1>3, <2>2, <2>3 DEF HandleWebhook
<1>4. ASSUME NEW w \in Workers, NEW o \in Owners, SubscriptionRequest(w, o)
      PROVE  TypeOK'
  <2>1. \A c \in BillingCycle : ChangePlan(w, o, c) => TypeOK'
    BY <1>4, ArrivesType DEF ChangePlan, TypeOK, PC, PaymentStatus, ChargeStatus
  <2>2. Cancel(w, o) \/ CurrentSubscription(w, o) => TypeOK'
    BY <1>4, ArrivesType
    DEF Cancel, CurrentSubscription, TypeOK, PC, PaymentStatus, ChargeStatus, BillingCycle
  <2>3. QED
    BY <1>4, <2>1, <2>2 DEF SubscriptionRequest
<1>5. ASSUME NEW w \in Workers, CheckoutCommit(w)
      PROVE  TypeOK'
  BY <1>5 DEF CheckoutCommit, TypeOK, PC, PaymentStatus
<1>6. ASSUME NEW w \in Workers, CheckoutRespond(w)
      PROVE  TypeOK'
  BY <1>6, EndsType DEF CheckoutRespond, TypeOK, RequestsAreSound, Sound
<1>7. ASSUME NEW w \in Workers, VerifyTransaction(w)
      PROVE  TypeOK'
  <2>1. req[w] \in Request /\ req[w].ref \in Refs
    BY <1>7 DEF VerifyTransaction, TypeOK, RequestsAreSound, Sound
  <2> DEFINE q == [req[w] EXCEPT !.answer = charge[req[w].ref]]
  <2>2. q \in Request
    BY <2>1 DEF Request, TypeOK
  <2>3. CASE Ends(w)
    BY <1>7, <2>3, EndsType DEF VerifyTransaction, TypeOK
  <2>4. CASE pc' = [pc EXCEPT ![w] = "load"] /\ req' = [req EXCEPT ![w] = q]
    <3> HIDE DEF q
    <3>1. QED
      BY <1>7, <2>2, <2>4 DEF VerifyTransaction, TypeOK, PC
  <2>5. QED
    BY <1>7, <2>3, <2>4 DEF VerifyTransaction
<1>8. ASSUME NEW w \in Workers, GetOrCreate(w)
      PROVE  TypeOK'
  <2>1. req[w] \in Request /\ req[w].owner \in Owners
    BY <1>8 DEF GetOrCreate, TypeOK, Request
  <2>2. /\ req' \in [Workers -> Request \cup {NoRequest}]
        /\ req'[w] \in Request
        /\ \A v \in Workers \ {w} : req'[v] = req[v]
        /\ clock' \in [Owners -> Nat]
    <3>1. ASSUME NEW id \in Workers,
                 req' = [req EXCEPT ![w].id = id, ![w].row = subs[req[w].owner][id]]
          PROVE  /\ req' \in [Workers -> Request \cup {NoRequest}]
                 /\ req'[w] \in Request
                 /\ \A v \in Workers \ {w} : req'[v] = req[v]
      <4>1. subs[req[w].owner][id] \in Row
        BY <2>1 DEF TypeOK
      <4> DEFINE q == [req[w] EXCEPT !.id = id, !.row = subs[req[w].owner][id]]
      <4>2. q \in Request
        BY <2>1, <4>1 DEF Request
      <4>3. req' = [req EXCEPT ![w] = q]
        BY <3>1, <2>1 DEF TypeOK
      <4> HIDE DEF q
      <4>4. QED
        BY <4>2, <4>3 DEF TypeOK
    <3>2. ASSUME req' = [req EXCEPT ![w].row = [NoRow EXCEPT !.born = clock[req[w].owner] + 1]]
          PROVE  /\ req' \in [Workers -> Request \cup {NoRequest}]
                 /\ req'[w] \in Request
                 /\ \A v \in Workers \ {w} : req'[v] = req[v]
      <4>1. [NoRow EXCEPT !.born = clock[req[w].owner] + 1] \in Row
        BY <2>1 DEF TypeOK, NoRow, Row, PlanTier, BillingCycle, SubscriptionStatus
      <4> DEFINE q == [req[w] EXCEPT !.row = [NoRow EXCEPT !.born = clock[req[w].owner] + 1]]
      <4>2. q \in Request
        BY <2>1, <4>1 DEF Request
      <4>3. req' = [req EXCEPT ![w] = q]
        BY <3>2, <2>1 DEF TypeOK
      <4> HIDE DEF q
      <4>4. QED
        BY <4>2, <4>3 DEF TypeOK
    <3>3. clock' \in [Owners -> Nat]
      BY <1>8, <2>1 DEF GetOrCreate, TypeOK
    <3>4. QED
      BY <1>8, <3>1, <3>2, <3>3 DEF GetOrCreate
  <2>3. QED
    BY <1>8, <2>2 DEF GetOrCreate, TypeOK, PC
<1>9. ASSUME NEW w \in Workers, Commit(w)
      PROVE  TypeOK'
  <2>1. /\ req[w] \in Request
        /\ req[w].ref # NoRef => req[w].ref \in Refs
        /\ Finalizes(req[w]) => req[w].ref \in Refs
    BY <1>9, FinalizedRef DEF Commit
  <2>2. subs' \in [Owners -> [Workers -> Row]]
    <3>1. req[w].owner \in Owners /\ req[w].id \in Workers /\ CommittedRow(req[w]) \in Row
      BY <2>1, CommittedRowFacts DEF Request
    <3>2. subs' = [subs EXCEPT ![req[w].owner][req[w].id] = CommittedRow(req[w])]
      BY <1>9 DEF Commit
    <3>3. QED
      BY <3>1, <3>2 DEF TypeOK
  <2>3. txn' \in [Refs -> PaymentStatus \cup {"none"}] /\ billing' \in [Refs -> Nat]
    <3>1. CASE req[w].ref = NoRef
      BY <1>9, <3>1 DEF Commit, TypeOK
    <3>2. CASE req[w].ref # NoRef
      <4>1. CommittedStatus(req[w]) \in PaymentStatus \cup {"none"}
        BY <2>1, <3>2, CommittedStatusType
      <4>2. /\ txn' = [txn EXCEPT ![req[w].ref] = CommittedStatus(req[w])]
            /\ \/ billing' = [billing EXCEPT ![req[w].ref] = @ + 1]
               \/ billing' = billing
        BY <1>9, <3>2, Zenon DEF Commit
      <4>3. QED
        BY <2>1, <3>2, <4>1, <4>2 DEF TypeOK
    <3>3. QED
      BY <3>1, <3>2
  <2>4. acked' \subseteq Refs
    <3>1. req[w].kind = "webhook" => req[w].ref \in Refs
      BY <1>9, FinalizedRef DEF Commit
    <3>2. QED
      BY <1>9, <3>1 DEF Commit, TypeOK
  <2>5. QED
    BY <1>9, <2>2, <2>3, <2>4, EndsType DEF Commit, TypeOK
<1>10. ASSUME NEW w \in Workers, Rollback(w)
       PROVE  TypeOK'
  BY <1>10, EndsType DEF Rollback, TypeOK
<1>11. ASSUME NEW r \in Refs, Customer(r)
       PROVE  TypeOK'
  BY <1>11 DEF Customer, ChargeSucceeds, ChargeFails, ChargeAbandoned, TypeOK, ChargeStatus
<1>12. CASE UNCHANGED vars
  BY <1>12 DEF vars, TypeOK
<1>13. QED
  BY <1>1, <1>2, <1>3, <1>4, <1>5, <1>6, <1>7, <1>8, <1>9, <1>10, <1>11, <1>12
  DEF Next, WorkerStep, PaymentRequest

-----------------------------------------------------------------------------
(* What never goes back                                                    *)

\* The payment tables after a commit, without the nested conditions.
LEMMA CommitTables ==
    ASSUME TypeOK, RequestsAreSound, NEW w \in Workers, Commit(w)
    PROVE  /\ req[w].ref = NoRef => UNCHANGED <<txn, billing>>
           /\ req[w].ref # NoRef =>
                /\ req[w].ref \in Refs
                /\ txn' = [txn EXCEPT ![req[w].ref] = CommittedStatus(req[w])]
                /\ Finalizes(req[w]) => billing' = [billing EXCEPT ![req[w].ref] = @ + 1]
                /\ ~Finalizes(req[w]) => billing' = billing
<1>1. req[w].ref # NoRef => req[w].ref \in Refs
  BY FinalizedRef DEF Commit
<1>2. QED
  BY <1>1, Zenon DEF Commit

\* A paid charge, a transaction row and a billing record are there to stay.
LEMMA Monotone ==
    ASSUME TypeOK, RequestsAreSound, [Next]_vars, NEW r \in Refs
    PROVE  /\ charge[r] = "success" => charge'[r] = "success"
           /\ txn[r] # "none" => txn'[r] # "none"
           /\ billing[r] > 0 => billing'[r] > 0
<1> USE DEF dbVars, paystackVars
<1>1. ASSUME NEW w \in Workers, NEW s \in Refs, PaymentRequest(w, s)
      PROVE  /\ charge[r] = "success" => charge'[r] = "success"
             /\ UNCHANGED <<txn, billing>>
  BY <1>1
  DEF PaymentRequest, StartCheckout, Verify, FinalizeByReference, HandleWebhook, TypeOK
<1>2. ASSUME NEW w \in Workers, NEW o \in Owners, SubscriptionRequest(w, o)
      PROVE  UNCHANGED <<txn, billing, charge>>
  BY <1>2 DEF SubscriptionRequest, CurrentSubscription, ChangePlan, Cancel
<1>3. ASSUME NEW w \in Workers, CheckoutCommit(w)
      PROVE  (txn[r] # "none" => txn'[r] # "none") /\ UNCHANGED <<billing, charge>>
  BY <1>3 DEF CheckoutCommit, TypeOK
<1>4. ASSUME NEW w \in Workers,
             CheckoutRespond(w) \/ VerifyTransaction(w) \/ GetOrCreate(w) \/ Rollback(w)
      PROVE  UNCHANGED <<txn, billing, charge>>
  BY <1>4 DEF CheckoutRespond, VerifyTransaction, GetOrCreate, Rollback
<1>5. ASSUME NEW w \in Workers, Commit(w)
      PROVE  /\ txn[r] # "none" => txn'[r] # "none"
             /\ billing[r] > 0 => billing'[r] > 0
             /\ UNCHANGED charge
  <2>1. charge' = charge
    BY <1>5 DEF Commit
  <2>2. \/ billing' = billing
        \/ req[w].ref \in Refs /\ billing' = [billing EXCEPT ![req[w].ref] = @ + 1]
    BY <1>5, CommitTables
  <2>3. ASSUME txn[r] # "none", req[w].ref = r
        PROVE  CommittedStatus(req[w]) # "none"
    BY <2>3 DEF CommittedStatus
  <2>4. txn[r] # "none" => txn'[r] # "none"
    BY <1>5, <2>3, CommitTables DEF TypeOK
  <2>5. QED
    BY <2>1, <2>2, <2>4 DEF TypeOK
<1>6. ASSUME NEW s \in Refs, Customer(s)
      PROVE  (charge[r] = "success" => charge'[r] = "success") /\ UNCHANGED <<txn, billing>>
  BY <1>6 DEF Customer, ChargeSucceeds, ChargeFails, ChargeAbandoned, TypeOK
<1>7. CASE UNCHANGED vars
  BY <1>7 DEF vars
<1>8. QED
  BY <1>1, <1>2, <1>3, <1>4, <1>5, <1>6, <1>7 DEF Next, WorkerStep

LEMMA BackedIsStable ==
    ASSUME TypeOK, RequestsAreSound, [Next]_vars, NEW o, NEW plan, Backed(o, plan)
    PROVE  Backed(o, plan)'
BY Monotone DEF Backed

-----------------------------------------------------------------------------
(* The requests in flight                                                  *)

\* A step of one worker leaves the requests of the others sound.
LEMMA SoundOthers ==
    ASSUME TypeOK, RequestsAreSound, [Next]_vars, NEW v \in Workers,
           pc'[v] = pc[v], req'[v] = req[v]
    PROVE  Sound(v)'
<1>1. Sound(v)
  BY DEF RequestsAreSound
<1>2. pc[v] = "commit" => Backed(req[v].owner, req[v].row.plan)'
  BY <1>1, BackedIsStable DEF Sound
<1>3. pc[v] # "idle" => req[v] \in Request
  BY DEF TypeOK
<1>4. pc[v] \in {"load", "commit"} /\ Finalizes(req[v]) => req[v].ref \in Refs
  BY FinalizedRef
<1>5. Finalizes(req[v])' <=> Finalizes(req[v])
  BY DEF Finalizes
<1>6. QED
  BY <1>1, <1>2, <1>3, <1>4, <1>5, Monotone DEF Sound

LEMMA EndsSound ==
    ASSUME TypeOK, RequestsAreSound, [Next]_vars, NEW w \in Workers, Ends(w)
    PROVE  RequestsAreSound'
<1>1. pc'[w] = "idle" /\ \A v \in Workers \ {w} : pc'[v] = pc[v] /\ req'[v] = req[v]
  BY DEF Ends, TypeOK
<1>2. Sound(w)'
  BY <1>1 DEF Sound
<1>3. QED
  BY <1>1, <1>2, SoundOthers DEF RequestsAreSound

\* A request that arrives with what was just read is sound.
LEMMA ArrivesSound ==
    ASSUME TypeOK, RequestsAreSound, [Next]_vars, NEW w \in Workers,
           NEW kind, NEW next, NEW owner, NEW ref, NEW cycle, NEW seen, NEW answer,
           Arrives(w, kind, next, owner, ref, cycle, seen, answer),
           \/ next = "initialized" /\ ref \in Refs
           \/ /\ next \in {"ask", "load"}
              /\ ref \in Refs /\ txn'[ref] # "none" /\ owner = OwnerOf[ref]
              /\ next = "load" =>
                    /\ kind = "webhook" /\ answer = "success" /\ seen # "success"
                    /\ charge'[ref] = "success"
           \/ next = "load" /\ ref = NoRef /\ kind \in SubscriptionKinds
    PROVE  RequestsAreSound'
<1>1. /\ pc'[w] = next
      /\ req'[w].kind = kind /\ req'[w].owner = owner /\ req'[w].ref = ref
      /\ req'[w].seen = seen /\ req'[w].answer = answer
      /\ \A v \in Workers \ {w} : pc'[v] = pc[v] /\ req'[v] = req[v]
  BY DEF Arrives, TypeOK
<1>2. Sound(w)'
  BY <1>1, RequestAssumption DEF Sound, Finalizes, SubscriptionKinds
<1>3. QED
  BY <1>1, <1>2, SoundOthers DEF RequestsAreSound

LEMMA RequestsStep ==
    ASSUME TypeOK, RequestsAreSound, RowsAreBacked, [Next]_vars
    PROVE  RequestsAreSound'
<1> USE DEF dbVars, paystackVars
<1>1. ASSUME NEW w \in Workers, NEW r \in Refs, PaymentRequest(w, r)
      PROVE  RequestsAreSound'
  <2>1. CASE StartCheckout(w, r)
    BY <2>1, ArrivesSound DEF StartCheckout
  <2>2. CASE Verify(w, r)
    BY <2>2, ArrivesSound DEF Verify
  <2>3. CASE FinalizeByReference(w, r)
    BY <2>3, ArrivesSound DEF FinalizeByReference
  <2>4. CASE HandleWebhook(w, r)
    <3>1. CASE txn[r] \notin {"none", "success"}
      BY <2>4, <3>1, ArrivesSound DEF HandleWebhook
    <3>2. CASE txn[r] \in {"none", "success"}
      BY <2>4, <3>2, SoundOthers DEF HandleWebhook, RequestsAreSound
    <3>3. QED
      BY <3>1, <3>2
  <2>5. QED
    BY <1>1, <2>1, <2>2, <2>3, <2>4 DEF PaymentRequest
<1>2. ASSUME NEW w \in Workers, NEW o \in Owners, SubscriptionRequest(w, o)
      PROVE  RequestsAreSound'
  BY <1>2, ArrivesSound
  DEF SubscriptionRequest, CurrentSubscription, ChangePlan, Cancel, SubscriptionKinds
<1>3. ASSUME NEW w \in Workers, CheckoutCommit(w)
      PROVE  RequestsAreSound'
  <2>1. req[w].ref \in Refs
    BY <1>3 DEF CheckoutCommit, RequestsAreSound, Sound
  <2>2. pc'[w] = "respond" /\ req' = req /\ \A v \in Workers \ {w} : pc'[v] = pc[v]
    BY <1>3 DEF CheckoutCommit, TypeOK
  <2>3. txn'[req[w].ref] = "pending"
    BY <1>3, <2>1 DEF CheckoutCommit, TypeOK
  <2>4. Sound(w)'
    BY <2>1, <2>2, <2>3 DEF Sound
  <2>5. QED
    BY <2>2, <2>4, SoundOthers DEF RequestsAreSound
<1>4. ASSUME NEW w \in Workers, CheckoutRespond(w) \/ Commit(w) \/ Rollback(w)
      PROVE  RequestsAreSound'
  BY <1>4, EndsSound DEF CheckoutRespond, Commit, Rollback
<1>5. ASSUME NEW w \in Workers, VerifyTransaction(w)
      PROVE  RequestsAreSound'
  <2> DEFINE q == [req[w] EXCEPT !.answer = charge[req[w].ref]]
  <2>1. req[w] \in Request /\ req[w].ref \in Refs /\ req[w].owner = OwnerOf[req[w].ref]
        /\ txn[req[w].ref] # "none"
    BY <1>5 DEF VerifyTransaction, TypeOK, RequestsAreSound, Sound
  <2>2. CASE Ends(w)
    BY <2>2, EndsSound
  <2>3. CASE /\ q.kind = "verify" \/ Finalizes(q)
             /\ pc' = [pc EXCEPT ![w] = "load"]
             /\ req' = [req EXCEPT ![w] = q]
    <3>1. /\ pc'[w] = "load" /\ req'[w] = q
          /\ \A v \in Workers \ {w} : pc'[v] = pc[v] /\ req'[v] = req[v]
          /\ txn' = txn /\ charge' = charge
      BY <1>5, <2>3 DEF VerifyTransaction, TypeOK
    <3>2. q.ref = req[w].ref /\ q.owner = req[w].owner /\ q.answer = charge[req[w].ref]
      BY <2>1 DEF Request
    <3>3. q.kind = "webhook" => Finalizes(q)
      BY <2>3
    <3>4. Finalizes(q) => charge[q.ref] = "success"
      BY <3>2 DEF Finalizes
    <3> HIDE DEF q
    <3>5. Sound(w)'
      BY <2>1, <3>1, <3>2, <3>3, <3>4, RequestAssumption DEF Sound
    <3>6. QED
      BY <3>1, <3>5, SoundOthers DEF RequestsAreSound
  <2>4. QED
    BY <1>5, <2>2, <2>3 DEF VerifyTransaction
<1>6. ASSUME NEW w \in Workers, GetOrCreate(w)
      PROVE  RequestsAreSound'
  <2>1. req[w] \in Request /\ Sound(w)
    BY <1>6 DEF GetOrCreate, TypeOK, RequestsAreSound
  <2>2. /\ pc'[w] = "commit"
        /\ \A v \in Workers \ {w} : pc'[v] = pc[v] /\ req'[v] = req[v]
        /\ txn' = txn /\ charge' = charge /\ billing' = billing
    BY <1>6 DEF GetOrCreate, TypeOK
  <2> DEFINE Same(q) == /\ q.kind = req[w].kind /\ q.ref = req[w].ref /\ q.owner = req[w].owner
                        /\ q.seen = req[w].seen /\ q.answer = req[w].answer
  <2>3. Same(req'[w]) /\ (\/ \E id \in Workers : req'[w].row = subs[req[w].owner][id]
                          \/ req'[w].row.plan = "free")
    <3>1. ASSUME NEW id \in Workers,
                 req' = [req EXCEPT ![w].id = id, ![w].row = subs[req[w].owner][id]]
          PROVE  Same(req'[w]) /\ req'[w].row = subs[req[w].owner][id]
      BY <2>1, <3>1 DEF TypeOK, Request
    <3>2. ASSUME req' = [req EXCEPT ![w].row = [NoRow EXCEPT !.born = clock[req[w].owner] + 1]]
          PROVE  Same(req'[w]) /\ req'[w].row.plan = "free"
      BY <2>1, <3>2 DEF TypeOK, Request, NoRow
    <3>3. \/ \E id \in Workers :
                req' = [req EXCEPT ![w].id = id, ![w].row = subs[req[w].owner][id]]
          \/ req' = [req EXCEPT ![w].row = [NoRow EXCEPT !.born = clock[req[w].owner] + 1]]
      BY <1>6, Zenon DEF GetOrCreate
    <3> HIDE DEF Same
    <3>4. QED
      BY <3>1, <3>2, <3>3
  <2>4. Backed(req[w].owner, req'[w].row.plan)
    BY <2>1, <2>3 DEF RowsAreBacked, Backed, Request
  <2>5. Backed(req[w].owner, req[w].row.plan)'
    BY <2>2, <2>3, <2>4 DEF Backed
  <2>6. Finalizes(req[w])' <=> Finalizes(req[w])
    BY <2>3 DEF Finalizes
  <2>7. Sound(w)'
    BY <1>6, <2>1, <2>2, <2>3, <2>5, <2>6 DEF GetOrCreate, Sound
  <2>8. QED
    BY <2>2, <2>7, SoundOthers DEF RequestsAreSound
<1>7. ASSUME UNCHANGED <<pc, req>>
      PROVE  RequestsAreSound'
  BY <1>7, SoundOthers DEF RequestsAreSound
<1>8. QED
  BY <1>1, <1>2, <1>3, <1>4, <1>5, <1>6, <1>7
  DEF Next, WorkerStep, vars, Customer, ChargeSucceeds, ChargeFails, ChargeAbandoned

-----------------------------------------------------------------------------
(* The tables                                                              *)

LEMMA LinksStep ==
    ASSUME TypeOK, RequestsAreSound, LinksHaveTransactions, [Next]_vars
    PROVE  LinksHaveTransactions'
<1> USE DEF dbVars, paystackVars
<1>1. ASSUME NEW w \in Workers, CheckoutRespond(w)
      PROVE  LinksHaveTransactions'
  <2>1. txn' = txn /\ links' = links \cup {req[w].ref} /\ txn[req[w].ref] # "none"
    BY <1>1 DEF CheckoutRespond, RequestsAreSound, Sound
  <2>2. QED
    BY <2>1 DEF LinksHaveTransactions
<1>2. ASSUME links' = links
      PROVE  LinksHaveTransactions'
  BY <1>2, Monotone DEF LinksHaveTransactions, TypeOK
<1>3. QED
  BY <1>1, <1>2
  DEF Next, WorkerStep, CheckoutCommit, VerifyTransaction, GetOrCreate, Commit, Rollback,
      PaymentRequest, StartCheckout, Verify, FinalizeByReference, HandleWebhook,
      SubscriptionRequest, CurrentSubscription, ChangePlan, Cancel,
      Customer, ChargeSucceeds, ChargeFails, ChargeAbandoned, vars

\* Paystack reports a success only for a reference whose link was followed.
LEMMA ChargeStep ==
    ASSUME TypeOK, RequestsAreSound, LinksHaveTransactions, ChargeHasTransaction, [Next]_vars
    PROVE  ChargeHasTransaction'
<1> SUFFICES ASSUME NEW r \in Refs, charge'[r] = "success"
             PROVE  txn'[r] # "none"
  BY DEF ChargeHasTransaction
<1>1. CASE charge[r] = "success"
  BY <1>1, Monotone DEF ChargeHasTransaction
<1>2. CASE charge[r] # "success"
  <2>1. r \in links
    BY <1>2
    DEF Next, WorkerStep, CheckoutCommit, CheckoutRespond, VerifyTransaction, GetOrCreate,
        Commit, Rollback, PaymentRequest, StartCheckout, Verify, FinalizeByReference,
        HandleWebhook, SubscriptionRequest, CurrentSubscription, ChangePlan, Cancel,
        Customer, ChargeSucceeds, ChargeFails, ChargeAbandoned, vars, paystackVars, TypeOK
  <2>2. QED
    BY <2>1, Monotone DEF LinksHaveTransactions
<1>3. QED
  BY <1>1, <1>2

\* Every step but a commit leaves the tables and the acknowledgements that
\* the remaining invariants are about as they are.
LEMMA OnlyCommitsWrite ==
    ASSUME TypeOK, RequestsAreSound, [Next]_vars, \A w \in Workers : ~Commit(w)
    PROVE  /\ billing' = billing /\ subs' = subs
           /\ \A r \in Refs : txn'[r] = "success" => txn[r] = "success"
           /\ \A r \in acked' \ acked : r \in Refs /\ charge[r] = "success"
                                        /\ txn[r] \in {"none", "success"}
<1> USE DEF dbVars, paystackVars
<1>1. ASSUME NEW w \in Workers, CheckoutCommit(w)
      PROVE  /\ UNCHANGED <<billing, subs, acked>>
             /\ \A r \in Refs : txn'[r] = "success" => txn[r] = "success"
  BY <1>1 DEF CheckoutCommit, TypeOK
<1>2. ASSUME NEW w \in Workers, NEW r \in Refs, HandleWebhook(w, r)
      PROVE  /\ UNCHANGED <<txn, billing, subs>>
             /\ \A s \in acked' \ acked : s \in Refs /\ charge[s] = "success"
                                          /\ txn[s] \in {"none", "success"}
  BY <1>2 DEF HandleWebhook
<1>3. \/ UNCHANGED <<txn, billing, subs, acked>>
      \/ \E w \in Workers : CheckoutCommit(w)
      \/ \E w \in Workers, r \in Refs : HandleWebhook(w, r)
  BY DEF Next, WorkerStep, CheckoutRespond, VerifyTransaction, GetOrCreate, Rollback,
         PaymentRequest, StartCheckout, Verify, FinalizeByReference,
         SubscriptionRequest, CurrentSubscription, ChangePlan, Cancel,
         Customer, ChargeSucceeds, ChargeFails, ChargeAbandoned, vars
<1>4. QED
  BY <1>1, <1>2, <1>3

LEMMA TablesStep ==
    ASSUME IInv, [Next]_vars
    PROVE  (LedgerIsBacked /\ RowsAreBacked /\ AckedIsApplied)'
<1> USE DEF IInv
<1>1. ASSUME NEW w \in Workers, Commit(w)
      PROVE  (LedgerIsBacked /\ RowsAreBacked /\ AckedIsApplied)'
  <2> DEFINE q == req[w]
  <2>1. /\ q \in Request /\ pc[w] = "commit" /\ Sound(w)
        /\ Finalizes(q) => q.ref \in Refs /\ charge[q.ref] = "success"
        /\ charge' = charge
    BY <1>1, FinalizedRef DEF Commit, RequestsAreSound, Sound
  <2>2. \/ ~Finalizes(q) /\ billing' = billing
        \/ Finalizes(q) /\ billing' = [billing EXCEPT ![q.ref] = @ + 1]
    BY <1>1, <2>1, CommitTables, RequestAssumption
  <2>3. \A r \in Refs : txn'[r] = "success" => txn[r] = "success" \/ (Finalizes(q) /\ r = q.ref)
    <3>1. ~Finalizes(q) /\ CommittedStatus(q) = "success" => txn[q.ref] = "success"
      BY DEF CommittedStatus
    <3>2. QED
      BY <1>1, <3>1, CommitTables DEF TypeOK
  <2>4. LedgerIsBacked'
    BY <2>1, <2>2, <2>3 DEF LedgerIsBacked, TypeOK
  <2>5. AckedIsApplied'
    <3>1. acked' \subseteq acked \cup {q.ref} /\ (q.ref \in acked' \ acked => Finalizes(q))
      BY <1>1, <2>1, Zenon DEF Commit, Sound
    <3>2. QED
      BY <2>1, <2>2, <3>1 DEF AckedIsApplied, TypeOK
  <2>6. RowsAreBacked'
    <3>1. subs' = [subs EXCEPT ![q.owner][q.id] = CommittedRow(q)]
          /\ q.owner \in Owners /\ q.id \in Workers
      BY <1>1, <2>1 DEF Commit, Request
    <3>2. Backed(q.owner, q.row.plan) /\ Backed(q.owner, subs[q.owner][q.id].plan)
      BY <2>1, <3>1 DEF Sound, RowsAreBacked
    <3>3. ASSUME Finalizes(q)
          PROVE  OwnerOf[q.ref] = q.owner /\ charge'[q.ref] = "success" /\ billing'[q.ref] > 0
      BY <2>1, <2>2, <3>3 DEF Sound, TypeOK
    <3>4. \/ EditedRow(q).plan = q.row.plan
          \/ EditedRow(q).plan = "free"
          \/ Finalizes(q) /\ EditedRow(q).plan = PlanOf[q.ref]
      <4>1. q.row \in Row
        BY <2>1 DEF Request
      <4>2. QED
        BY <4>1 DEF EditedRow, ActivatePaidPlan, ChangedPlan, Canceled, Finalizes, Row
    <3> DEFINE BackedNext(o, plan) ==
                 plan # "free" => \E r \in Refs : /\ OwnerOf[r] = o /\ PlanOf[r] = plan
                                                 /\ charge'[r] = "success" /\ billing'[r] > 0
    <3>5. \A o, plan : Backed(o, plan) => BackedNext(o, plan)
      BY BackedIsStable DEF Backed
    <3>6. BackedNext(q.owner, CommittedRow(q).plan)
      <4>1. BackedNext(q.owner, EditedRow(q).plan)
        BY <2>1, <3>2, <3>3, <3>4, <3>5
      <4>2. BackedNext(q.owner, subs[q.owner][q.id].plan)
        BY <3>2, <3>5
      <4>3. CommittedRow(q).plan \in {subs[q.owner][q.id].plan, EditedRow(q).plan}
        BY <2>1, CommittedRowFacts
      <4> HIDE DEF BackedNext
      <4>4. QED
        BY <4>1, <4>2, <4>3
    <3>7. \A o \in Owners, v \in Workers : BackedNext(o, subs'[o][v].plan)
      <4> SUFFICES ASSUME NEW o \in Owners, NEW v \in Workers
                   PROVE  BackedNext(o, subs'[o][v].plan)
        OBVIOUS
      <4>1. \/ o = q.owner /\ subs'[o][v] = CommittedRow(q)
            \/ subs'[o][v] = subs[o][v]
        BY <3>1 DEF TypeOK
      <4> HIDE DEF BackedNext
      <4>2. QED
        BY <3>5, <3>6, <4>1 DEF RowsAreBacked
    <3>8. QED
      BY <3>7 DEF RowsAreBacked, Backed
  <2>7. QED
    BY <2>4, <2>5, <2>6
<1>2. ASSUME \A w \in Workers : ~Commit(w)
      PROVE  (LedgerIsBacked /\ RowsAreBacked /\ AckedIsApplied)'
  <2>1. /\ billing' = billing /\ subs' = subs
        /\ \A r \in Refs : txn'[r] = "success" => txn[r] = "success"
        /\ \A r \in acked' \ acked : r \in Refs /\ charge[r] = "success"
                                     /\ txn[r] \in {"none", "success"}
    BY <1>2, OnlyCommitsWrite
  <2>2. LedgerIsBacked'
    BY <2>1, Monotone DEF LedgerIsBacked
  <2>3. AckedIsApplied'
    BY <2>1 DEF AckedIsApplied, ChargeHasTransaction, LedgerIsBacked
  <2>4. RowsAreBacked'
    BY <1>2, <2>1, Monotone DEF RowsAreBacked, Backed
  <2>5. QED
    BY <2>2, <2>3, <2>4
<1>3. QED
  BY <1>1, <1>2

-----------------------------------------------------------------------------
(* The theorems                                                            *)

LEMMA InitInv == Init => IInv
<1> SUFFICES ASSUME Init
             PROVE  IInv
  OBVIOUS
<1>1. TypeOK
  BY FailureAssumption
  DEF Init, TypeOK, NoRow, Row, PlanTier, BillingCycle, SubscriptionStatus, PC, ChargeStatus
<1>2. RequestsAreSound
  BY DEF Init, RequestsAreSound, Sound
<1>3. RowsAreBacked
  BY DEF Init, RowsAreBacked, Backed, NoRow
<1>4. LinksHaveTransactions /\ ChargeHasTransaction /\ LedgerIsBacked /\ AckedIsApplied
  BY DEF Init, LinksHaveTransactions, ChargeHasTransaction, LedgerIsBacked, AckedIsApplied
<1>5. QED
  BY <1>1, <1>2, <1>3, <1>4 DEF IInv

LEMMA NextInv == IInv /\ [Next]_vars => IInv'
BY TypeStep, RequestsStep, LinksStep, ChargeStep, TablesStep DEF IInv

LEMMA Invariance == Spec => []IInv
BY InitInv, NextInv, PTL DEF Spec

\* Every variable keeps its type: the handlers store no status, plan or
\* cycle outside the enumerations of models.py, even when verify copies
\* Paystack's status into the transaction.
THEOREM TypeCorrect == Spec => []TypeOK
<1>1. IInv => TypeOK
  BY DEF IInv
<1>2. QED
  BY <1>1, Invariance, PTL

\* With any number of requests in parallel, what is billed or recorded as
\* successful was paid, and what is recorded as successful was billed
\* (_finalize writes both in one commit).
THEOREM LedgerCorrect == Spec => []LedgerIsBacked
<1>1. IInv => LedgerIsBacked
  BY DEF IInv
<1>2. QED
  BY <1>1, Invariance, PTL

\* No mixture of finalize, change and cancel leaves a paid plan that its
\* owner did not pay for.
THEOREM PlansCorrect == Spec => []PaidPlanIsBacked
<1>1. IInv => PaidPlanIsBacked
  BY DEF IInv, RowsAreBacked, Backed, PaidPlanIsBacked
<1>2. QED
  BY <1>1, Invariance, PTL

\* Every successful charge belongs to a committed transaction, and a webhook
\* that was answered with 200 has been applied: nothing paid is lost when
\* Paystack stops repeating it.
THEOREM WebhookCorrect == Spec => [](ChargeHasTransaction /\ AckedIsApplied)
<1>1. IInv => ChargeHasTransaction /\ AckedIsApplied
  BY DEF IInv
<1>2. QED
  BY <1>1, Invariance, PTL

\* Whatever a customer was charged for has its committed transaction row.
THEOREM ChargesCorrect == Spec => []ChargeHasTransaction
<1>1. IInv => ChargeHasTransaction
  BY DEF IInv
<1>2. QED
  BY <1>1, Invariance, PTL

\* What a step means for the ledger.
LEMMA LedgerStep ==
    ASSUME IInv, [Next]_vars
    PROVE  \/ UNCHANGED <<Paid, billing>>
           \/ \E r \in Refs : r \notin Paid /\ Paid' = Paid \cup {r} /\ billing' = billing
           \/ \E w \in Workers :
                /\ Commit(w) /\ Finalizes(req[w])
                /\ req[w].ref \in Paid /\ Paid' = Paid
                /\ billing' = [billing EXCEPT ![req[w].ref] = @ + 1]
<1> USE DEF IInv
<1>1. ASSUME NEW w \in Workers, Commit(w), Finalizes(req[w])
      PROVE  /\ req[w].ref \in Paid /\ Paid' = Paid
             /\ billing' = [billing EXCEPT ![req[w].ref] = @ + 1]
  BY <1>1, CommitTables, FinalizedRef, RequestAssumption DEF Commit, RequestsAreSound, Sound, Paid
<1>2. ASSUME NEW r \in Refs, ChargeSucceeds(r)
      PROVE  r \notin Paid /\ Paid' = Paid \cup {r} /\ billing' = billing
  BY <1>2 DEF ChargeSucceeds, Paid, dbVars, TypeOK
<1>3. ASSUME NEW w \in Workers, Commit(w), ~Finalizes(req[w])
      PROVE  UNCHANGED <<Paid, billing>>
  BY <1>3, CommitTables DEF Commit, Paid
<1>4. ASSUME \A w \in Workers : ~Commit(w), \A r \in Refs : ~ChargeSucceeds(r)
      PROVE  UNCHANGED <<Paid, billing>>
  <2>1. billing' = billing
    BY <1>4, OnlyCommitsWrite
  <2>2. \A r \in Refs : charge'[r] = "success" => charge[r] = "success"
    BY <1>4
    DEF Next, WorkerStep, CheckoutCommit, CheckoutRespond, VerifyTransaction, GetOrCreate,
        Rollback, PaymentRequest, StartCheckout, Verify, FinalizeByReference, HandleWebhook,
        SubscriptionRequest, CurrentSubscription, ChangePlan, Cancel,
        Customer, ChargeFails, ChargeAbandoned, vars, paystackVars, TypeOK
  <2>3. Paid' = Paid
    BY <2>2, Monotone DEF Paid
  <2>4. QED
    BY <2>1, <2>3
<1>5. QED
  BY <1>1, <1>2, <1>3, <1>4

\* Payments implements the safety of the ledger that activates only paid
\* purchases.
THEOREM ImplementsLedger == Spec => AtLeastOnce!Safety
<1>1. Init => AtLeastOnce!Init
  BY DEF Init, AtLeastOnce!Init, Paid
<1>2. IInv /\ [Next]_vars => [AtLeastOnce!Next]_(AtLeastOnce!ledgerVars)
  <2> SUFFICES ASSUME IInv, [Next]_vars
               PROVE  [AtLeastOnce!Next]_(AtLeastOnce!ledgerVars)
    OBVIOUS
  <2>1. QED
    BY LedgerStep
    DEF AtLeastOnce!Next, AtLeastOnce!ledgerVars, AtLeastOnce!Pay, AtLeastOnce!Activate, Paid
<1>3. QED
  BY <1>1, <1>2, Invariance, PTL DEF Spec, AtLeastOnce!Safety

-----------------------------------------------------------------------------
(***************************************************************************)
(* Payments when requests do not overlap: one worker, any owners,          *)
(* references, plans, failures and request kinds.  Then the promise of     *)
(* payment_service.py holds, a paid plan is activated once and takes       *)
(* effect: what breaks it with more workers is only that a request commits *)
(* what it read before another one committed.                              *)
(***************************************************************************)

OneWorker == \A v, w \in Workers : v = w

(***************************************************************************)
(* The inductive invariant, on top of IInv: what the request in flight     *)
(* read is what the tables hold, and billing records follow the status.    *)
(***************************************************************************)

Fresh(w) ==
    /\ pc[w] = "initialized" => txn[req[w].ref] = "none" /\ charge[req[w].ref] # "none"
    /\ pc[w] \in {"ask", "load", "commit"} /\ req[w].ref \in Refs =>
            req[w].seen = txn[req[w].ref]
    /\ pc[w] \in {"load", "commit"} /\ req[w].kind = "verify" =>
            (txn[req[w].ref] = "success" => req[w].answer = "success")

RequestsAreFresh == \A w \in Workers : Fresh(w)

UnstartedHasNoRow == \A r \in Refs : charge[r] = "none" => txn[r] = "none"

BilledIffSuccess == \A r \in Refs : billing[r] = IF txn[r] = "success" THEN 1 ELSE 0

SInv ==
    /\ IInv
    /\ RequestsAreFresh
    /\ UnstartedHasNoRow
    /\ BilledIffSuccess

-----------------------------------------------------------------------------
(* Steps                                                                   *)

\* The only worker moves, so nothing needs to be said of the others.
LEMMA OnlyWorker ==
    ASSUME OneWorker, NEW w \in Workers, Fresh(w)'
    PROVE  RequestsAreFresh'
BY DEF OneWorker, RequestsAreFresh

LEMMA EndsFresh ==
    ASSUME OneWorker, TypeOK, NEW w \in Workers, Ends(w)
    PROVE  RequestsAreFresh'
<1>1. pc'[w] = "idle"
  BY DEF Ends, TypeOK
<1>2. QED
  BY <1>1, OnlyWorker DEF Fresh

\* A request arrives with what it just read.
LEMMA ArrivesFresh ==
    ASSUME OneWorker, TypeOK, NEW w \in Workers,
           NEW kind, NEW next \in {"initialized", "ask", "load"},
           NEW owner, NEW ref, NEW cycle, NEW seen, NEW answer,
           Arrives(w, kind, next, owner, ref, cycle, seen, answer),
           next = "initialized" => txn'[ref] = "none" /\ charge'[ref] # "none",
           next \in {"ask", "load"} /\ ref \in Refs => seen = txn'[ref],
           next = "load" => kind # "verify"
    PROVE  RequestsAreFresh'
<1>1. /\ pc'[w] = next
      /\ req'[w].kind = kind /\ req'[w].ref = ref
      /\ req'[w].seen = seen /\ req'[w].answer = answer
  BY DEF Arrives, TypeOK
<1>2. Fresh(w)'
  BY <1>1 DEF Fresh
<1>3. QED
  BY <1>2, OnlyWorker

\* A commit leaves one billing record of each successful reference: its
\* worker has seen the status that it replaces.
LEMMA CommitKeepsBilling ==
    ASSUME SInv, NEW w \in Workers, Commit(w)
    PROVE  /\ BilledIffSuccess'
           /\ \A r \in Refs : txn[r] = "success" => txn'[r] = "success"
           /\ Finalizes(req[w]) => billing[req[w].ref] = 0
<1> DEFINE q == req[w]
<1> USE DEF SInv, IInv
<1>1. pc[w] = "commit" /\ q \in Request
  BY FinalizedRef DEF Commit
<1>2. CASE q.ref = NoRef
  <2>1. ~Finalizes(q)
    BY <1>1, <1>2, FinalizedRef, RequestAssumption DEF Finalizes
  <2>2. QED
    BY <1>2, <2>1, CommitTables DEF BilledIffSuccess
<1>3. CASE q.ref # NoRef
  <2>1. q.ref \in Refs /\ q.seen = txn[q.ref]
    BY <1>1, <1>3, FinalizedRef DEF RequestsAreFresh, Fresh
  <2>2. txn' = [txn EXCEPT ![q.ref] = CommittedStatus(q)]
    BY <1>3, CommitTables
  <2>3. CASE Finalizes(q)
    <3>1. txn[q.ref] # "success" /\ CommittedStatus(q) = "success"
      BY <2>1, <2>3 DEF CommittedStatus, Finalizes
    <3>2. billing' = [billing EXCEPT ![q.ref] = @ + 1] /\ billing[q.ref] = 0
      BY <1>3, <2>1, <2>3, <3>1, CommitTables DEF BilledIffSuccess
    <3>3. QED
      BY <2>1, <2>2, <3>1, <3>2 DEF BilledIffSuccess, TypeOK
  <2>4. CASE ~Finalizes(q)
    <3>1. billing' = billing
      BY <1>3, <2>4, CommitTables
    <3>2. q.kind = "verify" /\ txn[q.ref] = "success" => q.answer = "success"
      BY <1>1 DEF RequestsAreFresh, Fresh
    <3>3. CommittedStatus(q) = "success" <=> txn[q.ref] = "success"
      BY <2>4, <3>2 DEF CommittedStatus
    <3>4. QED
      BY <2>1, <2>2, <2>4, <3>1, <3>3 DEF BilledIffSuccess, TypeOK
  <2>5. QED
    BY <2>3, <2>4
<1>4. QED
  BY <1>2, <1>3

LEMMA FreshStep ==
    ASSUME OneWorker, SInv, [Next]_vars
    PROVE  RequestsAreFresh'
<1> USE DEF SInv, IInv, dbVars, paystackVars
<1>1. ASSUME NEW w \in Workers, NEW r \in Refs, StartCheckout(w, r)
      PROVE  RequestsAreFresh'
  <2>1. txn'[r] = "none" /\ charge'[r] # "none"
    BY <1>1 DEF StartCheckout, UnstartedHasNoRow, TypeOK
  <2>2. QED
    BY <1>1, <2>1, ArrivesFresh DEF StartCheckout
<1>2. ASSUME NEW w \in Workers, NEW r \in Refs, Verify(w, r) \/ FinalizeByReference(w, r)
      PROVE  RequestsAreFresh'
  BY <1>2, ArrivesFresh DEF Verify, FinalizeByReference
<1>3. ASSUME NEW w \in Workers, NEW r \in Refs, HandleWebhook(w, r)
      PROVE  RequestsAreFresh'
  <2>1. CASE Arrives(w, "webhook", "load", OwnerOf[r], r, CycleOf[r], txn[r], "success")
    <3>1. txn[r] = txn'[r]
      BY <1>3 DEF HandleWebhook
    <3> HIDE DEF SInv, IInv
    <3>2. TypeOK
      BY DEF SInv, IInv
    <3>3. QED
      BY <2>1, <3>1, <3>2, ArrivesFresh
  <2>2. CASE UNCHANGED <<pc, req>>
    <3>1. txn' = txn /\ charge' = charge
      BY <1>3 DEF HandleWebhook
    <3>2. QED
      BY <2>2, <3>1 DEF RequestsAreFresh, Fresh
  <2>3. QED
    BY <1>3, <2>1, <2>2 DEF HandleWebhook
<1>4. ASSUME NEW w \in Workers, NEW o \in Owners, SubscriptionRequest(w, o)
      PROVE  RequestsAreFresh'
  <2>1. ASSUME NEW kind \in SubscriptionKinds, NEW c,
               Arrives(w, kind, "load", o, NoRef, c, "none", "none")
        PROVE  RequestsAreFresh'
    BY <2>1, ArrivesFresh, RequestAssumption DEF SubscriptionKinds
  <2>2. QED
    BY <1>4, <2>1
    DEF SubscriptionRequest, ChangePlan, Cancel, CurrentSubscription, SubscriptionKinds
<1>5. ASSUME NEW w \in Workers, CheckoutCommit(w)
      PROVE  RequestsAreFresh'
  <2>1. pc'[w] = "respond"
    BY <1>5 DEF CheckoutCommit, TypeOK
  <2>2. QED
    BY <2>1, OnlyWorker DEF Fresh
<1>6. ASSUME NEW w \in Workers, CheckoutRespond(w) \/ Commit(w) \/ Rollback(w)
      PROVE  RequestsAreFresh'
  BY <1>6, EndsFresh DEF CheckoutRespond, Commit, Rollback
<1>7. ASSUME NEW w \in Workers, VerifyTransaction(w)
      PROVE  RequestsAreFresh'
  <2>1. req[w] \in Request /\ req[w].ref \in Refs /\ req[w].seen = txn[req[w].ref]
    BY <1>7 DEF VerifyTransaction, TypeOK, RequestsAreSound, Sound, RequestsAreFresh, Fresh
  <2>2. txn[req[w].ref] = "success" => charge[req[w].ref] = "success"
    BY <2>1 DEF LedgerIsBacked
  <2>3. CASE Ends(w)
    BY <2>3, EndsFresh
  <2>4. CASE /\ pc' = [pc EXCEPT ![w] = "load"]
             /\ req' = [req EXCEPT ![w] = [req[w] EXCEPT !.answer = charge[req[w].ref]]]
    <3>1. /\ pc'[w] = "load" /\ req'[w].ref = req[w].ref /\ req'[w].seen = req[w].seen
          /\ req'[w].answer = charge[req[w].ref] /\ txn' = txn
      BY <1>7, <2>1, <2>4 DEF TypeOK, VerifyTransaction, Request
    <3>2. QED
      BY <2>1, <2>2, <3>1, OnlyWorker DEF Fresh
  <2>5. QED
    BY <1>7, <2>3, <2>4 DEF VerifyTransaction
<1>8. ASSUME NEW w \in Workers, GetOrCreate(w)
      PROVE  RequestsAreFresh'
  <2>1. /\ req[w] \in Request /\ pc[w] = "load" /\ pc'[w] = "commit" /\ Fresh(w)
        /\ txn' = txn
    BY <1>8 DEF GetOrCreate, TypeOK, RequestsAreFresh
  <2>2. \E id, row : req' = [req EXCEPT ![w] = [req[w] EXCEPT !.id = id, !.row = row]]
    <3>1. CASE \E id \in Workers :
                 req' = [req EXCEPT ![w].id = id, ![w].row = subs[req[w].owner][id]]
      <4>1. PICK id \in Workers :
                   req' = [req EXCEPT ![w].id = id, ![w].row = subs[req[w].owner][id]]
        BY <3>1
      <4>2. req' = [req EXCEPT ![w] = [req[w] EXCEPT !.id = id,
                                                    !.row = subs[req[w].owner][id]]]
        BY <2>1, <4>1 DEF TypeOK, Request
      <4>3. QED
        BY <4>2
    <3>2. CASE req' = [req EXCEPT ![w].row = [NoRow EXCEPT !.born = clock[req[w].owner] + 1]]
      <4>1. req' = [req EXCEPT ![w] = [req[w] EXCEPT !.id = req[w].id,
                                 !.row = [NoRow EXCEPT !.born = clock[req[w].owner] + 1]]]
        BY <2>1, <3>2 DEF TypeOK, Request
      <4>2. QED
        BY <4>1
    <3>3. QED
      BY <1>8, <3>1, <3>2 DEF GetOrCreate
  <2>3. /\ req'[w].kind = req[w].kind /\ req'[w].ref = req[w].ref
        /\ req'[w].seen = req[w].seen /\ req'[w].answer = req[w].answer
    BY <2>1, <2>2 DEF TypeOK, Request
  <2>4. QED
    BY <2>1, <2>3, OnlyWorker DEF Fresh
<1>9. CASE UNCHANGED <<pc, req, txn>> /\ \A r \in Refs : charge[r] # "none" => charge'[r] # "none"
  <2>1. \A w \in Workers : pc[w] = "initialized" => req[w].ref \in Refs
    BY DEF RequestsAreSound, Sound
  <2>2. QED
    BY <1>9, <2>1 DEF RequestsAreFresh, Fresh
<1>10. ASSUME NEW r \in Refs, Customer(r)
       PROVE  UNCHANGED <<pc, req, txn>> /\ \A s \in Refs : charge[s] # "none" => charge'[s] # "none"
  BY <1>10 DEF Customer, ChargeSucceeds, ChargeFails, ChargeAbandoned, TypeOK
<1>11. QED
  BY <1>1, <1>2, <1>3, <1>4, <1>5, <1>6, <1>7, <1>8, <1>9, <1>10
  DEF Next, WorkerStep, PaymentRequest, vars

\* Only a commit touches the status of a reference whose checkout is over.
LEMMA OthersKeepStatus ==
    ASSUME OneWorker, SInv, [Next]_vars, \A w \in Workers : ~Commit(w)
    PROVE  /\ billing' = billing
           /\ \A r \in Refs : txn'[r] = "success" <=> txn[r] = "success"
<1> USE DEF SInv, IInv, dbVars, paystackVars
<1>1. billing' = billing
  BY OnlyCommitsWrite
<1>2. ASSUME NEW w \in Workers, CheckoutCommit(w)
      PROVE  \A r \in Refs : txn'[r] = "success" <=> txn[r] = "success"
  <2>1. txn[req[w].ref] = "none" /\ txn' = [txn EXCEPT ![req[w].ref] = "pending"]
    BY <1>2 DEF CheckoutCommit, RequestsAreFresh, Fresh
  <2>2. QED
    BY <2>1 DEF TypeOK
<1>3. txn' = txn \/ \E w \in Workers : CheckoutCommit(w)
  BY DEF Next, WorkerStep, CheckoutRespond, VerifyTransaction, GetOrCreate, Rollback,
         PaymentRequest, StartCheckout, Verify, FinalizeByReference, HandleWebhook,
         SubscriptionRequest, CurrentSubscription, ChangePlan, Cancel,
         Customer, ChargeSucceeds, ChargeFails, ChargeAbandoned, vars
<1>4. QED
  BY <1>1, <1>2, <1>3

\* A row appears only for a reference that Paystack knows.
LEMMA UnstartedStep ==
    ASSUME OneWorker, SInv, [Next]_vars
    PROVE  UnstartedHasNoRow'
<1> USE DEF SInv, IInv, dbVars, paystackVars
<1>1. \A r \in Refs : charge[r] # "none" => charge'[r] # "none"
  BY DEF Next, WorkerStep, CheckoutCommit, CheckoutRespond, VerifyTransaction, GetOrCreate,
         Commit, Rollback, PaymentRequest, StartCheckout, Verify, FinalizeByReference,
         HandleWebhook, SubscriptionRequest, CurrentSubscription, ChangePlan, Cancel,
         Customer, ChargeSucceeds, ChargeFails, ChargeAbandoned, vars, TypeOK
<1>2. ASSUME NEW w \in Workers, CheckoutCommit(w)
      PROVE  UnstartedHasNoRow'
  <2>1. charge[req[w].ref] # "none" /\ charge' = charge
        /\ txn' = [txn EXCEPT ![req[w].ref] = "pending"]
    BY <1>2 DEF CheckoutCommit, RequestsAreFresh, Fresh
  <2>2. QED
    BY <2>1 DEF UnstartedHasNoRow, TypeOK
<1>3. ASSUME NEW w \in Workers, Commit(w)
      PROVE  UnstartedHasNoRow'
  <2>1. req[w].ref = NoRef => txn' = txn
    BY <1>3, CommitTables
  <2>2. req[w].ref # NoRef => /\ req[w].ref \in Refs /\ txn[req[w].ref] # "none"
                              /\ txn' = [txn EXCEPT ![req[w].ref] = CommittedStatus(req[w])]
    BY <1>3, CommitTables DEF Commit, RequestsAreSound, Sound
  <2>3. QED
    BY <1>1, <2>1, <2>2 DEF UnstartedHasNoRow, TypeOK
<1>4. CASE txn' = txn
  BY <1>1, <1>4 DEF UnstartedHasNoRow
<1>5. \/ txn' = txn
      \/ \E w \in Workers : CheckoutCommit(w) \/ Commit(w)
  BY DEF Next, WorkerStep, CheckoutRespond, VerifyTransaction, GetOrCreate, Rollback,
         PaymentRequest, StartCheckout, Verify, FinalizeByReference, HandleWebhook,
         SubscriptionRequest, CurrentSubscription, ChangePlan, Cancel,
         Customer, ChargeSucceeds, ChargeFails, ChargeAbandoned, vars
<1>6. QED
  BY <1>2, <1>3, <1>4, <1>5

\* One step: the invariant is kept and no success is taken back.
LEMMA SerialStep ==
    ASSUME OneWorker, SInv, [Next]_vars
    PROVE  SInv' /\ (\A r \in Refs : txn[r] = "success" => txn'[r] = "success")
<1>1. IInv'
  BY NextInv DEF SInv
<1>2. RequestsAreFresh' /\ UnstartedHasNoRow'
  BY FreshStep, UnstartedStep
<1>3. BilledIffSuccess' /\ (\A r \in Refs : txn[r] = "success" => txn'[r] = "success")
  <2>1. CASE \E w \in Workers : Commit(w)
    BY <2>1, CommitKeepsBilling
  <2>2. CASE \A w \in Workers : ~Commit(w)
    BY <2>2, OthersKeepStatus DEF SInv, BilledIffSuccess
  <2>3. QED
    BY <2>1, <2>2
<1>4. QED
  BY <1>1, <1>2, <1>3 DEF SInv

LEMMA SerialInit == Init => SInv
BY InitInv DEF Init, SInv, RequestsAreFresh, Fresh, UnstartedHasNoRow, BilledIffSuccess

-----------------------------------------------------------------------------
(***************************************************************************)
(* What a request has in hand when it commits: the row that is stored, or  *)
(* a new one if the owner has none.                                        *)
(***************************************************************************)

InHand(w) ==
    pc[w] = "commit" =>
        \/ Exists(req[w].owner, req[w].id) /\ req[w].row = subs[req[w].owner][req[w].id]
        \/ ~Exists(req[w].owner, req[w].id) /\ req[w].row.born > 0

RowsInHand == \A w \in Workers : InHand(w)

HInv == SInv /\ RowsInHand

LEMMA RowsInHandStep ==
    ASSUME OneWorker, HInv, [Next]_vars
    PROVE  RowsInHand'
<1> USE DEF HInv, SInv, IInv, dbVars, paystackVars
<1>1. ASSUME NEW w \in Workers, GetOrCreate(w)
      PROVE  RowsInHand'
  <2>1. req[w] \in Request /\ subs' = subs
    BY <1>1 DEF GetOrCreate, TypeOK
  <2>2. ASSUME NEW id \in Workers, IsNewest(req[w].owner, id),
               req' = [req EXCEPT ![w].id = id, ![w].row = subs[req[w].owner][id]]
        PROVE  InHand(w)'
    <3>1. /\ req'[w].owner = req[w].owner /\ req'[w].id = id
          /\ req'[w].row = subs[req[w].owner][id]
      BY <2>1, <2>2 DEF TypeOK, Request
    <3>2. QED
      BY <2>1, <2>2, <3>1 DEF InHand, IsNewest, Exists
  <2>3. ASSUME \A id \in Workers : ~Exists(req[w].owner, id),
               req' = [req EXCEPT ![w].row = [NoRow EXCEPT !.born = clock[req[w].owner] + 1]]
        PROVE  InHand(w)'
    <3>1. /\ req'[w].owner = req[w].owner /\ req'[w].id = req[w].id
          /\ req'[w].row.born = clock[req[w].owner] + 1
      BY <2>1, <2>3 DEF TypeOK, Request, NoRow
    <3>2. clock[req[w].owner] \in Nat /\ req[w].id \in Workers
      BY <2>1 DEF TypeOK, Request
    <3>3. QED
      BY <2>1, <2>3, <3>1, <3>2 DEF InHand, Exists
  <2>4. InHand(w)'
    BY <1>1, <2>2, <2>3 DEF GetOrCreate
  <2>5. QED
    BY <2>4 DEF OneWorker, RowsInHand
<1>2. ASSUME NEW w \in Workers, pc'[w] # "commit"
      PROVE  RowsInHand'
  BY <1>2 DEF OneWorker, RowsInHand, InHand
<1>3. CASE UNCHANGED <<pc, req, subs>>
  BY <1>3 DEF RowsInHand, InHand, Exists
<1>4. ASSUME NEW w \in Workers, WorkerStep(w) \/ Rollback(w), ~GetOrCreate(w)
      PROVE  pc'[w] # "commit"
  BY <1>4 DEF WorkerStep, CheckoutCommit, CheckoutRespond, VerifyTransaction, Commit, Rollback,
              Ends, TypeOK
<1>5. ASSUME NEW w \in Workers, NEW r \in Refs, PaymentRequest(w, r)
      PROVE  pc'[w] # "commit" \/ UNCHANGED <<pc, req, subs>>
  BY <1>5 DEF PaymentRequest, StartCheckout, Verify, FinalizeByReference, HandleWebhook, Arrives,
              TypeOK
<1>6. ASSUME NEW w \in Workers, NEW o \in Owners, SubscriptionRequest(w, o)
      PROVE  pc'[w] # "commit"
  BY <1>6 DEF SubscriptionRequest, CurrentSubscription, ChangePlan, Cancel, Arrives, TypeOK
<1>7. ASSUME NEW r \in Refs, Customer(r)
      PROVE  UNCHANGED <<pc, req, subs>>
  BY <1>7 DEF Customer, ChargeSucceeds, ChargeFails, ChargeAbandoned
<1>8. QED
  BY <1>1, <1>2, <1>3, <1>4, <1>5, <1>6, <1>7 DEF Next, vars

\* The commit of a request that finalizes leaves the owner one row, with the plan paid for.
LEMMA FinalizedRow ==
    ASSUME OneWorker, HInv, NEW w \in Workers, Commit(w), Finalizes(req[w])
    PROVE  /\ req[w].ref \in Refs /\ req[w].owner = OwnerOf[req[w].ref]
           /\ req[w].id \in Workers
           /\ subs'[req[w].owner][req[w].id].born > 0
           /\ subs'[req[w].owner][req[w].id].plan = PlanOf[req[w].ref]
           /\ subs'[req[w].owner][req[w].id].status = "active"
<1> USE DEF HInv, SInv, IInv
<1> DEFINE q == req[w]
<1>1. q \in Request /\ q.ref \in Refs /\ pc[w] = "commit"
  BY FinalizedRef DEF Commit
<1>2. q.owner = OwnerOf[q.ref] /\ q.owner \in Owners /\ q.id \in Workers /\ q.row \in Row
  BY <1>1 DEF RequestsAreSound, Sound, Request
<1>3. subs[q.owner][q.id] \in Row
  BY <1>2 DEF TypeOK
<1>4. EditedRow(q) = [q.row EXCEPT !.plan = PlanOf[q.ref], !.cycle = CycleOf[q.ref],
                                   !.status = "active"]
  BY DEF EditedRow, ActivatePaidPlan, Finalizes
<1>5. subs'[q.owner][q.id] = CommittedRow(q)
  <2>1. subs' = [subs EXCEPT ![q.owner][q.id] = CommittedRow(q)]
    BY DEF Commit
  <2>2. QED
    BY <1>2, <2>1 DEF TypeOK
<1> HIDE DEF q
<1>6. CASE ~Exists(q.owner, q.id) /\ q.row.born > 0
  <2>1. CommittedRow(q) = EditedRow(q)
    BY <1>3, <1>6 DEF CommittedRow, Exists, Row
  <2>2. QED
    BY <1>1, <1>2, <1>4, <1>5, <1>6, <2>1 DEF Row, q
<1>7. CASE Exists(q.owner, q.id) /\ q.row = subs[q.owner][q.id]
  <2>1. /\ CommittedRow(q).born = q.row.born
        /\ CommittedRow(q).plan = EditedRow(q).plan
        /\ CommittedRow(q).status = EditedRow(q).status
    BY <1>3, <1>7 DEF CommittedRow, Exists, Row
  <2>2. q.row.born > 0 /\ EditedRow(q).plan = PlanOf[q.ref] /\ EditedRow(q).status = "active"
    BY <1>2, <1>4, <1>7 DEF Exists, Row
  <2>3. QED
    BY <1>1, <1>2, <1>5, <2>1, <2>2 DEF q
<1>8. QED
  BY <1>1, <1>6, <1>7 DEF RowsInHand, InHand, q

LEMMA ActivationStep ==
    ASSUME OneWorker, HInv, [Next]_vars, NEW r \in Refs, billing'[r] # billing[r]
    PROVE  \E id \in Workers : /\ IsNewest(OwnerOf[r], id)'
                               /\ subs'[OwnerOf[r]][id].plan = PlanOf[r]
                               /\ subs'[OwnerOf[r]][id].status = "active"
<1> USE DEF HInv, SInv, IInv
<1>1. PICK w \in Workers : Commit(w)
  BY OthersKeepStatus
<1>2. Finalizes(req[w]) /\ req[w].ref = r
  BY <1>1, CommitTables DEF TypeOK
<1>3. subs' \in [Owners -> [Workers -> Row]] /\ OwnerOf[r] \in Owners
  BY NextInv, PurchaseAssumption DEF TypeOK
<1> DEFINE id == req[w].id
<1>4. /\ id \in Workers /\ subs'[OwnerOf[r]][id].born > 0
      /\ subs'[OwnerOf[r]][id].plan = PlanOf[r] /\ subs'[OwnerOf[r]][id].status = "active"
  BY <1>1, <1>2, FinalizedRow
<1>5. \A other \in Workers : subs'[OwnerOf[r]][other].born <= subs'[OwnerOf[r]][id].born
  BY <1>3, <1>4 DEF OneWorker, Row
<1> HIDE DEF id
<1>6. QED
  BY <1>4, <1>5 DEF IsNewest, Exists

-----------------------------------------------------------------------------
(* The theorems about requests that do not overlap                        *)

\* Requests that do not overlap bill every payment once: the early return
\* of _finalize is then enough.
THEOREM SerialBilledOnce == ASSUME OneWorker PROVE Spec => []BilledOnce
<1>1. SInv => BilledOnce
  BY DEF SInv, BilledIffSuccess, BilledOnce
<1>2. SInv /\ [Next]_vars => SInv'
  BY SerialStep
<1>3. QED
  BY <1>1, <1>2, SerialInit, PTL DEF Spec

\* Nor does a verify take back a success.
THEOREM SerialSuccessIsFinal == ASSUME OneWorker PROVE Spec => SuccessIsFinal
<1>1. SInv /\ [Next]_vars => SInv'
  BY SerialStep
<1>2. SInv /\ [Next]_vars => [\A r \in Refs : txn[r] = "success" => txn'[r] = "success"]_vars
  BY SerialStep
<1>3. QED
  BY <1>1, <1>2, SerialInit, PTL DEF Spec, SuccessIsFinal

\* And every paid purchase is activated at most once: Payments implements
\* the ledger with Once = TRUE.
THEOREM SerialImplementsLedger == ASSUME OneWorker PROVE Spec => ImplementsExactlyOnce
<1>1. Init => ExactlyOnce!Init
  BY DEF Init, ExactlyOnce!Init, Paid
<1>2. SInv /\ [Next]_vars => SInv'
  BY SerialStep
<1>3. SInv /\ [Next]_vars => [ExactlyOnce!Next]_(ExactlyOnce!ledgerVars)
  <2> SUFFICES ASSUME SInv, [Next]_vars
               PROVE  [ExactlyOnce!Next]_(ExactlyOnce!ledgerVars)
    OBVIOUS
  <2>1. ASSUME NEW w \in Workers, Commit(w), Finalizes(req[w]), req[w].ref \in Paid, Paid' = Paid,
               billing' = [billing EXCEPT ![req[w].ref] = @ + 1]
        PROVE  ExactlyOnce!Next
    <3>1. billing[req[w].ref] = 0 /\ req[w].ref \in Refs
      BY <2>1, CommitKeepsBilling DEF Paid
    <3>2. ExactlyOnce!Activate(req[w].ref)
      BY <2>1, <3>1 DEF ExactlyOnce!Activate
    <3>3. QED
      BY <3>1, <3>2 DEF ExactlyOnce!Next
  <2>2. ASSUME NEW r \in Refs, r \notin Paid, Paid' = Paid \cup {r}, billing' = billing
        PROVE  ExactlyOnce!Next
    BY <2>2 DEF ExactlyOnce!Next, ExactlyOnce!Pay
  <2>3. QED
    BY <2>1, <2>2, LedgerStep DEF SInv, ExactlyOnce!ledgerVars
<1>4. QED
  BY <1>1, <1>2, <1>3, SerialInit, PTL DEF Spec, ImplementsExactlyOnce, ExactlyOnce!Safety

\* Once a payment has been finalized, the plan that the owner's requests see is the plan
\* that was paid for: finalizing writes on the row that is stored, not on an older copy.
THEOREM SerialActivationTakesEffect == ASSUME OneWorker PROVE Spec => ActivationTakesEffect
<1>1. Init => HInv
  BY SerialInit DEF Init, HInv, RowsInHand, InHand
<1>2. HInv /\ [Next]_vars => HInv'
  BY SerialStep, RowsInHandStep DEF HInv
<1>3. HInv /\ [Next]_vars =>
        [\A r \in Refs : billing'[r] # billing[r] =>
            \E id \in Workers : /\ IsNewest(OwnerOf[r], id)'
                                /\ subs'[OwnerOf[r]][id].plan = PlanOf[r]
                                /\ subs'[OwnerOf[r]][id].status = "active"]_vars
  BY ActivationStep
<1>4. QED
  BY <1>1, <1>2, <1>3, PTL DEF Spec, ActivationTakesEffect
=============================================================================
