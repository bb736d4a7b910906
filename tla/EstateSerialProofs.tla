------------------------- MODULE EstateSerialProofs -------------------------
(***************************************************************************)
(* How far overlapping requests exceed the cap of a plan, and what holds   *)
(* exactly when requests do not overlap: the cap, the last decision on an  *)
(* access request and the last choice of the notification preferences.     *)
(***************************************************************************)
EXTENDS EstateSafetyProofs, FiniteSetTheorems

-----------------------------------------------------------------------------
(* Counting beneficiaries                                                  *)

LEMMA LivingFinite ==
    /\ IsFiniteSet(Living) /\ Count \in Nat
    /\ \A S \in SUBSET Living : IsFiniteSet(S) /\ Cardinality(S) <= Count
<1>1. Living \subseteq Heirs
  BY DEF Living
<1>2. IsFiniteSet(Living)
  BY <1>1, HeirAssumption, FS_Subset
<1>3. QED
  BY <1>2, FS_Subset, FS_CardinalityType DEF Count

LEMMA EditedNotRevived ==
    ASSUME NEW stored \in Heir, NEW seen \in Heir, ~seen.deleted,
           NEW set \in HeirUpdate \cup HeirVerify \cup HeirDelete
    PROVE  stored.deleted => Updated(stored, seen, set).deleted
<1>1. set.deleted \in {Keep, TRUE}
  BY DEF HeirUpdate, HeirVerify, HeirDelete
<1>2. QED
  BY <1>1 DEF Heir, Updated, Flushed, Edited

\* Only the commit of a creation adds a beneficiary.
LEMMA LivingNext ==
    ASSUME SafeInv, NEW w \in Workers, Step(w)
    PROVE  \/ Living' \subseteq Living
           \/ CommitCreate(w) /\ Living' \subseteq Living \cup {req[w].heir}
<1>1. TypeInv /\ HeirsTypeOK /\ HeirSafe
  BY DEF SafeInv, TypeInv, TypeOK
<1>2. heirs' = heirs => Living' \subseteq Living
  BY DEF Living
<1>3. heirs' = heirs \/ CommitCreate(w) \/ CommitEdit(w)
  <2>1. ArriveHeir(w) => heirs' = heirs
    BY <1>1, HeirArrives DEF heirVars
  <2>2. ArriveInheritance(w) \/ WorkInheritance(w) => heirs' = heirs
    BY DEF ArriveInheritance, CreateRule, EditRule, CreateAccessRequest, UpdateAccessStatus,
           SetVerificationStatus, Decide, WorkInheritance, CommitRule, CommitOpen, CommitDecide,
           heirVars
  <2>3. WorkHeir(w) => heirs' = heirs \/ CommitCreate(w) \/ CommitEdit(w)
    BY DEF WorkHeir, SendMail, CommitContact, CommitPlan
  <2>4. QED
    BY <2>1, <2>2, <2>3 DEF Step, Rollback, heirVars
<1>4. CASE CommitCreate(w)
  BY <1>1, <1>4 DEF CommitCreate, Living, HeirsTypeOK
<1>5. CASE CommitEdit(w)
  <2>1. /\ req[w] \in HeirRequest /\ req[w].kind = "edit"
        /\ heirs[req[w].heir].status # "none" /\ ~req[w].seen.deleted
    BY <1>1, <1>5, Handled, KindsTell DEF CommitEdit, HeirKinds, HeirSafe, Handles
  <2>2. /\ req[w].heir \in Heirs /\ req[w].seen \in Heir
        /\ req[w].set \in HeirUpdate \cup HeirVerify \cup HeirDelete
        /\ heirs[req[w].heir] \in Heir
    BY <1>1, <2>1, HeirFields DEF HeirsTypeOK
  <2>3. heirs' = [heirs EXCEPT ![req[w].heir] = Updated(heirs[req[w].heir], req[w].seen, req[w].set)]
    BY <1>5 DEF CommitEdit
  <2>4. heirs[req[w].heir].deleted => heirs'[req[w].heir].deleted
    BY <1>1, <2>1, <2>2, <2>3, EditedNotRevived DEF HeirsTypeOK
  <2>5. QED
    BY <1>1, <2>1, <2>2, <2>3, <2>4 DEF Living, HeirsTypeOK
<1>6. QED
  BY <1>2, <1>3, <1>4, <1>5

LEMMA CountNext ==
    ASSUME SafeInv, NEW w \in Workers, Step(w)
    PROVE  Count' <= Count \/ (CommitCreate(w) /\ Count' <= Count + 1)
<1>1. Count \in Nat /\ IsFiniteSet(Living)
  BY LivingFinite
<1>2. CASE Living' \subseteq Living
  BY <1>2, LivingFinite DEF Count
<1>3. CASE CommitCreate(w) /\ Living' \subseteq Living \cup {req[w].heir}
  <2> DEFINE L == Living \cup {req[w].heir}
  <2>1. IsFiniteSet(L) /\ Cardinality(L) <= Count + 1
    <3>1. /\ IsFiniteSet(L)
          /\ Cardinality(L) = Cardinality(Living) \/ Cardinality(L) = Cardinality(Living) + 1
      BY <1>1, FS_AddElement
    <3>2. Count = Cardinality(Living)
      BY DEF Count
    <3> HIDE DEF L
    <3>3. QED
      BY <1>1, <3>1, <3>2
  <2>2. Cardinality(Living') <= Cardinality(L) /\ Cardinality(L) \in Nat /\ Cardinality(Living') \in Nat
    BY <1>3, <2>1, FS_Subset, FS_CardinalityType
  <2>3. Count' = Cardinality(Living')
    BY DEF Count
  <2> HIDE DEF L
  <2>4. QED
    BY <1>1, <1>3, <2>1, <2>2, <2>3
<1>4. QED
  BY <1>2, <1>3, LivingNext

LEMMA CreatesNext ==
    ASSUME TypeInv, NoRecord \in Record, NEW w \in Workers, Step(w),
           ~\E h \in Heirs, p \in Percents : Create(w, h, p)
    PROVE  ~Handles(w, "create")'
<1>1. \A r : Continues(w, r) => req'[w] = r
  BY Began
<1>2. Ends(w) => ~Handles(w, "create")'
  BY Ended DEF Handles
<1>3. CASE \/ Advances(w, InheritanceRequest) \/ Advances(w, VaultRequest)
           \/ Advances(w, LegacyRequest) \/ Advances(w, SuccessionRequest)
           \/ Advances(w, UserRequest)
  BY <1>3, NextKinds
  DEF Handles, InheritanceKinds, VaultKinds, LegacyKinds, SuccessionKinds, UserKinds
<1>4. CASE ArriveHeir(w)
  <2>1. CASE \E h \in Heirs, set \in HeirUpdate \cup HeirVerify \cup HeirDelete : Edit(w, h, set)
    BY <1>1, <2>1 DEF Edit, Begins, Handles
  <2>2. CASE \E c \in Contacts : CreateContact(w, c)
    BY <1>1, <2>2 DEF CreateContact, Begins, Handles
  <2>3. CASE \E p \in PlanTier : ChangePlan(w, p)
    BY <1>1, <2>3 DEF ChangePlan, Begins, Handles
  <2>4. QED
    BY <1>4, <2>1, <2>2, <2>3 DEF ArriveHeir
<1>5. CASE WorkHeir(w)
  <2>1. CASE CommitCreate(w)
    BY <1>1, <2>1 DEF CommitCreate, Handles
  <2>2. QED
    BY <1>2, <1>5, <2>1 DEF WorkHeir, SendMail, CommitEdit, CommitContact, CommitPlan, Answers
<1>6. CASE Rollback(w)
  BY <1>2, <1>6 DEF Rollback, Dies
<1>7. QED
  BY <1>3, <1>4, <1>5, <1>6, InheritanceArrives, InheritanceWorks, VaultArrives, VaultWorks,
     LegacyArrives, LegacyWorks, SuccessionArrives, SuccessionWorks, ProfileArrives,
     ProfileWorks DEF Step

-----------------------------------------------------------------------------
(* The bound on the overshoot                                              *)

Creators == {v \in Workers : Handles(v, "create")}

CountInv ==
    /\ highest # NoLimit => Limit[plan] \in Nat /\ Limit[plan] <= highest
    /\ highest # NoLimit => Count + Cardinality(Creators) < highest + Cardinality(Workers)

LEMMA CreatorsFinite ==
    /\ IsFiniteSet(Workers) /\ Cardinality(Workers) \in Nat \ {0}
    /\ \A S \in SUBSET Workers :
        /\ IsFiniteSet(S) /\ Cardinality(S) \in Nat /\ Cardinality(S) <= Cardinality(Workers)
        /\ \A w \in S : Cardinality(S \ {w}) = Cardinality(S) - 1
        /\ \A T \in SUBSET S : Cardinality(T) <= Cardinality(S)
<1>1. IsFiniteSet(Workers) /\ Cardinality(Workers) \in Nat \ {0}
  BY WorkerAssumption, FS_CardinalityType, FS_EmptySet
<1>2. ASSUME NEW S \in SUBSET Workers
      PROVE  /\ IsFiniteSet(S) /\ Cardinality(S) \in Nat /\ Cardinality(S) <= Cardinality(Workers)
             /\ \A w \in S : Cardinality(S \ {w}) = Cardinality(S) - 1
             /\ \A T \in SUBSET S : Cardinality(T) <= Cardinality(S)
  BY <1>1, FS_Subset, FS_CardinalityType, FS_RemoveElement
<1>3. QED
  BY <1>1, <1>2

LEMMA CountInit == Init => CountInv
<1> SUFFICES ASSUME Init
             PROVE  CountInv
  OBVIOUS
<1>1. Living = {} /\ Creators = {}
  BY DEF Init, HeirsInit, NoHeir, Living, RequestsInit, Creators, Handles, Free
<1>2. Count = 0 /\ Cardinality(Creators) = 0
  BY <1>1, FS_EmptySet DEF Count
<1>3. highest = Limit[plan] /\ Limit[plan] \in Nat \cup {NoLimit}
  BY LimitAssumption DEF Init, HeirsInit, PlanTier
<1>4. QED
  BY <1>2, <1>3, CreatorsFinite DEF CountInv

LEMMA CountInvNext ==
    ASSUME SafeInv, NoRecord \in Record, CountInv, [Next]_vars
    PROVE  CountInv'
<1>1. TypeInv /\ HeirsTypeOK
  BY DEF SafeInv, TypeInv, TypeOK
<1>2. CASE UNCHANGED vars
  BY <1>2 DEF vars, requestVars, heirVars, CountInv, Count, Living, Creators, Handles, Free
<1>3. ASSUME NEW w \in Workers, Step(w)
      PROVE  CountInv'
  <2>1. \A v \in Workers : v # w => req'[v] = req[v]
    BY <1>1, <1>3, StepAdvances DEF Advances
  <2>2. Creators \subseteq Workers /\ Creators' \subseteq Creators \cup {w} /\ Creators' \subseteq Workers
    BY <2>1 DEF Creators, Handles, Free
  <2>3. /\ Count \in Nat /\ Count' \in Nat
        /\ Cardinality(Creators) \in Nat /\ Cardinality(Creators') \in Nat
        /\ Cardinality(Creators') <= Cardinality(Workers) /\ Cardinality(Workers) \in Nat
    BY <2>2, LivingFinite, CreatorsFinite, FS_CardinalityType, HeirAssumption, FS_Subset
    DEF Count, Living
  <2>4. CASE \E h \in Heirs, p \in Percents : Create(w, h, p)
    <3>1. ~AtLimit(plan) /\ Count' = Count /\ UNCHANGED <<plan, highest>>
      BY <2>4 DEF Create, heirVars, Count, Living
    <3>2. highest # NoLimit => highest \in Nat
      BY <1>1 DEF HeirsTypeOK
    <3>3. highest # NoLimit => Count < Limit[plan]
      BY <2>3, <3>1, LimitAssumption DEF AtLimit, CountInv
    <3>4. QED
      BY <2>3, <3>1, <3>2, <3>3, CreatorsFinite DEF CountInv
  <2>5. CASE CommitCreate(w)
    <3>1. w \in Creators /\ ~Handles(w, "create")'
      BY <1>1, <2>5, Began DEF CommitCreate, Creators, Handles
    <3>2. Creators' \subseteq Creators \ {w}
      BY <2>2, <3>1 DEF Creators
    <3>3. Cardinality(Creators') <= Cardinality(Creators) - 1
      <4>1. Creators \ {w} \in SUBSET Workers
        BY <2>2
      <4>2. Cardinality(Creators \ {w}) = Cardinality(Creators) - 1
        BY <2>2, <3>1, CreatorsFinite
      <4>3. Cardinality(Creators') <= Cardinality(Creators \ {w})
        BY <3>2, <4>1, CreatorsFinite
      <4>4. QED
        BY <4>2, <4>3
    <3>4. Count' <= Count + 1 /\ UNCHANGED <<plan, highest>>
      BY <1>3, <2>3, <2>5, CountNext DEF CommitCreate
    <3>5. highest # NoLimit => highest \in Nat
      BY <1>1 DEF HeirsTypeOK
    <3>6. QED
      BY <2>3, <3>3, <3>4, <3>5 DEF CountInv
  <2>6. CASE ~CommitCreate(w) /\ ~\E h \in Heirs, p \in Percents : Create(w, h, p)
    <3>1. Count' <= Count
      BY <1>3, <2>6, CountNext
    <3>2. ~Handles(w, "create")'
      BY <1>1, <1>3, <2>6, CreatesNext
    <3>3. Creators' \subseteq Creators
      BY <2>2, <3>2 DEF Creators
    <3>4. Cardinality(Creators') <= Cardinality(Creators)
      BY <2>2, <3>3, CreatorsFinite
    <3>5. \/ UNCHANGED <<plan, highest>>
          \/ CommitPlan(w)
      <4>1. WorkHeir(w) => UNCHANGED <<plan, highest>> \/ CommitPlan(w)
        BY DEF WorkHeir, CommitCreate, SendMail, CommitEdit, CommitContact
      <4>2. ArriveHeir(w) => UNCHANGED <<plan, highest>>
        BY <1>1, HeirArrives DEF heirVars
      <4>3. ArriveInheritance(w) \/ WorkInheritance(w) => UNCHANGED <<plan, highest>>
        BY DEF ArriveInheritance, CreateRule, EditRule, CreateAccessRequest, UpdateAccessStatus,
               SetVerificationStatus, Decide, WorkInheritance, CommitRule, CommitOpen, CommitDecide,
               heirVars
      <4>4. QED
        BY <1>3, <4>1, <4>2, <4>3 DEF Step, Rollback, heirVars
    <3>6. highest \in Nat \cup {NoLimit} /\ NoLimit \notin Nat
      BY <1>1, LimitAssumption DEF HeirsTypeOK
    <3>7. CASE UNCHANGED <<plan, highest>>
      BY <2>3, <3>1, <3>4, <3>6, <3>7 DEF CountInv
    <3>8. CASE CommitPlan(w)
      <4>1. plan' \in PlanTier
        BY <1>1, <3>8, Handled, KindsTell, HeirFields DEF CommitPlan, HeirKinds
      <4>2. Limit[plan'] \in Nat \cup {NoLimit}
        BY <4>1, LimitAssumption
      <4>3. highest' = IF NoLimit \in {highest, Limit[plan']} THEN NoLimit
                       ELSE IF Limit[plan'] > highest THEN Limit[plan'] ELSE highest
        BY <3>8 DEF CommitPlan
      <4>4. highest' # NoLimit => /\ highest # NoLimit /\ highest <= highest' /\ highest' \in Nat
                                  /\ Limit[plan'] \in Nat /\ Limit[plan'] <= highest'
        BY <3>6, <4>2, <4>3
      <4>5. QED
        BY <2>3, <3>1, <3>4, <3>6, <4>4 DEF CountInv
    <3>9. QED
      BY <3>5, <3>7, <3>8
  <2>7. QED
    BY <2>4, <2>5, <2>6
<1>4. QED
  BY <1>2, <1>3, NextSteps

\* However many creations overlap, an owner never has more beneficiaries than the
\* highest cap of the plans so far and one for each other worker.
THEOREM OvershootBounded == Spec => []OvershootIsBounded
<1>1. Init => CountInv
  BY CountInit
<1>2. SafeInv /\ NoRecord \in Record /\ CountInv /\ [Next]_vars => CountInv'
  BY CountInvNext
<1>3. SafeInv /\ CountInv => OvershootIsBounded
  <2>1. Creators \in SUBSET Workers
    BY DEF Creators
  <2>2. Cardinality(Creators) \in Nat /\ Cardinality(Workers) \in Nat /\ Count \in Nat
    BY <2>1, CreatorsFinite, LivingFinite
  <2>3. SafeInv => highest \in Nat \cup {NoLimit}
    BY DEF SafeInv, TypeInv, TypeOK, HeirsTypeOK
  <2>4. QED
    BY <2>2, <2>3 DEF CountInv, OvershootIsBounded
<1>4. QED
  BY <1>1, <1>2, <1>3, Safe, PTL DEF Spec
-----------------------------------------------------------------------------
(* The administrators' queue                                               *)

\* What the owner is told is pending is in the administrators' queue, for any number
\* of requests that the queue can hold.
THEOREM PendingQueued == Spec => []PendingIsQueued
<1>1. PendingIsQueued
  <2> SUFFICES ASSUME Cardinality(Opened) <= QueueLimit, NEW q \in Pending
               PROVE  q \in VerificationQueue
    BY DEF PendingIsQueued
  <2> DEFINE earlier == {k \in Opened : k < q}
  <2>1. IsFiniteSet(Opened)
    <3>1. IsFiniteSet(AccessIds)
      BY AccessAssumption, FS_Interval, 1 \in Int, MaxAccess \in Int DEF AccessIds
    <3>2. Opened \subseteq AccessIds
      BY DEF Opened
    <3>3. QED
      BY <3>1, <3>2, FS_Subset
  <2>2. q \in Opened /\ q \in Nat
    BY DEF Pending, Opened, AccessIds
  <2>3. earlier \subseteq Opened \ {q}
    BY <2>2
  <2>4. /\ Cardinality(Opened \ {q}) = Cardinality(Opened) - 1
        /\ IsFiniteSet(Opened \ {q}) /\ Cardinality(Opened) \in Nat
    BY <2>1, <2>2, FS_RemoveElement, FS_CardinalityType
  <2>5. Cardinality(earlier) <= Cardinality(Opened \ {q}) /\ Cardinality(earlier) \in Nat
    BY <2>3, <2>4, FS_Subset, FS_CardinalityType
  <2>6. Cardinality(earlier) < QueueLimit
    BY <2>4, <2>5, AccessAssumption
  <2>7. QED
    BY <2>2, <2>6 DEF VerificationQueue
<1>2. QED
  BY <1>1, PTL

-----------------------------------------------------------------------------
(* Requests that do not overlap                                            *)

Busy == \A v \in Workers : ~Free(v) => v \in load.workers

LEMMA BusyNext ==
    ASSUME TypeInv, NoRecord \in Record, Busy, NEW w \in Workers, Step(w)
    PROVE  Busy' /\ load' = load /\ w \in load.workers
<1>1. load' = load /\ \A v \in Workers : v # w => req'[v] = req[v]
  BY StepAdvances DEF Advances
<1>2. CASE ~Free(w)
  BY <1>1, <1>2 DEF Busy, Free
<1>3. CASE Free(w)
  <2>1. \/ ArriveHeir(w) \/ ArriveInheritance(w) \/ ArriveVault(w)
        \/ ArriveLegacy(w) \/ ArriveSuccession(w) \/ ArriveProfile(w)
    BY <1>3
    DEF Step, Rollback, Dies, WorkHeir, CommitCreate, SendMail, CommitEdit, CommitContact,
        CommitPlan, WorkInheritance, CommitRule, CommitOpen, CommitDecide, WorkVault,
        CommitRecord, CommitChange, CommitView, WorkLegacy, CommitNote, CommitMemory,
        WorkSuccession, ReadDistribution, CommitReport, RefuseReport, CommitShare,
        WorkProfile, CommitUser, CommitCode
  <2>2. w \in load.workers
    BY <2>1, ArrivesAtFree
  <2>3. QED
    BY <1>1, <2>2 DEF Busy, Free
<1>4. QED
  BY <1>2, <1>3

LEMMA Alone ==
    ASSUME TypeInv, NoRecord \in Record, Busy, NEW w \in Workers, Step(w), Serial
    PROVE  \A v \in Workers : (~Free(v))' => v = w
BY BusyNext DEF Busy, Serial

CapInv == Serial => \A v \in Workers : Handles(v, "create") => ~AtLimit(plan)

LEMMA CapNext ==
    ASSUME SafeInv, NoRecord \in Record, Busy, CapInv, NEW w \in Workers, Step(w)
    PROVE  CapInv' /\ (Serial => WithinCap)
<1>1. TypeInv
  BY DEF SafeInv
<1>2. load' = load
  BY <1>1, BusyNext
<1>3. Serial => WithinCap
  <2> SUFFICES ASSUME Serial, Count' > Count
               PROVE  Limit[plan] = NoLimit \/ Count' <= Limit[plan]
    BY DEF WithinCap
  <2>1. Count \in Nat /\ Count' \in Nat
    BY LivingFinite, FS_CardinalityType, FS_Subset, HeirAssumption DEF Count, Living
  <2>2. CommitCreate(w) /\ Count' <= Count + 1
    BY <2>1, CountNext
  <2>3. ~AtLimit(plan)
    BY <2>2 DEF CapInv, Handles, CommitCreate
  <2>4. Limit[plan] \in Nat \cup {NoLimit}
    BY <1>1, LimitAssumption DEF TypeInv, TypeOK, HeirsTypeOK
  <2>5. QED
    BY <2>1, <2>2, <2>3, <2>4, LimitAssumption DEF AtLimit
<1>4. CapInv'
  <2> SUFFICES ASSUME Serial, NEW v \in Workers, Handles(v, "create")'
               PROVE  ~AtLimit(plan)'
    BY <1>2 DEF CapInv, Serial
  <2>1. Handles(w, "create")'
    BY <1>1, Alone DEF Handles
  <2>2. PICK h \in Heirs, p \in Percents : Create(w, h, p)
    BY <1>1, <2>1, CreatesNext
  <2>3. QED
    BY <2>2 DEF Create, AtLimit, Count, Living, heirVars
<1>5. QED
  BY <1>3, <1>4
-----------------------------------------------------------------------------
(* Decisions                                                               *)

DecisionInv ==
    Serial =>
        /\ \A q \in AccessIds : access[q].heir # NoOne => access[q].status = decided[q]
        /\ \A v \in Workers : Handles(v, "decide") => req[v].seen = access[req[v].id]

LEMMA DecidesNext ==
    ASSUME TypeInv, NoRecord \in Record, NEW w \in Workers, Step(w), Handles(w, "decide")'
    PROVE  \E q \in AccessIds : \E status, byAdmin, shown : Decide(w, q, status, byAdmin, shown)
<1>1. \A r : Begins(w, r) => req'[w] = r
  BY Began DEF Begins
<1>2. Ends(w) => ~Handles(w, "decide")'
  BY Ended DEF Handles
<1>3. ~\/ Advances(w, HeirRequest) \/ Advances(w, VaultRequest)
       \/ Advances(w, LegacyRequest) \/ Advances(w, SuccessionRequest)
       \/ Advances(w, UserRequest)
  BY NextKinds DEF Handles, HeirKinds, VaultKinds, LegacyKinds, SuccessionKinds, UserKinds
<1>4. ~WorkInheritance(w) /\ ~Rollback(w)
  BY <1>2 DEF WorkInheritance, CommitRule, CommitOpen, CommitDecide, Answers, Rollback, Dies
<1>5. ArriveInheritance(w)
  BY <1>3, <1>4, HeirArrives, HeirWorks, VaultArrives, VaultWorks, LegacyArrives, LegacyWorks,
     SuccessionArrives, SuccessionWorks, ProfileArrives, ProfileWorks DEF Step
<1>6. ASSUME NEW x \in Rules, NEW h \in Heirs, NEW t \in Triggers, CreateRule(w, x, h, t)
      PROVE  FALSE
  <2>1. req'[w].kind = "rule"
    BY <1>1, <1>6 DEF CreateRule
  <2>2. QED
    BY <2>1 DEF Handles
<1>7. ASSUME NEW x \in Rules, NEW set \in RuleUpdate \cup RuleToggle, EditRule(w, x, set)
      PROVE  FALSE
  <2>1. req'[w].kind = "edit_rule"
    BY <1>1, <1>7 DEF EditRule
  <2>2. QED
    BY <2>1 DEF Handles
<1>8. ASSUME NEW h \in Heirs, CreateAccessRequest(w, h)
      PROVE  FALSE
  <2>1. req'[w].kind = "open"
    BY <1>1, <1>8 DEF CreateAccessRequest
  <2>2. QED
    BY <2>1 DEF Handles
<1>9. QED
  BY <1>5, <1>6, <1>7, <1>8 DEF ArriveInheritance, UpdateAccessStatus, SetVerificationStatus

LEMMA DecisionNext ==
    ASSUME SafeInv, NoRecord \in Record, Busy, DecisionInv, NEW w \in Workers, Step(w)
    PROVE  DecisionInv'
<1>1. TypeInv /\ InheritanceTypeOK
  BY DEF SafeInv, TypeInv, TypeOK
<1>2. load' = load
  BY <1>1, BusyNext
<1> SUFFICES ASSUME Serial
             PROVE  /\ \A q \in AccessIds : access'[q].heir # NoOne => access'[q].status = decided'[q]
                    /\ \A v \in Workers : Handles(v, "decide")' => req'[v].seen = access'[req'[v].id]
  BY <1>2 DEF DecisionInv, Serial
<1>3. \A v \in Workers : Handles(v, "decide")' => v = w
  BY <1>1, Alone DEF Handles
<1>4. CASE CommitOpen(w)
  <2>1. req[w].id \in AccessIds
    BY <1>1, <1>4, Handled, KindsTell, InheritanceFields DEF CommitOpen, InheritanceKinds
  <2>2. ~Handles(w, "decide")'
    BY <1>1, <1>4, Ended DEF CommitOpen, Answers, Handles
  <2>3. QED
    BY <1>1, <1>3, <1>4, <2>1, <2>2 DEF CommitOpen, InheritanceTypeOK, DecisionInv
<1>5. CASE CommitDecide(w)
  <2> DEFINE r == req[w]
  <2>1. Handles(w, "decide") /\ r.id \in AccessIds /\ r.seen \in Access /\ r.status \in AccessRequestStatus
    BY <1>1, <1>5, Handled, KindsTell, InheritanceFields DEF CommitDecide, Handles, InheritanceKinds
  <2>2. ~Handles(w, "decide")'
    BY <1>1, <1>5, Ended DEF CommitDecide, Answers, Handles
  <2>3. access[r.id] = r.seen
    BY <2>1 DEF DecisionInv
  <2>4. Flushed(access[r.id], r.seen, DecidedRow(r)).status = r.status
    BY <2>1, <2>3 DEF Flushed, DecidedRow, Access
  <2>5. /\ access' = [access EXCEPT ![r.id] = Flushed(access[r.id], r.seen, DecidedRow(r))]
        /\ decided' = [decided EXCEPT ![r.id] = r.status]
    BY <1>5 DEF CommitDecide
  <2>6. access'[r.id].status = decided'[r.id]
    BY <1>1, <2>1, <2>4, <2>5 DEF InheritanceTypeOK
  <2>7. \A q \in AccessIds : q # r.id => access'[q] = access[q] /\ decided'[q] = decided[q]
    BY <1>1, <2>1, <2>5 DEF InheritanceTypeOK
  <2>8. QED
    BY <1>3, <2>2, <2>6, <2>7 DEF DecisionInv
<1>6. CASE ~CommitOpen(w) /\ ~CommitDecide(w)
  <2>1. UNCHANGED <<access, decided>>
    BY <1>6
    DEF Step, Rollback, WorkInheritance, CommitRule, ArriveInheritance, CreateRule, EditRule,
        CreateAccessRequest, UpdateAccessStatus, SetVerificationStatus, Decide, inhVars
  <2>2. Handles(w, "decide")' => req'[w].seen = access[req'[w].id]
    <3>1. SUFFICES ASSUME Handles(w, "decide")'
                   PROVE  req'[w].seen = access[req'[w].id]
      OBVIOUS
    <3>2. PICK q \in AccessIds : \E status, byAdmin, shown : Decide(w, q, status, byAdmin, shown)
      BY <1>1, <3>1, DecidesNext
    <3>3. PICK status, byAdmin, shown : Decide(w, q, status, byAdmin, shown)
      BY <3>2
    <3>4. req'[w] = [kind |-> "decide", id |-> q, seen |-> access[q], status |-> status,
                     byAdmin |-> byAdmin, shown |-> shown]
      BY <1>1, <3>3, Began DEF Decide, Begins
    <3>5. QED
      BY <3>4
  <2>3. QED
    BY <1>3, <2>1, <2>2 DEF DecisionInv
<1>7. QED
  BY <1>4, <1>5, <1>6

-----------------------------------------------------------------------------
(* Notification preferences                                                *)

Chooses(r) ==
    \/ r.set.preferences = Keep /\ r.chosen = <<>>
    \/ r.set.preferences =
         [c \in Categories |-> IF c \in DOMAIN r.chosen THEN r.chosen[c] ELSE r.seen.preferences[c]]

PreferenceInv ==
    Serial =>
        /\ user.preferences = wanted
        /\ \A v \in Workers : Handles(v, "user") => req[v].seen = user /\ Chooses(req[v])

LEMMA UserNext ==
    ASSUME TypeInv, NoRecord \in Record, NEW w \in Workers, Step(w), Handles(w, "user")'
    PROVE  req'[w].seen = user /\ Chooses(req'[w]) /\ UNCHANGED <<user, wanted>>
<1>1. \A r : Begins(w, r) => req'[w] = r
  BY Began DEF Begins
<1>2. Ends(w) => ~Handles(w, "user")'
  BY Ended DEF Handles
<1>3. ~\/ Advances(w, HeirRequest) \/ Advances(w, VaultRequest)
       \/ Advances(w, LegacyRequest) \/ Advances(w, SuccessionRequest)
       \/ Advances(w, InheritanceRequest)
  BY NextKinds DEF Handles, HeirKinds, VaultKinds, LegacyKinds, SuccessionKinds, InheritanceKinds
<1>4. ~WorkProfile(w) /\ ~Rollback(w)
  BY <1>2 DEF WorkProfile, CommitUser, CommitCode, Answers, Rollback, Dies
<1>5. ArriveProfile(w)
  BY <1>3, <1>4, HeirArrives, HeirWorks, VaultArrives, VaultWorks, LegacyArrives, LegacyWorks,
     SuccessionArrives, SuccessionWorks, InheritanceArrives, InheritanceWorks DEF Step
<1>6. ASSUME NEW set, NEW chosen, NEW consumes, Arrives(w, set, chosen, consumes),
             \/ set.preferences = Keep /\ chosen = <<>>
             \/ set.preferences = Merged(chosen),
             UNCHANGED <<user, wanted>>
      PROVE  req'[w].seen = user /\ Chooses(req'[w]) /\ UNCHANGED <<user, wanted>>
  <2>1. req'[w] = [kind |-> "user", seen |-> user, set |-> set, chosen |-> chosen, consumes |-> consumes]
    BY <1>1, <1>6 DEF Arrives
  <2>2. QED
    BY <1>6, <2>1 DEF Chooses, Merged
<1>7. CASE \E name \in Names : UpdateProfile(w, name)
  <2>1. \A name : [Nothing EXCEPT !.name = name].preferences = Keep
    BY DEF Nothing, NewUser
  <2>2. QED
    BY <1>6, <1>7, <2>1 DEF UpdateProfile, userVars
<1>8. CASE \E on \in BOOLEAN : UpdateSecuritySettings(w, on)
  <2>1. \A on : [Nothing EXCEPT !.biometric = on].preferences = Keep
    BY DEF Nothing, NewUser
  <2>2. QED
    BY <1>6, <1>8, <2>1 DEF UpdateSecuritySettings, userVars
<1>9. ASSUME NEW chosen, UpdatePreferences(w, chosen)
      PROVE  req'[w].seen = user /\ Chooses(req'[w]) /\ UNCHANGED <<user, wanted>>
  <2>1. [Nothing EXCEPT !.preferences = Merged(chosen)].preferences = Merged(chosen)
    BY DEF Nothing, NewUser
  <2>2. QED
    BY <1>6, <1>9, <2>1 DEF UpdatePreferences, userVars
<1>10. ASSUME NEW secret, SetupMfa(w, secret)
       PROVE  req'[w].seen = user /\ Chooses(req'[w]) /\ UNCHANGED <<user, wanted>>
  <2>1. [Nothing EXCEPT !.secret = secret].preferences = Keep
    BY DEF Nothing, NewUser
  <2>2. QED
    BY <1>6, <1>10, <2>1 DEF SetupMfa
<1>11. CASE VerifyMfa(w)
  <2>1. [Nothing EXCEPT !.mfa = TRUE].preferences = Keep
    BY DEF Nothing, NewUser
  <2>2. QED
    BY <1>6, <1>11, <2>1 DEF VerifyMfa, userVars
<1>12. CASE (\E k \in Codes : ConfirmEmail(w, k)) \/ GoogleSignIn(w)
  <2>1. [Nothing EXCEPT !.verified = TRUE].preferences = Keep
    BY DEF Nothing, NewUser
  <2>2. QED
    BY <1>6, <1>12, <2>1 DEF ConfirmEmail, GoogleSignIn, userVars
<1>13. ASSUME NEW k \in Codes, SendCode(w, k)
      PROVE  FALSE
  <2>1. req'[w].kind = "code"
    BY <1>1, <1>13 DEF SendCode
  <2>2. QED
    BY <2>1 DEF Handles
<1>14. QED
  BY <1>5, <1>7, <1>8, <1>9, <1>10, <1>11, <1>12, <1>13 DEF ArriveProfile

LEMMA PreferenceNext ==
    ASSUME SafeInv, NoRecord \in Record, Busy, PreferenceInv, NEW w \in Workers, Step(w)
    PROVE  PreferenceInv'
<1>1. TypeInv /\ ProfileTypeOK
  BY DEF SafeInv, TypeInv, TypeOK
<1>2. load' = load
  BY <1>1, BusyNext
<1> SUFFICES ASSUME Serial
             PROVE  /\ user'.preferences = wanted'
                    /\ \A v \in Workers : Handles(v, "user")' => req'[v].seen = user' /\ Chooses(req'[v])
  BY <1>2 DEF PreferenceInv, Serial, Chooses
<1>3. \A v \in Workers : Handles(v, "user")' => v = w
  BY <1>1, Alone DEF Handles
<1>4. CASE CommitUser(w)
  <2> DEFINE r == req[w]
  <2>1. Handles(w, "user") /\ r.seen \in User /\ r.set \in UserBody /\ user \in User
    BY <1>1, <1>4, Handled, KindsTell, UserFields DEF CommitUser, Handles, UserKinds, ProfileTypeOK
  <2>2. r.seen = user /\ Chooses(r) /\ user.preferences = wanted
    BY <2>1 DEF PreferenceInv
  <2>3. ~Handles(w, "user")'
    BY <1>1, <1>4, Ended DEF CommitUser, Answers, Handles
  <2>4. /\ user' = Updated(user, user, r.set)
        /\ wanted' = [c \in Categories |-> IF c \in DOMAIN r.chosen THEN r.chosen[c] ELSE wanted[c]]
    BY <1>4, <2>2 DEF CommitUser
  <2>5. "preferences" \in DOMAIN user
    BY <2>1 DEF User
  <2>6. user'.preferences = IF r.set.preferences = Keep THEN user.preferences ELSE r.set.preferences
    BY <2>4, <2>5 DEF Updated, Flushed, Edited
  <2>7. wanted \in [Categories -> BOOLEAN] /\ wanted' \in [Categories -> BOOLEAN]
    <3>1. wanted \in [Categories -> BOOLEAN]
      BY <1>1 DEF ProfileTypeOK
    <3>2. \A c \in DOMAIN r.chosen : r.chosen[c] \in BOOLEAN
      BY <1>1, <2>1, Handled, KindsTell, UserFields DEF Handles, UserKinds, Chosen
    <3>3. QED
      BY <2>4, <3>1, <3>2
  <2>8. user'.preferences = wanted'
    <3>1. CASE r.set.preferences = Keep /\ r.chosen = <<>>
      <4>1. wanted' = wanted
        BY <2>4, <2>7, <3>1
      <4>2. QED
        BY <2>2, <2>6, <3>1, <4>1
    <3>2. CASE r.set.preferences =
                 [c \in Categories |-> IF c \in DOMAIN r.chosen THEN r.chosen[c]
                                       ELSE r.seen.preferences[c]]
      <4>1. r.set.preferences = wanted'
        BY <2>2, <2>4, <3>2
      <4>2. r.set.preferences # Keep
        BY <2>7, <4>1, ProfileAssumption
      <4>3. QED
        BY <2>6, <4>1, <4>2
    <3>3. QED
      BY <2>2, <3>1, <3>2 DEF Chooses
  <2>9. QED
    BY <1>3, <2>3, <2>8
<1>5. CASE ~CommitUser(w)
  <2>1. CASE Handles(w, "user")'
    BY <1>1, <1>3, <2>1, UserNext DEF PreferenceInv
  <2>2. CASE ~Handles(w, "user")'
    <3>1. UNCHANGED <<user, wanted>>
      BY <1>5
      DEF Step, Rollback, WorkProfile, CommitCode, ArriveProfile, UpdateProfile,
          UpdateSecuritySettings, UpdatePreferences, SetupMfa, VerifyMfa, SendCode, ConfirmEmail,
          GoogleSignIn, userVars
    <3>2. QED
      BY <1>3, <2>2, <3>1 DEF PreferenceInv
  <2>3. QED
    BY <2>1, <2>2
<1>6. QED
  BY <1>4, <1>5

-----------------------------------------------------------------------------
SerialInv == Busy /\ CapInv /\ DecisionInv /\ PreferenceInv

LEMMA SerialInit == Init => SerialInv
<1> USE DEF Init, RequestsInit, Free, Handles
<1>1. Init => Busy /\ CapInv
  BY DEF Busy, CapInv
<1>2. Init => DecisionInv
  BY DEF DecisionInv, InheritanceInit, NoAccess
<1>3. Init => PreferenceInv
  BY DEF PreferenceInv, ProfileInit
<1>4. QED
  BY <1>1, <1>2, <1>3 DEF SerialInv

LEMMA SerialNext ==
    ASSUME SafeInv, NoRecord \in Record, SerialInv, [Next]_vars
    PROVE  SerialInv' /\ (Serial => WithinCap)
<1>1. CASE UNCHANGED vars
  <2>1. UNCHANGED <<load, req, heirs, plan, access, decided, user, wanted>>
    BY <1>1 DEF vars, requestVars, heirVars, inhVars, userVars
  <2>2. Busy' /\ (Serial => CapInv')
    BY <2>1 DEF SerialInv, Busy, CapInv, Free, Handles, AtLimit, Count, Living
  <2>3. DecisionInv' /\ PreferenceInv'
    BY <2>1 DEF SerialInv, DecisionInv, PreferenceInv, Serial, Free, Handles, Chooses
  <2>4. Count' = Count
    BY <2>1 DEF Count, Living
  <2>5. Count \in Nat /\ (Serial' <=> Serial)
    BY <2>1, LivingFinite DEF Serial
  <2>6. QED
    BY <2>2, <2>3, <2>4, <2>5 DEF SerialInv, WithinCap, CapInv
<1>2. ASSUME NEW w \in Workers, Step(w)
      PROVE  SerialInv' /\ (Serial => WithinCap)
  BY <1>2, BusyNext, CapNext, DecisionNext, PreferenceNext DEF SerialInv, SafeInv
<1>3. QED
  BY <1>1, <1>2, NextSteps

LEMMA SerialSafe == Spec => [](SafeInv /\ NoRecord \in Record /\ SerialInv)
<1>1. Init => SerialInv
  BY SerialInit
<1>2. SafeInv /\ NoRecord \in Record /\ SerialInv /\ [Next]_vars => SerialInv'
  BY SerialNext
<1>3. QED
  BY <1>1, <1>2, Safe, PTL DEF Spec

\* Creations that do not overlap keep to the cap of the plan, for any limits, rows and
\* changes of the plan between them.
THEOREM CapKept == Spec => CapRespected
<1> DEFINE A == Serial => WithinCap
<1>1. SafeInv /\ NoRecord \in Record /\ SerialInv /\ [Next]_vars => [A]_<<heirVars, requestVars>>
  BY SerialNext
<1> HIDE DEF A
<1>2. Spec => [][A]_<<heirVars, requestVars>>
  BY <1>1, SerialSafe, PTL DEF Spec
<1>3. QED
  BY <1>2, PTL DEF CapRespected, A

\* Of decisions that do not overlap the last one stands, for any number of requests and
\* any order of the owner's and the administrators' decisions.
THEOREM DecisionsStand == Spec => []LastDecisionStands
<1>1. SerialInv => LastDecisionStands
  BY DEF SerialInv, DecisionInv, LastDecisionStands, StatusIsDecision, Opened
<1>2. QED
  BY <1>1, SerialSafe, PTL

\* Of choices that do not overlap the last of every category stands, for any
\* categories.
THEOREM ChoicesStand == Spec => []PreferencesStand
<1>1. SerialInv => PreferencesStand
  BY DEF SerialInv, PreferenceInv, PreferencesStand
<1>2. QED
  BY <1>1, SerialSafe, PTL
=============================================================================
