------------------------------ MODULE MCEstate ------------------------------
(***************************************************************************)
(* Instances of Estate for TLC, with smaller caps than PLAN_CATALOG has    *)
(* (2, 5 and none).  Each load lets the requests of one question arrive.   *)
(***************************************************************************)
EXTENDS Estate

CONSTANTS w1, h1, h2, h3, k1, k2, rule1, r1, r2, s1, s2, n1, m1, t1, t2, mfa1, mfa2, code1, name1, name2, c1, c2

MCLimit == [free |-> 1, premium |-> 2, family |-> NoLimit]

\* Two workers add and delete beneficiaries while the plan changes.
HeirsTogether ==
    [workers |-> Workers, kinds |-> {"create", "delete", "plan"}, scope |-> {h1, h2, h3, 0}]

\* One worker, with trusted contacts.
HeirsOneByOne ==
    [workers |-> {w1}, kinds |-> {"create", "delete", "plan", "contact"},
     scope |-> {h1, h2, h3, 0, k1, k2}]

\* A beneficiary is edited, verified and deleted from two screens, and a rule is
\* edited and toggled.
Edits ==
    [workers |-> Workers, kinds |-> {"create", "edit", "delete"}, scope |-> {h1, 0}]

RuleEdits ==
    [workers |-> Workers, kinds |-> {"create", "delete", "rule"}, scope |-> {h1, rule1, 0}]

\* The owner and an administrator decide access requests at the same time.
Decisions ==
    [workers |-> Workers, kinds |-> {"create", "delete", "open", "decide", "waiting_period"},
     scope |-> {h1, 0, 1}]

\* Any decision of the owner or the administrator after any other.
DecisionsOneByOne ==
    [workers |-> {w1},
     kinds |-> {"create", "delete", "open", "decide"} \cup (AccessRequestStatus \ {"submitted"}),
     scope |-> {h1, 0, 1, 2}]

\* A row of the vault, written and deleted by two workers, and a memory.
Rows ==
    [workers |-> Workers, kinds |-> {"items", "upload", "change", "memory"},
     scope |-> {r1, s1, s2, m1}]

\* A note for nobody or for a beneficiary who may be deleted.
Letters ==
    [workers |-> Workers, kinds |-> {"create", "delete", "letter"}, scope |-> {h1, n1, s1, 0}]

\* A report that is generated and shared while the estate changes.
Reports ==
    [workers |-> Workers, kinds |-> {"create", "assets", "report"}, scope |-> {h1, 0, r1, s1, t1, t2}]

\* The settings of the owner, from two devices.
Settings ==
    [workers |-> Workers, kinds |-> {"user", "mfa"}, scope |-> {mfa1, c1}]

SettingsOneByOne ==
    [workers |-> {w1}, kinds |-> {"user", "mfa", "google"},
     scope |-> {mfa1, mfa2, code1, name1, name2, c1, c2}]

\* What the screens are computed from.
Screens ==
    [workers |-> {w1},
     kinds |-> {"create", "delete", "plan", "assets", "documents", "mfa"},
     scope |-> {h1, h2, 70, r1, r2, s1, mfa1}]

MCLoads ==
    {HeirsTogether, HeirsOneByOne, Edits, RuleEdits, Decisions, DecisionsOneByOne, Rows,
     Letters, Reports, Settings, SettingsOneByOne, Screens}
=============================================================================
