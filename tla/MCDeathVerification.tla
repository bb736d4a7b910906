------------------------ MODULE MCDeathVerification ------------------------
(***************************************************************************)
(* Instances of DeathVerification for TLC.  The updates: one stage set to  *)
(* validated, the first one to failed, or all three validated at once.     *)
(***************************************************************************)
EXTENDS DeathVerification

CONSTANTS w1, u1, u2, d1, d2, x1

Only(s, v) == [t \in Stages |-> IF t = s THEN v ELSE Keep]

MCUpdates ==
    {Only(s, "validated") : s \in Stages}
    \cup {Only("document", "failed"), [t \in Stages |-> "validated"]}

\* Two workers on one case with one witness.
Parallel ==
    [workers |-> Workers, kinds |-> {"submit", "stages", "witness", "register"},
     scope |-> {u1, d1, x1, 1}]

\* One worker on two cases of one owner.
OneByOne ==
    [workers |-> {w1}, kinds |-> {"submit", "stages", "read"}, scope |-> {u1, d1, 1, 2}]

\* Two users, who may share two devices, with more notifications than a page.
Notices ==
    [workers |-> {w1}, kinds |-> {"submit", "register", "read_all"},
     scope |-> {u1, u2, d1, d2, 1, 2, 3}]

\* Two users who register one device at the same time.
TwoOwners == [workers |-> Workers, kinds |-> {"register"}, scope |-> {u1, u2, d1}]

MCLoads == {Parallel, OneByOne, Notices, TwoOwners}
=============================================================================
