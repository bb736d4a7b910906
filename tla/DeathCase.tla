------------------------------ MODULE DeathCase ------------------------------
(***************************************************************************)
(* What a death verification promises, without requests, rows or workers:  *)
(* a case is opened together with the notice to its owner, its stages are  *)
(* validated one after the other or together, it is completed only when    *)
(* each of them has been, and it is never reopened.  DeathVerification     *)
(* implements it, however many updates overlap.                            *)
(***************************************************************************)

CONSTANTS
    Cases,
    Stages

VARIABLES
    status,     \* of each case: none, in_progress, completed
    validated,  \* the stages of a case that have been validated
    notified    \* the cases whose owner has the notice

promiseVars == <<status, validated, notified>>

Init ==
    /\ status = [c \in Cases |-> "none"]
    /\ validated = [c \in Cases |-> {}]
    /\ notified = {}

\* The certificate of a new case may validate a stage at once.
Open(c, S) ==
    /\ status[c] = "none"
    /\ status' = [status EXCEPT ![c] = "in_progress"]
    /\ validated' = [validated EXCEPT ![c] = S]
    /\ notified' = notified \cup {c}

Validate(c, S) ==
    /\ status[c] # "none"
    /\ validated' = [validated EXCEPT ![c] = @ \cup S]
    /\ UNCHANGED <<status, notified>>

\* The last stages and the completion are one step.
Complete(c, S) ==
    /\ status[c] # "none"
    /\ validated[c] \cup S = Stages
    /\ validated' = [validated EXCEPT ![c] = Stages]
    /\ status' = [status EXCEPT ![c] = "completed"]
    /\ UNCHANGED notified

Next == \E c \in Cases, S \in SUBSET Stages : Open(c, S) \/ Validate(c, S) \/ Complete(c, S)

Spec == Init /\ [][Next]_promiseVars
=============================================================================
