----------------------------- MODULE SessionLife -----------------------------
(***************************************************************************)
(* What the identity service promises, without requests, codes or workers: *)
(* an account is opened once and stays, its password changes only in a     *)
(* reset, and a refresh token is issued once, to an account, and is never  *)
(* usable again after it was revoked.  Sessions implements it, however     *)
(* many requests overlap.                                                  *)
(***************************************************************************)
EXTENDS Naturals

CONSTANTS
    Addresses,
    Tokens,
    TokenOwner

VARIABLES
    accounts,   \* the addresses that have an account
    password,   \* the number of the account's password; 0: it has none
    state       \* of each refresh token: none, active, expired, revoked

lifeVars == <<accounts, password, state>>

Init ==
    /\ accounts = {}
    /\ password = [a \in Addresses |-> 0]
    /\ state = [t \in Tokens |-> "none"]

Issued == {t \in Tokens : state[t] # "none"}

Revoked(T) == [t \in Tokens |-> IF t \in T THEN "revoked" ELSE state[t]]

\* A sign-in, which opens the account if there is none yet, with or without a password.
SignIn(t) ==
    /\ t \notin Issued
    /\ state' = [state EXCEPT ![t] = "active"]
    /\ accounts' = accounts \cup {TokenOwner[t]}
    /\ \/ UNCHANGED password
       \/ /\ TokenOwner[t] \notin accounts
          /\ password' = [password EXCEPT ![TokenOwner[t]] = 1]

Expire(t) ==
    /\ state[t] = "active"
    /\ state' = [state EXCEPT ![t] = "expired"]
    /\ UNCHANGED <<accounts, password>>

Revoke(T) ==
    /\ T \subseteq Issued
    /\ state' = Revoked(T)
    /\ UNCHANGED <<accounts, password>>

\* A reset changes the password and revokes sessions of the account in one step.
Reset(a, T) ==
    /\ a \in accounts
    /\ T \subseteq {t \in Issued : TokenOwner[t] = a}
    /\ password' = [password EXCEPT ![a] = @ + 1]
    /\ state' = Revoked(T)
    /\ UNCHANGED accounts

Next ==
    \/ \E t \in Tokens : SignIn(t) \/ Expire(t)
    \/ \E T \in SUBSET Tokens : Revoke(T) \/ \E a \in Addresses : Reset(a, T)

Spec == Init /\ [][Next]_lifeVars
=============================================================================
