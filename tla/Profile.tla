------------------------------ MODULE Profile ------------------------------
(***************************************************************************)
(* The settings of one user (backend/app/domains/identity): profile,       *)
(* security settings, notification preferences, MFA and the verification   *)
(* of the e-mail address, which a sign-in with Google settles too.  All of *)
(* them write the one row of the user, each some of its columns.           *)
(*                                                                         *)
(* Not represented: which fields the profile has, the six digits of a      *)
(* code and their expiry, the check of a TOTP code against the clock.      *)
(***************************************************************************)
EXTENDS UnitOfWork

CONSTANTS
    Names,          \* values of the profile's fields
    Categories,     \* keys of notification_preferences
    DefaultOn,      \* those that are on when the account is made
    MfaSecrets,     \* TOTP secrets that setup_mfa may draw
    NoSecret,
    Codes           \* email_verification_codes rows

ASSUME ProfileAssumption ==
    /\ Names # {}
    /\ NoSecret \notin MfaSecrets
    /\ Keep \notin [Categories -> BOOLEAN]

VARIABLES
    user,           \* the identity_users row
    drawn,          \* the TOTP secrets that were ever drawn
    codes,          \* email_verification_codes: "none", "active", "consumed"
    vouched,        \* a token of Google has called the address verified
    wanted          \* history: the preferences as last acknowledged

userVars == <<user, drawn, codes, vouched, wanted>>

User == [name: Names, biometric: BOOLEAN, preferences: [Categories -> BOOLEAN],
         mfa: BOOLEAN, secret: MfaSecrets \cup {NoSecret}, verified: BOOLEAN]

NewUser == [name |-> CHOOSE n \in Names : TRUE, biometric |-> FALSE,
            preferences |-> [c \in Categories |-> c \in DefaultOn],
            mfa |-> FALSE, secret |-> NoSecret, verified |-> FALSE]

UserBody == [name: Names \cup {Keep}, biometric: BOOLEAN \cup {Keep},
             preferences: [Categories -> BOOLEAN] \cup {Keep},
             mfa: {TRUE, Keep}, secret: MfaSecrets \cup {Keep}, verified: {TRUE, Keep}]

Nothing == [c \in DOMAIN NewUser |-> Keep]

\* chosen: what the body of the preferences says, code: the code that is consumed.
UserRequest ==
    [kind: {"user"}, seen: User, set: UserBody,
     chosen: UNION {[D -> BOOLEAN] : D \in SUBSET Categories}, consumes: SUBSET Codes]
    \cup [kind: {"code"}, code: Codes]

ProfileTypeOK ==
    /\ user \in User
    /\ drawn \subseteq MfaSecrets
    /\ codes \in [Codes -> {"none", "active", "consumed"}]
    /\ vouched \in BOOLEAN
    /\ wanted \in [Categories -> BOOLEAN]

ProfileInit ==
    /\ user = NewUser
    /\ drawn = {}
    /\ codes = [k \in Codes |-> "none"]
    /\ vouched = FALSE
    /\ wanted = NewUser.preferences

-----------------------------------------------------------------------------
(* Requests arriving: each has loaded the row of the user (get_current_user). *)

Arrives(w, set, chosen, consumes) ==
    Begins(w, [kind |-> "user", seen |-> user, set |-> set, chosen |-> chosen,
               consumes |-> consumes])

\* update_profile, update_security_settings.
UpdateProfile(w, name) ==
    Arrives(w, [Nothing EXCEPT !.name = name], <<>>, {}) /\ UNCHANGED userVars

UpdateSecuritySettings(w, on) ==
    Arrives(w, [Nothing EXCEPT !.biometric = on], <<>>, {}) /\ UNCHANGED userVars

\* Mutant: what the body leaves out is switched on.
MergedFresh(chosen) ==
    [c \in Categories |-> IF c \in DOMAIN chosen THEN chosen[c] ELSE TRUE]

\* The loaded preferences with those of the body.
Merged(chosen) ==
    [c \in Categories |-> IF c \in DOMAIN chosen THEN chosen[c] ELSE user.preferences[c]]

\* The preferences are one JSON column, which is written whole.
UpdatePreferences(w, chosen) ==
    /\ Arrives(w, [Nothing EXCEPT !.preferences = Merged(chosen)], chosen, {})
    /\ UNCHANGED userVars

\* Every setup draws another secret and leaves mfa as it is.
SetupMfa(w, secret) ==
    /\ secret \notin drawn
    /\ drawn' = drawn \cup {secret}
    /\ Arrives(w, [Nothing EXCEPT !.secret = secret], <<>>, {})
    /\ UNCHANGED <<user, codes, vouched, wanted>>

\* Mutant: MFA is switched on before a secret was set up.
VerifyMfaUnset(w) ==
    Arrives(w, [Nothing EXCEPT !.mfa = TRUE], <<>>, {}) /\ UNCHANGED userVars

VerifyMfa(w) ==
    /\ user.secret # NoSecret
    /\ Arrives(w, [Nothing EXCEPT !.mfa = TRUE], <<>>, {})
    /\ UNCHANGED userVars

\* send_email_verification: earlier codes stay active.
SendCode(w, k) ==
    /\ codes[k] = "none"
    /\ \A v \in Workers : ~Free(v) /\ req[v].kind = "code" => req[v].code # k
    /\ Begins(w, [kind |-> "code", code |-> k])
    /\ UNCHANGED userVars

ConfirmEmail(w, k) ==
    /\ codes[k] = "active"
    /\ Arrives(w, [Nothing EXCEPT !.verified = TRUE], <<>>, {k})
    /\ UNCHANGED userVars

\* google_sign_in, of an account that exists and with a token that calls the address
\* verified.  (What else a sign-in writes is in the module Sessions.)
GoogleSignIn(w) ==
    /\ vouched' = TRUE
    /\ Arrives(w, [Nothing EXCEPT !.verified = TRUE], <<>>, {})
    /\ UNCHANGED <<user, drawn, codes, wanted>>

-----------------------------------------------------------------------------
(* Their commits                                                           *)

CommitUser(w) ==
    LET r == req[w] IN
    /\ ~Free(w) /\ r.kind = "user"
    /\ user' = Updated(user, r.seen, r.set)
    /\ codes' = [k \in Codes |-> IF k \in r.consumes THEN "consumed" ELSE codes[k]]
    /\ wanted' = [c \in Categories |-> IF c \in DOMAIN r.chosen THEN r.chosen[c] ELSE wanted[c]]
    /\ Answers(w)
    /\ UNCHANGED <<drawn, vouched>>

CommitCode(w) ==
    /\ ~Free(w) /\ req[w].kind = "code"
    /\ codes' = [codes EXCEPT ![req[w].code] = "active"]
    /\ Answers(w)
    /\ UNCHANGED <<user, drawn, vouched, wanted>>

ArriveProfile(w) ==
    \/ /\ "user" \in load.kinds
       /\ \/ \E name \in Names \cap load.scope : UpdateProfile(w, name)
          \/ \E on \in BOOLEAN : UpdateSecuritySettings(w, on)
          \/ \E D \in SUBSET (Categories \cap load.scope) : \E chosen \in [D -> BOOLEAN] :
                UpdatePreferences(w, chosen)
    \/ \E secret \in MfaSecrets \cap load.scope : SetupMfa(w, secret)
    \/ "mfa" \in load.kinds /\ VerifyMfa(w)
    \/ \E k \in Codes \cap load.scope : SendCode(w, k)
    \/ \E k \in Codes : ConfirmEmail(w, k)
    \/ "google" \in load.kinds /\ GoogleSignIn(w)

WorkProfile(w) == CommitUser(w) \/ CommitCode(w)

-----------------------------------------------------------------------------
(* Properties                                                              *)

\* Of updates that do not overlap, each of some categories, every category ends up as
\* it was last chosen.  (Updates that overlap lose one of the two: the column is
\* written whole.)
PreferencesStand == Serial => user.preferences = wanted

\* MFA is on only with a secret in place, and a verified address has a consumed code or
\* the word of Google, although each is written by requests that may overlap, be
\* repeated or die.
EnabledIsBacked ==
    /\ user.mfa => user.secret # NoSecret
    /\ user.verified => vouched \/ \E k \in Codes : codes[k] = "consumed"
=============================================================================
