------------------------------- MODULE Estate -------------------------------
(***************************************************************************)
(* The records of one owner together: beneficiaries and inheritance, vault,*)
(* legacy notes, the succession report and the owner's settings, with the  *)
(* screens that are computed from them.  The requests of all of them share *)
(* the workers of the server and may overlap.                              *)
(***************************************************************************)
EXTENDS Readiness, Legacy, Succession

vars == <<requestVars, heirVars, inhVars, vaultVars, legacyVars, reportVars, userVars>>

TypeOK ==
    /\ HeirsTypeOK
    /\ InheritanceTypeOK
    /\ VaultTypeOK
    /\ LegacyTypeOK
    /\ SuccessionTypeOK
    /\ ProfileTypeOK
    /\ load \in Loads
    /\ failures \in 0 .. MaxFailures
    /\ \A w \in Workers :
        \/ Free(w)
        \/ req[w] \in HeirRequest
        \/ req[w] \in InheritanceRequest
        \/ req[w] \in VaultRequest
        \/ req[w] \in LegacyRequest
        \/ req[w] \in SuccessionRequest
        \/ req[w] \in UserRequest

Init ==
    /\ RequestsInit
    /\ HeirsInit
    /\ InheritanceInit
    /\ VaultInit
    /\ LegacyInit
    /\ SuccessionInit
    /\ ProfileInit

\* The session is closed without a commit.
Rollback(w) ==
    /\ Dies(w)
    /\ UNCHANGED <<heirVars, inhVars, vaultVars, legacyVars, reportVars, userVars>>

Next ==
    \E w \in Workers :
        \/ /\ ArriveHeir(w) \/ WorkHeir(w)
           /\ UNCHANGED <<inhVars, vaultVars, legacyVars, reportVars, userVars>>
        \/ /\ ArriveInheritance(w) \/ WorkInheritance(w)
           /\ UNCHANGED <<vaultVars, legacyVars, reportVars, userVars>>
        \/ /\ ArriveVault(w) \/ WorkVault(w)
           /\ UNCHANGED <<heirVars, inhVars, legacyVars, reportVars, userVars>>
        \/ /\ ArriveLegacy(w) \/ WorkLegacy(w)
           /\ UNCHANGED <<heirVars, inhVars, vaultVars, reportVars, userVars>>
        \/ /\ ArriveSuccession(w) \/ WorkSuccession(w)
           /\ UNCHANGED <<heirVars, inhVars, vaultVars, legacyVars, userVars>>
        \/ /\ ArriveProfile(w) \/ WorkProfile(w)
           /\ UNCHANGED <<heirVars, inhVars, vaultVars, legacyVars, reportVars>>
        \/ Rollback(w)

Spec == Init /\ [][Next]_vars

-----------------------------------------------------------------------------
(* Properties of all the records                                           *)

\* The row that a request edits.
RowOf(r) ==
    CASE r.kind = "edit" -> heirs[r.heir]
      [] r.kind = "edit_rule" -> rules[r.rule]
      [] r.kind = "change" -> records[r.record]
      [] r.kind = "edit_letter" -> letters[r.letter]
      [] r.kind = "share" -> report
      [] r.kind = "user" -> user

\* A request that ends has changed none of the columns that its body left out: it does
\* not undo what another one has committed since it loaded the row (a toggle of a
\* rule, a verification or a deletion of a beneficiary, MFA of the user).
OnlyNamedFieldsChange ==
    [][\A w \in Workers : \A r \in {req[w]} :
        /\ ~Free(w) /\ "set" \in DOMAIN r /\ req'[w] # r
        => \A c \in DOMAIN r.set : r.set[c] = Keep => RowOf(r)'[c] = RowOf(r)[c]]_vars
=============================================================================
