----------------------------- MODULE Succession -----------------------------
(***************************************************************************)
(* Succession reports of one owner (backend/app/domains/succession).  The  *)
(* reference of a report is made of the owner's public id and is unique,   *)
(* so an owner has one row of the table at most.  Its content_hash is of   *)
(* the assets and of the distribution at its generation; what get_report   *)
(* and the PDF show next to it is read anew.                               *)
(*                                                                         *)
(* Not represented: the final message, the rendering of the PDF, the owner *)
(* whose public id ends like another's.                                    *)
(***************************************************************************)
EXTENDS Beneficiaries, Vault

CONSTANTS
    Tokens,         \* values of share_token
    NoToken

ASSUME TokenAssumption ==
    /\ NoToken \notin Tokens
    /\ Keep \notin Tokens \cup {"verified_released"}

VARIABLES report, tokens        \* tokens: those that share has drawn

reportVars == <<report, tokens>>

SuccessionReportStatus == {"none", "draft", "verified_released"}

\* What the hash is taken of: names and values, which tell the rows apart.
AssetSummary == [x \in Listed("assets") |-> <<records[x].secret, records[x].plain>>]

Distribution == [h \in Living |-> heirs[h].percent]

AssetSummaries == UNION {[X -> Secrets \X Plains] : X \in SUBSET Records}
Distributions == UNION {[H -> Percents] : H \in SUBSET Heirs}

Report == [status: SuccessionReportStatus, assets: AssetSummaries,
           distribution: Distributions, token: Tokens \cup {NoToken}]

NoReport == [status |-> "none", assets |-> <<>>, distribution |-> <<>>, token |-> NoToken]

\* The body of share sets all it changes.
ShareBody == [status: {"verified_released"}, assets: {Keep}, distribution: {Keep}, token: Tokens]

SuccessionRequest ==
    [kind: {"generate"}, assets: AssetSummaries]
    \cup [kind: {"generated"}, assets: AssetSummaries, distribution: Distributions]
    \cup [kind: {"share"}, seen: Report, set: ShareBody]

SuccessionTypeOK == report \in Report /\ tokens \subseteq Tokens

SuccessionInit == report = NoReport /\ tokens = {}

-----------------------------------------------------------------------------
(* generate: two reads, then the insert.                                   *)

Generate(w) ==
    /\ Begins(w, [kind |-> "generate", assets |-> AssetSummary])
    /\ UNCHANGED reportVars

ReadDistribution(w) ==
    /\ ~Free(w) /\ req[w].kind = "generate"
    /\ Continues(w, [kind |-> "generated", assets |-> req[w].assets,
                     distribution |-> Distribution])
    /\ UNCHANGED reportVars

\* Mutant: reports need no reference of their own.
ReferenceTakenNever == FALSE

ReferenceTaken == report.status # "none"

CommitReport(w) ==
    /\ ~Free(w) /\ req[w].kind = "generated"
    /\ ~ReferenceTaken
    /\ report' = [status |-> "draft", assets |-> req[w].assets,
                  distribution |-> req[w].distribution, token |-> NoToken]
    /\ Answers(w)
    /\ UNCHANGED tokens

\* db.flush() raises IntegrityError: the answer is a 500.
RefuseReport(w) ==
    /\ ~Free(w) /\ req[w].kind = "generated"
    /\ ReferenceTaken
    /\ Answers(w)
    /\ UNCHANGED reportVars

\* token_urlsafe: a token that was never drawn before.
Share(w, token) ==
    /\ report.status # "none"
    /\ token \notin tokens
    /\ tokens' = tokens \cup {token}
    /\ Begins(w, [kind |-> "share", seen |-> report,
                  set |-> [status |-> "verified_released", assets |-> Keep,
                           distribution |-> Keep, token |-> token]])
    /\ UNCHANGED report

CommitShare(w) ==
    /\ ~Free(w) /\ req[w].kind = "share"
    /\ report' = Updated(report, req[w].seen, req[w].set)
    /\ Answers(w)
    /\ UNCHANGED tokens

ArriveSuccession(w) ==
    \/ "report" \in load.kinds /\ Generate(w)
    \/ \E token \in Tokens : Share(w, token)

WorkSuccession(w) ==
    ReadDistribution(w) \/ CommitReport(w) \/ RefuseReport(w) \/ CommitShare(w)

-----------------------------------------------------------------------------
(* Properties                                                              *)

\* Once a report is generated its content_hash stays what it is, and once it is shared
\* it stays shared, although it may be generated and shared again at the same time
\* and the estate it describes changes.
ReportIsFrozen ==
    [][report.status # "none" =>
        /\ report'.assets = report.assets /\ report'.distribution = report.distribution
        /\ report.token # NoToken => report'.token # NoToken
        /\ report'.status = "verified_released" <=> report'.token # NoToken
      ]_reportVars
=============================================================================
