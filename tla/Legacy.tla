------------------------------- MODULE Legacy -------------------------------
(***************************************************************************)
(* Legacy notes and memories of one owner (backend/app/domains/legacy).  A *)
(* note may name a beneficiary and a trigger for its release; nothing in   *)
(* the code releases it.                                                   *)
(*                                                                         *)
(* Not represented: titles, media, release dates, what a memory is of.     *)
(***************************************************************************)
EXTENDS Beneficiaries, Vault

CONSTANTS
    LegacyNotes,    \* legacy_notes rows that may be inserted
    Memories,       \* legacy_memories rows
    Releases,       \* some of the values of LegacyReleaseTrigger
    NoRelease

ASSUME ReleaseAssumption ==
    /\ NoRelease \notin Releases
    /\ Keep \notin Releases \cup {"scheduled"}

VARIABLES
    letters,        \* legacy_notes
    memories        \* legacy_memories

legacyVars == <<letters, memories>>

LegacyNoteStatus == {"none", "draft", "scheduled"}

LegacyNote == [status: LegacyNoteStatus, release: Releases \cup {NoRelease},
               heir: Heirs \cup {NoOne}, secret: Secrets, deleted: BOOLEAN]

NoLetter == [status |-> "none", release |-> NoRelease, heir |-> NoOne,
             secret |-> NoRecord.secret, deleted |-> FALSE]

\* Mutant: the trigger is set and the status is left as it was.
LegacyNoteUpdateQuiet(secret, release) ==
    [status |-> Keep, release |-> release, heir |-> Keep, secret |-> secret, deleted |-> Keep]

\* What update_note sets; the body cannot take a trigger back.
LegacyNoteUpdate(secret, release) ==
    [status |-> IF release = Keep THEN Keep ELSE "scheduled", release |-> release,
     heir |-> Keep, secret |-> secret, deleted |-> Keep]

LegacyNoteDelete ==
    [status |-> Keep, release |-> Keep, heir |-> Keep, secret |-> Keep, deleted |-> TRUE]

LegacyBody ==
    [status: {Keep, "scheduled"}, release: Releases \cup {Keep}, heir: {Keep},
     secret: Secrets \cup {Keep}, deleted: {Keep, TRUE}]

LegacyRequest ==
    [kind: {"letter"}, letter: LegacyNotes, new: LegacyNote]
    \cup [kind: {"edit_letter"}, letter: LegacyNotes, seen: LegacyNote, set: LegacyBody]
    \cup [kind: {"memory"}, memory: Memories]

LegacyTypeOK ==
    /\ letters \in [LegacyNotes -> LegacyNote]
    /\ memories \subseteq Memories

LegacyInit ==
    /\ letters = [x \in LegacyNotes |-> NoLetter]
    /\ memories = {}

\* list_notes and, of them, list_scheduled.
Written == {x \in LegacyNotes : letters[x].status # "none" /\ ~letters[x].deleted}
ListScheduled == {x \in Written : letters[x].status = "scheduled"}

\* _to_note_response: the beneficiary of a note, if there still is one.
ShownTo(x) == IF letters[x].heir \in Living THEN letters[x].heir ELSE NoOne

-----------------------------------------------------------------------------
CreateNote(w, x, heir, release, secret) ==
    /\ letters[x].status = "none"
    /\ \A v \in Workers : ~Free(v) /\ req[v].kind = "letter" => req[v].letter # x
    /\ heir = NoOne \/ heir \in Living
    /\ Begins(w, [kind |-> "letter", letter |-> x,
                  new |-> [status |-> IF release = NoRelease THEN "draft" ELSE "scheduled",
                           release |-> release, heir |-> heir, secret |-> secret,
                           deleted |-> FALSE]])
    /\ UNCHANGED legacyVars

EditNote(w, x, set) ==
    /\ x \in Written
    /\ Begins(w, [kind |-> "edit_letter", letter |-> x, seen |-> letters[x], set |-> set])
    /\ UNCHANGED legacyVars

CreateMemory(w, m) ==
    /\ m \notin memories
    /\ \A v \in Workers : ~Free(v) /\ req[v].kind = "memory" => req[v].memory # m
    /\ Begins(w, [kind |-> "memory", memory |-> m])
    /\ UNCHANGED legacyVars

CommitNote(w) ==
    LET r == req[w] IN
    /\ ~Free(w)
    /\ \/ /\ r.kind = "letter"
          /\ letters' = [letters EXCEPT ![r.letter] = r.new]
       \/ /\ r.kind = "edit_letter"
          /\ letters' = [letters EXCEPT ![r.letter] = Encrypted(@, r.seen, r.set)]
    /\ Answers(w)
    /\ UNCHANGED memories

CommitMemory(w) ==
    /\ ~Free(w) /\ req[w].kind = "memory"
    /\ memories' = memories \cup {req[w].memory}
    /\ Answers(w)
    /\ UNCHANGED letters

ArriveLegacy(w) ==
    \/ \E x \in LegacyNotes \cap load.scope, h \in Heirs \cup {NoOne},
          t \in Releases \cup {NoRelease},
          s \in Secrets \cap load.scope :
        "letter" \in load.kinds /\ CreateNote(w, x, h, t, s)
    \/ \E x \in LegacyNotes, t \in Releases \cup {Keep},
          s \in (Secrets \cap load.scope) \cup {Keep} :
        EditNote(w, x, LegacyNoteUpdate(s, t))
    \/ \E x \in LegacyNotes : EditNote(w, x, LegacyNoteDelete)
    \/ \E m \in Memories \cap load.scope : "memory" \in load.kinds /\ CreateMemory(w, m)

WorkLegacy(w) == CommitNote(w) \/ CommitMemory(w)

-----------------------------------------------------------------------------
(* Properties                                                              *)

\* What the owner finds under "scheduled" are the notes that have a trigger, however
\* creations and updates overlap and which of their columns are written.
ScheduledHasTrigger ==
    /\ \A x \in LegacyNotes : letters[x].status = "scheduled" <=> letters[x].release # NoRelease
    /\ ListScheduled = {x \in Written : letters[x].release # NoRelease}
=============================================================================
