--------------------------- MODULE Notifications ---------------------------
(***************************************************************************)
(* In-app notifications and pushes (backend/app/domains/notifications and  *)
(* integrations/push.py).  notify is called by another domain, inside that *)
(* domain's request: it flushes the notification, pushes to one device     *)
(* after the other, and leaves the commit to its caller (DeathVerification *)
(* is the one caller there is).                                            *)
(*                                                                         *)
(* Not represented: title, body and platform, what is shown of a device,   *)
(* and requests that are refused.                                          *)
(***************************************************************************)
EXTENDS UnitOfWork

CONSTANTS
    Users,
    Devices,        \* push tokens of the app on one device
    MaxNotes,       \* bound on the notifications that are ever created
    Page,           \* how many list_notifications returns (50)
    Muted,          \* users whose preference switches the category off
    NoUser

ASSUME PageAssumption == Page \in Nat /\ MaxNotes \in Nat /\ NoUser \notin Users

VARIABLES
    devices,        \* notification_device_tokens: the owner, or NoUser
    notes,          \* notifications, numbered in the order of created_at
    created,        \* how many have been flushed, committed or not
    pushed,         \* <<n, d>>: FCM accepted notification n for device d
    registrant      \* history: who was last told that the device is registered

noteVars == <<devices, notes, created, pushed, registrant>>

NoteIds == 1 .. MaxNotes

Note == [owner: Users \cup {NoUser}, read: BOOLEAN]     \* NoUser: not committed

NoNote == [owner |-> NoUser, read |-> FALSE]

\* The requests of the notifications routes, with what they loaded.
NoteRequest ==
    [kind: {"register"}, user: Users, device: Devices, seen: Users \cup {NoUser}]
    \cup [kind: {"read"}, user: Users, found: SUBSET NoteIds]
    \cup [kind: {"read_all"}, user: Users, found: SUBSET NoteIds, unread: SUBSET NoteIds]

NotesTypeOK ==
    /\ devices \in [Devices -> Users \cup {NoUser}]
    /\ notes \in [NoteIds -> Note]
    /\ created \in 0 .. MaxNotes
    /\ pushed \subseteq NoteIds \X Devices
    /\ registrant \in [Devices -> Users \cup {NoUser}]

NotesInit ==
    /\ devices = [d \in Devices |-> NoUser]
    /\ notes = [n \in NoteIds |-> NoNote]
    /\ created = 0
    /\ pushed = {}
    /\ registrant = [d \in Devices |-> NoUser]

-----------------------------------------------------------------------------
(* Reading                                                                 *)

\* Mutant: the newest come last.
FeedOldestFirst(u) ==
    {n \in NoteIds : /\ notes[n].owner = u
                     /\ Cardinality({k \in 1 .. n - 1 : notes[k].owner = u}) < Page}

\* list_notifications: the newest Page of the user's notifications.
Feed(u) ==
    {n \in NoteIds : /\ notes[n].owner = u
                     /\ Cardinality({k \in n + 1 .. MaxNotes : notes[k].owner = u}) < Page}

\* unread_count counts all of them, not one page.
Unread(u) == {n \in NoteIds : notes[n].owner = u /\ ~notes[n].read}

\* Mutant: the tokens of every user.
TokensOfAll(u) == {d \in Devices : devices[d] # NoUser}

\* list_tokens; nothing in the code makes a token inactive again.
TokensOf(u) == {d \in Devices : devices[d] = u}

-----------------------------------------------------------------------------
(* Requests arriving                                                       *)

RegisterDevice(w, u, d) ==
    /\ Begins(w, [kind |-> "register", user |-> u, device |-> d, seen |-> devices[d]])
    /\ UNCHANGED noteVars

MarkRead(w, u, n) ==
    /\ notes[n].owner = u
    /\ Begins(w, [kind |-> "read", user |-> u, found |-> {n} \cap Unread(u)])
    /\ UNCHANGED noteVars

MarkAllRead(w, u) ==
    /\ Begins(w, [kind |-> "read_all", user |-> u, found |-> Feed(u) \cap Unread(u),
                  unread |-> Unread(u)])
    /\ UNCHANGED noteVars

-----------------------------------------------------------------------------
(* Their commits                                                           *)

\* Two requests that both found the token absent insert it; token_hash is unique.
DuplicateToken(r) == r.seen = NoUser /\ devices[r.device] # NoUser

\* Mutant: an existing token stays with its first owner.
RegisteredOwnerKept(r) == IF devices[r.device] = NoUser THEN r.user ELSE devices[r.device]

\* owner_id is in the UPDATE only if it differs from the one that was loaded.
RegisteredOwner(r) == IF r.user # r.seen THEN r.user ELSE devices[r.device]

CommitDevice(w) ==
    LET r == req[w] IN
    /\ ~Free(w) /\ r.kind = "register"
    /\ ~DuplicateToken(r)
    /\ devices' = [devices EXCEPT ![r.device] = RegisteredOwner(r)]
    /\ registrant' = [registrant EXCEPT ![r.device] = r.user]
    /\ Answers(w)
    /\ UNCHANGED <<notes, created, pushed>>

\* db.flush() raises IntegrityError: the answer is a 500.
RefuseDuplicate(w) ==
    /\ ~Free(w) /\ req[w].kind = "register"
    /\ DuplicateToken(req[w])
    /\ Answers(w)
    /\ UNCHANGED noteVars

CommitRead(w) ==
    /\ ~Free(w) /\ req[w].kind \in {"read", "read_all"}
    /\ notes' = [n \in NoteIds |-> IF n \in req[w].found
                                   THEN [notes[n] EXCEPT !.read = TRUE] ELSE notes[n]]
    /\ Answers(w)
    /\ UNCHANGED <<devices, created, pushed, registrant>>

-----------------------------------------------------------------------------
(* notify, as part of its caller's request.  In the caller's record, note  *)
(* is the notification, tokens the devices still to push to.               *)

Recipients(u) == IF u \in Muted THEN {} ELSE TokensOf(u)

Pushing(w) == ~Free(w) /\ req[w].kind = "submit" /\ req[w].tokens # {}

\* One POST to FCM: accepted, or refused and not retried.
SendPush(w) ==
    /\ Pushing(w)
    /\ \E d \in req[w].tokens :
        /\ Continues(w, [req[w] EXCEPT !.tokens = @ \ {d}])
        /\ pushed' \in {pushed, pushed \cup {<<req[w].note, d>>}}
    /\ UNCHANGED <<devices, notes, created, registrant>>

\* No token from Google or no answer from FCM: the exception ends the request of
\* the caller, and its session is closed without a commit.
PushFails(w) == Pushing(w) /\ Dies(w) /\ UNCHANGED noteVars

-----------------------------------------------------------------------------
(* Properties                                                              *)

\* A device is its last registrant's: whoever was last told "Device registered for
\* push notifications." is the user whose notifications reach that device.
\* Registrations that overlap break it.
LastRegistrantOwns == \A d \in Devices : devices[d] = registrant[d]

\* Registrations that do not overlap, of one user after the other, move the device.
RegistrationStands == Serial => LastRegistrantOwns

\* A push shows a user's estate on the owner's devices only: at the moment FCM
\* accepts it, the device is registered to the user it is about.  The tokens are
\* read once, so a registration that overlaps the pushes breaks it.
PushGoesToOwner ==
    [][Serial => \A w \in Workers, n \in NoteIds, d \in Devices :
        /\ <<n, d>> \in pushed' \ pushed
        /\ ~Free(w) /\ req[w].kind = "submit" /\ req[w].note = n
        => devices[d] = req[w].user]_<<noteVars, requestVars>>

\* notify: "The in-app record is always written".  What was pushed to a device is
\* in the feed, or about to be committed there.  A rollback after a push breaks it.
PushIsRecorded ==
    \A n \in NoteIds, d \in Devices :
        <<n, d>> \in pushed =>
            \/ notes[n].owner # NoUser
            \/ \E w \in Workers : ~Free(w) /\ req[w].kind = "submit" /\ req[w].note = n

\* Read-all leaves unread, of the notifications that were there when it arrived,
\* at most those beyond the newest page: the page the user looks at is read.
ReadAllCoversPage ==
    [][\A w \in Workers :
        /\ ~Free(w) /\ req[w].kind = "read_all" /\ CommitRead(w)
        => \A n \in req[w].unread :
            \/ notes'[n].read
            \/ Cardinality({k \in NoteIds : k > n /\ notes[k].owner = req[w].user}) >= Page
      ]_<<noteVars, requestVars>>

\* The answer of read-all: "All notifications marked read."  A feed of more than one
\* page breaks it.
ReadAllReadsAll ==
    [][\A w \in Workers :
        /\ ~Free(w) /\ req[w].kind = "read_all" /\ CommitRead(w)
        => \A n \in req[w].unread : notes'[n].read
      ]_<<noteVars, requestVars>>
=============================================================================
