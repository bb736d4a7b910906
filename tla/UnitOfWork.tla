---------------------------- MODULE UnitOfWork ----------------------------
(***************************************************************************)
(* What every request of the API shares (backend/app/core/database.py): a  *)
(* worker opens one database session, loads rows into it as other requests *)
(* have committed them, and at db.commit() writes what it decided on them. *)
(* Nothing locks a row in between.  A session that is closed without a     *)
(* commit leaves no trace in the database.                                 *)
(***************************************************************************)
EXTENDS Naturals, FiniteSets

CONSTANTS
    Workers,        \* threads of the server, each handles one request
    NoRequest,      \* what an idle worker is doing
    MaxFailures,    \* how many requests may end without their commit
    Loads,          \* what may come at the server, one of these per behaviour
    Keep            \* a field that the body of a request leaves out

ASSUME WorkerAssumption == IsFiniteSet(Workers) /\ Workers # {}

\* A load: the workers that serve it, the kinds of requests that arrive, and the
\* users, devices and new rows that occur in them.
ASSUME LoadAssumption ==
    /\ MaxFailures \in Nat
    /\ \A l \in Loads :
        /\ DOMAIN l = {"workers", "kinds", "scope"}
        /\ l.workers \subseteq Workers

VARIABLES
    load,
    req,            \* req[w]: the request w handles, with the rows it loaded
    failures

requestVars == <<load, req, failures>>

RequestsInit ==
    /\ load \in Loads
    /\ req = [w \in Workers |-> NoRequest]
    /\ failures = 0

\* Requests that do not overlap.
Serial == \E w \in Workers : load.workers = {w}

Free(w) == req[w] = NoRequest

Continues(w, r) == req' = [req EXCEPT ![w] = r] /\ UNCHANGED <<load, failures>>

Begins(w, r) == Free(w) /\ w \in load.workers /\ Continues(w, r)

Ends(w) == req' = [req EXCEPT ![w] = NoRequest] /\ UNCHANGED load

Answers(w) == Ends(w) /\ UNCHANGED failures

\* An exception, an unreachable database or a restart of the server.
Dies(w) ==
    /\ ~Free(w)
    /\ failures < MaxFailures
    /\ failures' = failures + 1
    /\ Ends(w)

\* Mutant: the whole row is written back.
FlushedWhole(stored, seen, new) == [c \in DOMAIN stored |-> new[c]]

\* The row after an UPDATE: only the columns that the request changed, compared
\* with what it loaded, are in it; the others keep what is stored by now.
Flushed(stored, seen, new) ==
    [c \in DOMAIN stored |-> IF new[c] # seen[c] THEN new[c] ELSE stored[c]]

\* Mutant: a field that the body leaves out is written too.
EditedRaw(seen, set) == [c \in DOMAIN seen |-> set[c]]

\* The row that a request with the body set makes of the one it loaded.
Edited(seen, set) == [c \in DOMAIN seen |-> IF set[c] = Keep THEN seen[c] ELSE set[c]]

Updated(stored, seen, set) == Flushed(stored, seen, Edited(seen, set))
=============================================================================
