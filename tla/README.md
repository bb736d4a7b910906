# LegacyVault: TLA+ specifications and proofs

LegacyVault (`src/`) is a FastAPI backend for digital estates: an owner stores
assets and documents, names beneficiaries, buys a plan through Paystack, and a
death verification or an access request eventually releases things. This
directory holds the specifications of that code, the TLC instances that
model-check them and the TLAPS proofs about them.

Contents: 1 inventory, 2 plan, 3 the models and the code, 4 what TLC checks,
5 what is proved, 6 limits.

## 1. Inventory

### How every component runs

A request is one FastAPI handler. Synchronous handlers run in a thread pool, so
several run at once; `paystack_webhook` is `async` and runs on the event loop,
in parallel with the pool. A deployment may also have several processes.
`core/database.py` gives each request its own SQLAlchemy session with
`autoflush=False` and `expire_on_commit=False`. Consequences that all
components share and that the models keep:

- A handler **reads** committed rows when it needs them (READ COMMITTED, no
  `SELECT ... FOR UPDATE`, no version columns), keeps the loaded objects, and
  **writes** at `db.commit()`, normally the last thing before the response.
  Whatever it read may be stale by then.
- An UPDATE carries only the columns whose value changed since they were
  loaded. Two requests on one row can therefore each win some columns.
- An INSERT that is flushed is invisible to others until the commit.
- If anything fails before the commit, `get_db` closes the session and the
  database transaction is rolled back. What was sent to the outside world in
  the meantime (Paystack, e-mail, push, object store) is not.

### Components

| component | state it keeps | operations that change state | interacts with | what makes it correct | modelled in |
|---|---|---|---|---|---|
| Subscriptions and payments (`domains/subscriptions`, `integrations/paystack.py`) | subscription row of an owner, payment transactions, billing records | checkout, verify, browser callback, webhook, change (to free), cancel, current (creates the row on first use) | Paystack (initialize, verify, webhook with retries); audit | only paid purchases are activated, each once; a paid one is activated even if the app never returns; the owner's requests see the plan paid for | `Payments`, `PaymentLedger` |
| Identity (`domains/identity`, `core/security.py`, `core/deps.py`) | users, sessions (refresh-token hashes), e-mail and reset codes | register, login, Google sign-in, refresh, revoke, logout, forgot/reset password, verification, MFA, profile and settings | e-mail, Firebase; audit; every route through `get_current_user` | a reset ends the sessions opened with the old password; a code works once; one account per address; one settings screen does not undo another | `Sessions`, `SessionLife`, `Profile` |
| Death verification (`domains/verification`) | verification row with three stages, witnesses | create, add witness, witness responds, update stages | notifications | completed exactly when all stages are validated; never without its notification; never reopened | `DeathVerification`, `DeathCase` |
| Notifications (`domains/notifications`, `integrations/push.py`) | notifications, device tokens | register device, notify, mark read, mark all read | FCM; called by verification; preferences in the user row | a push has its notification and reaches its owner's devices; the unread count can reach zero | `Notifications` |
| Inheritance (`domains/inheritance`) | rules, access requests | rule create/update/toggle, request create, status update | beneficiaries; administration writes the same status | a release follows a waiting period; the status is the last decision | `Inheritance` |
| Beneficiaries (`domains/beneficiaries`) | beneficiaries, trusted contacts | create, update, verify, soft delete | cap from the subscription's plan; designation mail | the cap of the plan is respected; a mail tells of a committed beneficiary; a deleted one stays deleted | `Beneficiaries` |
| Vault (`domains/vault`, `integrations/storage.py`) | items, assets, documents | create, update, soft delete, upload | Cloudflare R2; audit | a document row names an existing object; the audit rows tell what happened | `Vault` |
| Succession (`domains/succession`) | reports | generate, share | vault, beneficiaries | a hash stays what was hashed | `Succession` |
| Legacy (`domains/legacy`) | notes, memories | create, update, soft delete | beneficiaries | a scheduled note has a trigger | `Legacy` |
| Administration (`domains/admin`) | none of its own | sets the status of an access request | inheritance | same status machine as the owner's path | `Inheritance` |
| Audit (`domains/security`) | audit rows | appended in the commit of each operation | all | recorded iff the operation committed | `Vault` (its rows) |
| Analytics, advisor, dashboard | none | none (aggregations) | read the others' rows | the screens agree | `Readiness` |
| E-mail, Firebase, PDF, encryption, configuration, migrations | none at run time | none | | | not modelled (section 6) |

### Hard behaviours

All of them come from one source: a decision taken on rows that were read
earlier, with an exchange with somebody else in between. The list, with the
line where each bites and the property that covers it, is under `hazards` in
`PROJECT.json`. The most important ones: a webhook and a `verify` finalizing the
same payment at once; a `verify` committing an outdated Paystack status; two
first requests inserting two subscription rows; webhook retries and the moment
their acknowledgement leaves; a login overtaken by a password reset; two stage
updates of a death verification; concurrent creates at the beneficiary cap; a
push or an upload that precedes a rolled-back transaction.

## 2. Plan

The modules and which of them composes which; the most important behaviour first.

1. `Payments` with the abstract `PaymentLedger`.
2. `Sessions`: accounts, sessions, password reset, with the abstract `SessionLife`.
3. `UnitOfWork`: what all requests of the other domains share, the database session
   with rows that were loaded and the UPDATE of changed columns.
4. `DeathVerification`, which extends `Notifications`: the one domain that notifies,
   with the notification and the pushes inside its own request, and the abstract
   `DeathCase`.
5. `Estate`, which composes the records of one owner: `Inheritance` (on
   `Beneficiaries`), `Vault`, `Legacy` and `Succession` (both on `Beneficiaries` and
   `Vault`), `Profile`, and `Readiness`, the screens computed from them. The
   requests of all of them share the workers.
6. Theorems: the type invariant and the safety properties of every component for
   any number of workers, and for the properties that overlap breaks, that they hold
   when requests do not overlap.

All of these are done. What could follow: liveness of a death verification (nothing
in the code drives it but its users, so there is no fairness to assume), and a
common model of `Payments` and `Beneficiaries` instead of the plan changes that
`Beneficiaries` now takes as requests.

## 3. The models and the code

### Payments

`Payments.tla` models `domains/subscriptions` and its use of Paystack.

| variable | in the code |
|---|---|
| `txn[r]` | `payment_transactions.status` of reference `r` (`"none"`: no row) |
| `billing[r]` | number of `billing_records` rows finalizing `r` has added |
| `subs[o][w]` | the subscription row of owner `o` inserted by worker `w`; `born` is its `created_at`, 0 if there is none |
| `clock[o]` | the last `created_at` handed out for `o` (only their order matters) |
| `charge[r]` | Paystack's status of the charge (external) |
| `links` | references whose `authorization_url` a client received (external) |
| `acked` | references whose webhook Paystack saw answered with 200 (external) |
| `pc[w]`, `req[w]` | where the request of worker `w` stands, and its local objects |
| `failures` | how many requests were rolled back, bounded by `MaxFailures` |

A request is a sequence of actions, each one database read, one exchange with
Paystack, or one commit:

| request | actions |
|---|---|
| `POST /checkout` | `StartCheckout` (flush, initialize at Paystack), `CheckoutCommit`, `CheckoutRespond` |
| `GET /checkout/{ref}/verify` | `Verify` (load the transaction), `VerifyTransaction` (ask Paystack), `GetOrCreate`, `Commit` |
| `GET /paystack/callback` | `FinalizeByReference`, `VerifyTransaction`, and if it finalizes `GetOrCreate`, `Commit` |
| `POST /paystack/webhook` | `HandleWebhook`, and if it finalizes `GetOrCreate`, `Commit` (which may answer Paystack, or whose answer is lost) |
| `GET /current`, `POST /change`, `POST /cancel` | `CurrentSubscription`, `ChangePlan`, `Cancel`, then `GetOrCreate`, `Commit` |
| any | `Rollback` at any point before the end |

Points a reader may want to compare with the code:

- `Finalizes(q)` uses `q.seen`, the status loaded at the start of the request:
  `_finalize` tests the attribute of the loaded object, which nothing refreshes.
- `CommittedRow(q)` writes a column only if the handler changed it, as the unit
  of work does; with overlapping requests a row may combine columns of both.
- `GetOrCreate` picks the row with the latest `created_at`; it inserts one when
  it sees none, and there is no unique constraint on `owner_id`. A worker inserts
  at most one row per owner, which is why rows are indexed by the inserting
  worker.
- `POST /change` to a paid plan is refused by the route, so `ChangedPlan` is
  always the free plan.
- `verify` reports other Paystack statuses (`ongoing`, `pending`, ...) without
  storing them; `"open"` stands for all of them.
- A failed or abandoned charge can still be paid with the same link. A
  successful one is final; refunds are not handled by the code.

`PaymentLedger.tla` is the abstract promise: a set of paid purchases, a count of
activations, `Pay` and `Activate`. With `Once = FALSE` a purchase is activated at
least once, with `Once = TRUE` exactly once. The refinement mapping of `Payments` is
`paid <- {r : charge[r] = "success"}`, `activated <- billing`.

Definitions marked "Mutant" are plausible bugs of the code, kept next to the
definition they alter. They are not part of the specification; substituting one
for the original must make TLC report the property it is paired with in
`PROJECT.json`.

### Sessions

`Sessions.tla` models sign-in, sessions and password reset in `domains/identity`.

| variable | in the code |
|---|---|
| `users[a]` | the `identity_users` row of address `a`: provider and password. Passwords are counted, `version` is the number of the current one; 0 is the random password of an account made by Google |
| `sessions[t]` | the `identity_user_sessions` row of refresh token `t`; `expired` and `revoked` are separate because `revoke_all_for_user` also revokes expired ones. `version` records the password of the user object that opened it |
| `codes[c]` | the `identity_password_reset_codes` row of code `c` |
| `uses[c]` | how many committed resets used `c` (history, no column) |
| `inbox` | codes that have been e-mailed (external) |
| `access` | users with an access token that has not expired; the code keeps no record of these, so no revocation ends them |
| `pc[w]`, `req[w]` | where the request of worker `w` stands and what it loaded; `earlier` is history: the sessions open when it arrived |
| `failures` | rolled back requests, bounded by `MaxFailures` |

| request | actions |
|---|---|
| `POST /auth/register`, `/login` (and `/token`), `/google` | `Register`, `Login`, `GoogleSignIn` (load the user, hash or compare, make the session), then `Commit` or `Conflict` |
| `POST /auth/refresh` | `Refresh` (reads only) |
| `POST /auth/password/forgot` | `RequestPasswordReset` (the mail leaves here), `Commit` |
| `POST /auth/password/reset` | `ResetPassword` (find the code, hash), `ListSessions`, `Commit` |
| `POST /auth/logout` | `Logout`, `ListSessions`, `Commit` |
| `POST /auth/sessions/{id}/revoke` | `RevokeSession`, `Commit` |
| any | `Rollback`; and time: `ExpireSession`, `ExpireCode`, `ExpireAccess` |

Points to compare with the code:

- A reset reads the code before it hashes the new password, and the sessions to
  revoke after it; both may be stale at the commit.
- A logout revokes *all* sessions of its user (`except_hash` is always `None`) and
  the session of the refresh token in its body, whoever owns that one.
- Two requests that insert a user of the same address: the unique index on
  `email` fails the second (`Conflict`). It is an integrity error the handlers do not
  catch; for the model it ends the request.
- `Commit` writes the columns a request changed on what the row holds by then:
  `auth_provider`, `password_hash`, `revoked_at`, `consumed_at` are all set to values
  that do not depend on what was loaded.
- Neither a new reset code nor a used one retires the user's other codes.

`SessionLife.tla` is the abstract promise, without requests, codes or workers: accounts
that are opened once and stay, passwords that change only in a reset, refresh tokens
that go from none to active, expired and revoked and never back. Its actions are
`SignIn`, `Expire`, `Revoke` and `Reset`. The refinement mapping of `Sessions` (`Life`) is
`accounts <- {a : users[a].exists}`, `password <- users[_].version`,
`state <- sessions[_].status`: a `Commit` is a sign-in, a reset or a revocation,
`ExpireSession` is `Expire`, and everything else is a stutter. `SessionLife` does not
say that a reset revokes *all* sessions: overlap breaks that (section 4).

### UnitOfWork

What a request is in all modules below. `req[w]` is the request that worker `w`
handles, a record with its kind, its body and the rows it loaded (`seen`). It is
made by an action that stands for everything up to the commit (`Begins`) and ended by
the commit (`Answers`) or by an exception or a restart (`Dies`, at most
`MaxFailures` times). In between any other worker may commit.

`Edited(seen, set)` is the row a handler makes of the one it loaded; a field that the
body leaves out is `Keep`. `Flushed(stored, seen, new)` is the row after the UPDATE:
only columns in which `new` differs from `seen` are written, as SQLAlchemy does.

`load` is chosen at the start and says which workers are used and which kinds of
requests, users and rows occur. It only restricts what may arrive and has no
counterpart in the code: with it one run asks several questions on small
instances. `Serial` says that the load has one worker, so that requests do not overlap.

### Notifications and DeathVerification

| variable | in the code |
|---|---|
| `devices[d]` | the owner of the `notification_device_tokens` row of token `d` |
| `notes[n]`, `created` | `notifications` in the order of `created_at`: owner (`NoUser`: not committed) and whether `read_at` is set; how many were flushed |
| `pushed` | what FCM accepted (external) |
| `registrant[d]` | history: who was last told that the device is registered |
| `cases[n]` | the `death_verifications` row opened together with notification `n`: status and three stages |
| `witnesses[x]` | the `verification_witnesses` row `x` and its case |
| `validated[n]` | history: the stages of a case that were ever validated |

| request | actions |
|---|---|
| `POST /verification/death` | `Submit` (rows flushed, tokens read), one `SendPush` for each device or `PushFails`, `CommitSubmit` |
| `PATCH .../stages` | `UpdateStages`, `CommitStages` |
| witnesses: add, respond | `AddWitness`, `RespondWitness`, then `CommitWitness` |
| `POST /notifications/devices` | `RegisterDevice`, `CommitDevice` or `RefuseDuplicate` (unique hash) |
| read, read-all | `MarkRead`, `MarkAllRead`, then `CommitRead` |
| any | `Rollback` |

Points to compare with the code:

- `notify` flushes, pushes to one device after the other and leaves the commit to the
  route. A push that FCM refuses is skipped; one that gets no answer ends the request.
- Completion is decided in `update_stages` on the loaded row with the body applied
  (`UpdatedCase`), and nothing ever takes `completed` back.
- `owner_id` of a device is in the UPDATE only if it differs from the loaded one.

`DeathCase.tla` is the abstract promise: a case is opened together with the notice to the
owner (`Open`), its stages are validated (`Validate`), and it is completed in the step
that validates the last one (`Complete`); no step takes a status back. The
refinement mapping of `DeathVerification` (`Promise`) takes the status from `cases`, the
history from `validated` and the notices from `notes`. `CommitSubmit` is `Open`,
`CommitStages` is `Validate` or `Complete`. That an update which loaded the case before its
completion does not write the old status back is due to the UPDATE of changed columns
(`Flushed`); with whole rows (`FlushedWhole`) TLC finds the case reopened. `DeathCase` does not
require the completion of a case whose stages have all been validated: overlap breaks that.

### Beneficiaries and Inheritance

| variable | in the code |
|---|---|
| `plan` | the plan of the owner's newest subscription row |
| `heirs[h]`, `contacts` | `beneficiaries` rows (status, allocation, `is_deleted`), `trusted_contacts` rows |
| `mailed` | who got the designation mail (external) |
| `rules[x]`, `access[q]`, `opened` | `inheritance_rules`; `access_requests` in the order of `created_at` with status and whether `release_at` is set; how many were flushed |
| `highest`, `decided` | history: the highest cap of the plans so far, the status last acknowledged |

`Create` tests the cap on the plan and the rows it reads (`AtLimit`); `CommitCreate`
inserts, and the mail leaves after it (`SendMail`). `Edit` is update, verify and delete,
which differ in the columns they set. `Decide` is the owner's `update_access_status`
and the administrators' `set_verification_status`; only the owner's sets `release_at`
and only for `waiting_period` (`DecidedRow`). Deleting a beneficiary touches neither
rules nor access requests. `Pending` is what the dashboard counts,
`VerificationQueue` what administrators see.

### Vault, Legacy, Succession

| variable | in the code |
|---|---|
| `records[x]` | a row of the vault's items, assets or documents; one encrypted column `secret` and one in the clear `plain` stand for the others; `object`: the file it names |
| `objects`, `log[x]` | what the object store holds (external); the audit rows about `x` |
| `letters[x]`, `memories` | `legacy_notes` with trigger and status; `legacy_memories` |
| `report`, `tokens` | the `succession_reports` row of the owner; the share tokens drawn |
| `answered` | history: the secret last acknowledged |

An encryption never repeats, so an encrypted column that the body names is always in
the UPDATE (`Encrypted`), unlike one in the clear. `UploadDocument` stores the object,
then the row is committed. `Generate` reads the assets, `ReadDistribution` the
beneficiaries, `CommitReport` inserts; the reference is a function of the owner, so
a second insert fails (`ReferenceTaken`, `RefuseReport`).

### Profile

`user` is the row of the user with the columns that settings write; `drawn` the TOTP
secrets that `setup_mfa` drew, `codes` the e-mail verification codes, `vouched` whether
Google called the address verified, `wanted` (history) the preferences as last
acknowledged. Each settings route is an action that builds its body (`UpdateProfile`,
`UpdateSecuritySettings`, `UpdatePreferences`, `SetupMfa`, `VerifyMfa`, `ConfirmEmail`,
`GoogleSignIn`), and `CommitUser` is the UPDATE. The preferences are one JSON column:
`UpdatePreferences` merges the body into what it loaded (`Merged`).

### Readiness and Estate

`Readiness` defines what the screens compute (readiness, coverage, security score,
recommendations, risk, the summaries of beneficiaries and of inheritance, the
dashboard's score) as functions of the rows. `Estate` joins the components: one `Next`
with a disjunct for each, one `Rollback`, and the property that no edit of any table
changes a field its body left out.

## 4. What TLC checks

| run | instance | what it shows |
|---|---|---|
| `payments_purchases` | 2 workers, 2 references of one owner, payment requests | types; every charge has its row; payment tables agree with Paystack; an acknowledged webhook was applied |
| `payments_mixed` | 2 workers, 1 reference, all seven request kinds | no interleaving of finalize, change, cancel and first reads leaves a paid plan that was not paid for |
| `payments_serial` | 1 worker, 2 references, all kinds, 1 rollback | without overlap: success is final, activation takes effect, implements `PaymentLedger` exactly once (so nothing is billed twice) |
| `payments_live` | 2 workers, 1 reference, 1 rollback, fairness | a paid purchase is activated; implements `PaymentLedger` at least once, with its liveness |
| `race_billed_once` | 2 workers, 1 reference | **violated**: the same payment is billed twice |
| `race_success_final` | 2 workers, 1 reference | **violated**: a recorded success is overwritten |
| `race_activation` | 2 workers, 1 reference | **violated**: the paid plan is on a row that reads do not return |
| `sessions_parallel` | 2 workers, 1 account, 2 refresh tokens, 1 reset code, 1 rollback | types; two sign-ups of an address do not overwrite each other's password; what was open when a logout or reset arrived is revoked at its commit; implements `SessionLife` |
| `sessions_serial` | 1 worker, 2 accounts, 3 refresh tokens, 2 reset codes, 1 rollback | without overlap: an active session was opened with the current password; a code works once |
| `race_reset_ends_sessions` | 2 workers, 1 account | **violated**: a session opened with the old password survives the reset |
| `verification` | 4 loads (below), 1 rollback | implements `DeathCase` (opened with its notice, completed after every stage was validated, never reopened), a case has its notification and a witness its case, read-all covers a page, whatever overlaps; and one after the other: all validated means completed, a device is its last registrant's, a push reaches its user's devices |
| `estate` | 12 loads (below), 1 rollback | of any overlap: the cap is exceeded by less than the number of workers, a mail tells of a committed beneficiary, a waiting request has its release date, the pending ones are in the queue, the last acknowledged secret is stored, an uploaded document has its file, audit rows agree with the rows, a scheduled note has a trigger, MFA has a secret, a report keeps what was hashed, an edit changes only what it names, the screens agree and their advice is honest; and one after the other: the cap, the last decision and the last preferences stand |

The four violations are findings (`findings` in `PROJECT.json`, with the lines of
code and the sentences they contradict). The serial runs check the same
properties and pass, so they fail because of overlap and nothing else.
`ResetEndsSessions` and `RevocationIsComplete` are close: the second promises the end
of what was open when the request arrived, which overlap does not break; the
first also speaks of sessions whose login was under way, which it does.

Bounds. Two workers are enough for every race above: each needs one request
that read and one that commits in between. Two references let a purchase for
one plan meet a purchase for another (premium and family). All state is finite
without further bounds: a reference is checked out once, `billing` grows by at
most one per worker that loaded the reference before its success (so at most 2), and at most one
row per worker is inserted. `MaxFailures` bounds only `Rollback`. Worker
symmetry is used in the two runs that check invariants alone, and in
`sessions_parallel`, where workers, tokens and codes are interchangeable because
all belong to one account and no liveness is checked. In `Sessions` two refresh
tokens are what a conflict of two sign-ups or an old and a new session need; the
second account of the serial run lets a logout carry somebody else's token.

The loads of `verification` (`MCDeathVerification.tla`): two workers on one case with
one witness and one device (`Parallel`); one worker on two cases of one owner
(`OneByOne`); one worker, two users who may hand two devices to each other, and three
notifications of which one page holds two (`Notices`); two users who register one
device at the same time (`TwoOwners`). The updates sent are: one stage validated, the
first one failed, all three validated. A stage that is taken back and validated again,
two updates that each complete the other's, a page that is too short and the duplicate
of a device token all occur in these; a third worker or user would add no new
combination, since every property is about one row, two requests, or a user and a device.

The loads of `estate` (`MCEstate.tla`) each ask one question on the rows it needs:
`HeirsTogether` and `HeirsOneByOne` the cap (caps of 1, 2 and none in place of 2, 5 and
none, and three beneficiaries, so that both caps are reached and exceeded), `Edits` and
`RuleEdits` updates against deletions and toggles, `Decisions` the owner against an
administrator on one request, `DecisionsOneByOne` any decision after any other (two
requests, as many as the queue holds), `Rows` updates,
uploads and deletions of a vault row, `Letters` notes and their triggers, `Reports` a
report generated and shared while the estate changes, `Settings` and
`SettingsOneByOne` the settings from two devices and in any order, `Screens` the rows that the
screens are computed from (two allocations of 70 percent, so that they sum to more than
100). Overlap is between two workers: one request loads, the other commits. The
loads are separate because their rows are independent except where a load
contains both; the theorems of section 5 are about all requests at once.

Deadlock is checked except in the two passing `sessions` runs, whose supply of
tokens and codes runs out, in `payments_live`, where the single checkout may be
rolled back and then abandoned, after which nothing is left to do, and in `estate`,
where the rows of a load may be used up and deleted.

The runs `payments_serial` and `payments_live` do not repeat the invariants that
`payments_purchases` checks of the same actions with more overlap, and
`sessions_serial` not the type invariant. `BilledOnce` and `CompletedWasValidated` are not
checked as invariants of a passing run because `ImplementsExactlyOnce` and
`ImplementsCase` say more; both are proved.

### Where the code disagrees with what it says

Besides the four findings, the modules state the following sentences of the
repository as they are written. No run has them, because the code breaks them; TLC finds
a counterexample for each when it replaces the properties of the `.cfg`
(`MCDeathVerification` for the first four, `MCEstate` for the others). Next to each is
what does hold, and is checked and proved.

| statement | what is said | what happens | what holds |
|---|---|---|---|
| `CompletionFollows` | `README.md:263` "status → completed when all stages validated" | two overlapping updates of different stages (`verification/service.py:111`) leave three validated stages and a case in progress | `AllValidatedIsCompleted`, `ImplementsCase` |
| `LastRegistrantOwns` | `notifications/routes.py:22` "Device registered for push notifications." | a registration that finds its owner unchanged writes nothing and loses to one committed meanwhile (`notifications/service.py:46`) | `RegistrationStands` |
| `PushIsRecorded` | `notifications/service.py:107` "in-app record is always written" | a request that dies after the push (`:122`) leaves a push without its notification | `CaseHasNotice` |
| `ReadAllReadsAll` | `notifications/routes.py:52` "All notifications marked read." | only the newest page is read (`notifications/service.py:89`) | `ReadAllCoversPage` |
| `CapHolds` | `beneficiaries/service.py:31` "Beneficiary cap for the owner's current plan", `catalog.py:19` "2 beneficiaries" | creations that overlap each other or a downgrade (`beneficiaries/service.py:38`) exceed it | `CapRespected`, `OvershootIsBounded` |
| `ContactCapRespected` | `catalog.py:18` "1 trusted contact" | nothing counts them (`beneficiaries/service.py:151`) | |
| `StatusIsDecision` | `admin/routes.py:42` "Verification approved." | a decision that finds its status unchanged writes nothing and loses to one committed meanwhile (`admin/service.py:108`) | `LastDecisionStands`, `WaitingHasRelease` |
| `AnswersUsePublicIds` | `README.md:466` "internal UUIDs never returned; opaque `public_id`s used externally" | a decision on a request of a deleted beneficiary answers with the internal id (`inheritance/service.py:211`) | |

Six properties speak of requests that do not overlap (`AllValidatedIsCompleted`,
`RegistrationStands`, `PushGoesToOwner`, `LastDecisionStands`, `PreferencesStand`, and the
action property `CapRespected`); without `Serial` each of them is refuted with two
workers. For `PushGoesToOwner` (with a
load of submissions and registrations of two users) the tokens are read once, and a device may change hands
between that read and its push. For `PreferencesStand` two updates of different keys
each write back the whole column.

Other things the models show that no sentence of the repository contradicts: a
readiness of 100 percent may be rounded up from an allocation of 99; viewing one item
writes an audit row while listing all of them, with the same content, writes none; the
hash of a report covers assets and distribution read at two moments, and the PDF shows
later ones next to it.

Fairness (`Fairness`, used by `payments_live` only). Workers: a request that is
being handled takes its next step; the only waiting is the exchange with
Paystack, which has a 20 s timeout (`paystack.py:85,100`), after which the
request is rolled back. Paystack: a webhook is sent again until it has been
answered with 200. Strong fairness, because both workers may be busy at any
moment though not for ever. Nothing is assumed of the app, the browser or the
customer. Failures are finitely many (`MaxFailures`), else nothing is guaranteed.

## 5. What is proved

### Payments

`PaymentsProofs.tla`, for any sets of owners, references and workers, any number
of failures and any mixture of request kinds, from the three assumptions in
`Payments` (each reference has one owner, one paid plan and one cycle; `NoRef` is
not a reference; `MaxFailures` is a natural number):

| theorem | statement |
|---|---|
| `TypeCorrect` | `Spec => []TypeOK` |
| `LedgerCorrect` | `Spec => []LedgerIsBacked` |
| `PlansCorrect` | `Spec => []PaidPlanIsBacked` |
| `WebhookCorrect` | `Spec => [](ChargeHasTransaction /\ AckedIsApplied)` |
| `ChargesCorrect` | `Spec => []ChargeHasTransaction` |
| `ImplementsLedger` | `Spec => AtLeastOnce!Safety` |

and with the further assumption `OneWorker`, that requests do not overlap:

| theorem | statement |
|---|---|
| `SerialBilledOnce` | `Spec => []BilledOnce` |
| `SerialSuccessIsFinal` | `Spec => SuccessIsFinal` |
| `SerialImplementsLedger` | `Spec => ImplementsExactlyOnce` |
| `SerialActivationTakesEffect` | `Spec => ActivationTakesEffect` |

The argument. None of these properties is inductive, because a commit writes
values that were read earlier. The strengthening `IInv` adds what makes stale
values harmless: the world only moves forward. A transaction row never
disappears, a successful charge stays successful and billing records are never
deleted (`Monotone`), so facts established when a worker read something still
hold when it commits (`BackedIsStable`, `SoundOthers`). `Sound(w)` says which
facts those are: a worker about to finalize holds a reference that is charged and
has a row; the subscription row it loaded was backed by a payment; a webhook in
flight will finalize. `LinksHaveTransactions` ties the links that were handed out to
committed rows. The step theorem has one case per action; `OnlyCommitsWrite`
reduces the table invariants to `Commit`. TLC has checked `IInv` itself on the
two-worker instances.

The serial theorems use a second strengthening, `SInv`. It adds that the request in
flight is `Fresh` (the status it loaded is the status in the table, which is
exactly what a second worker would break), that a reference Paystack does not
know has no row, and that a reference has one billing record if its status is
success and none otherwise. A commit that finalizes has then seen a status
other than success, so it adds the first record. `SerialActivationTakesEffect` needs a
third, `HInv`: a request about to commit has in hand (`InHand`) either the row it
updates, as it is stored, or a new one. With one worker an owner has at most one row, the one
that the worker inserts, so it is the newest that reads return; and since the loaded row is
the stored one, writing only changed columns leaves the plan that was paid for. The three findings about
payments are thus placed exactly: the code keeps these promises for all values of the
constants as soon as nothing commits between a request's read and its commit.

### Sessions

`SessionsProofs.tla`, for any sets of addresses, refresh tokens, reset codes and
workers and any number of failures, from the three assumptions in `Sessions` (a token
or code is drawn for one address; `NoToken` and `NoCode` are not among them;
`MaxFailures` is a natural number):

| theorem | statement |
|---|---|
| `TypeCorrect` | `Spec => []TypeOK` |
| `RevocationCorrect` | `Spec => RevocationIsComplete` |
| `PasswordsCorrect` | `Spec => PasswordsChangeByMail` |
| `LifeImplemented` | `Spec => ImplementsLife` |

and `SessionsSerialProofs.tla`, with the assumption `OneWorker`:

| theorem | statement |
|---|---|
| `SerialResetEndsSessions` | `Spec => []ResetEndsSessions` |
| `SerialCodeWorksOnce` | `Spec => []CodeWorksOnce` |

The argument. `StepForms` reduces the actions to five forms: a request arrives
(`Arrived` says what all requests have in common), lists sessions, commits, is dropped, or
the environment moves. `IInv` adds to the types that a token being issued has no
row and belongs to one request (`TokensAreNew`), and per request (`Sound`) that the
sessions it refers to exist and that, once a logout or reset has listed the sessions,
each one that was open at its arrival is listed or was revoked by somebody else.
This is not obvious because the list is stale at the commit. It holds because rows are only
ever added and revocations never taken back (`Kept`); a commit that sets a session to
active does so for a token without a row, which is none that the request listed or
met. What the invariant cannot say is that the list is complete at the commit: the finding, and `SInv` of the serial module says it (`Current`), together with the user
being the one that was loaded, rows being linked, and `uses` counting consumed codes.

`LifeImplemented` needs `LInv` on top: the account that a request, or a reset code, refers to
is there (`RequestsAreLinked`, `CodesHaveAccounts`), which stays true because no account is
closed; a reset lists only sessions of its own account; and an address without an account
has no password (`NoAccountNoPassword`). `CommitOfLife` then takes each commit to its
step: one that issues a token to `SignIn`, a reset to `Reset`, any other to `Revoke`.

### Death verifications and notifications

`DeathVerificationProofs.tla`, for any sets of users, devices, witnesses and workers, any
page length and number of failures, from `PageAssumption` (numbers, `NoUser` is no
user), `UpdatesAssumption` (bodies name stages; `Keep` is no status),
`LoadAssumption` and `WorkerAssumption`:

| theorem | statement |
|---|---|
| `TypeCorrect` | `Spec => []TypeOK` |
| `CompletedCorrect` | `Spec => []CompletedWasValidated` |
| `CaseImplemented` | `Spec => ImplementsCase` |
| `NoticesCorrect` | `Spec => []CaseHasNotice` |
| `PageCovered` | `Spec => ReadAllCoversPage` |
| `StagesComplete` | `Spec => []AllValidatedIsCompleted` |
| `DevicesStand` | `Spec => []RegistrationStands` |
| `PushesReachOwner` | `Spec => PushGoesToOwner` |

The argument. `IInv` holds whatever overlaps. Its part `TablesAgree` relates cases,
notifications and witnesses and says that a stored validated stage is in the history;
`Sound(v)` says that what a request loaded is not contradicted later: a
submission is about a number that is not committed and no other submission's
(`SubmitsDiffer`), a stage that an update saw validated has been validated, and an unread
notification that read-all skips has a page of newer ones. Stale reads stay harmless
because tables only grow (`Grows`, `SoundKept`); a commit that completes a case has
each stage validated either by what it saw or by what it writes.
`CaseImplemented` takes each commit to its step of `DeathCase` (`SubmitOpens`,
`StagesAdvance`): a submitted case is not open yet by `Sound`, and the status after an
update is the stored one or `completed`, never the one that was loaded.
`SInv` adds for serial loads that the sole request loaded what is stored (`Current`),
from which the last three theorems follow.

### Estate

`EstateProofs.tla` (types), `EstateSafetyProofs.tla` (any overlap) and
`EstateSerialProofs.tla` (counting, and requests that do not overlap), for any rows,
users, workers and failures, from the named assumptions of the modules:
`WorkerAssumption` and `HeirAssumption` (finitely many, needed for counting only),
`LimitAssumption`, `PercentAssumption`, `AccessAssumption`, `RecordAssumption`,
`ReleaseAssumption`, `TokenAssumption`, `ProfileAssumption`, `LoadAssumption` (types of the
constants; the values that stand for "none" or "left out" are not among the others).
`RecordAssumption` also says that the rows are finitely many, which only the screens need.

| theorem | statement |
|---|---|
| `TypeCorrect` | `Spec => []TypeOK` |
| `MailsBacked` | `Spec => []MailIsBacked` |
| `WaitingReleases` | `Spec => []WaitingHasRelease` |
| `SecretsStand` | `Spec => []EncryptedFieldsStand` |
| `UploadsBacked` | `Spec => []UploadIsBacked` |
| `AuditCorrect` | `Spec => []AuditAgrees` |
| `NotesScheduled` | `Spec => []ScheduledHasTrigger` |
| `SettingsBacked` | `Spec => []EnabledIsBacked` |
| `ReportFrozen` | `Spec => ReportIsFrozen` |
| `NamedFieldsOnly` | `Spec => OnlyNamedFieldsChange` |
| `OvershootBounded` | `Spec => []OvershootIsBounded` |
| `PendingQueued` | `Spec => []PendingIsQueued` |
| `CapKept` | `Spec => CapRespected` |
| `DecisionsStand` | `Spec => []LastDecisionStands` |
| `ChoicesStand` | `Spec => []PreferencesStand` |

The argument. `TypeInv` adds to `TypeOK` that every worker has an entry; each component has
a lemma that its requests arrive typed and one that its commits keep its tables
typed, and `Advances` is all that the other components need to know of a step.
`SafeInv` is the conjunction of one inductive invariant per component (`HeirSafe`,
`InheritanceSafe`, `VaultSafe`, `LegacySafe`, `ProfileSafe`, `SuccessionSafe`), each about that
component's tables and the requests that are about them. What makes overlap harmless
in each is again that some columns only move one way: a release date, a
trigger, a TOTP secret or a stored object that a request has loaded is still there at its commit,
and a request that creates is about a row that is not there and that no other
request creates. `CountInv` counts the creations in flight: each saw fewer
beneficiaries than the cap, so at most one per other worker is in excess. The serial theorems
add that only workers of the load are busy and that the sole request loaded what is stored
(`CapInv`, `DecisionInv` and the invariant of the preferences).

### Readiness

`ReadinessProofs.tla`, on top of the types of `EstateProofs`:

| theorem | statement |
|---|---|
| `SpecViewsAgree` | `Spec => []ViewsAgree` |
| `SpecAdviceIsHonest` | `Spec => []AdviceIsHonest` |

The argument. The screens compute the total of the shares in two ways, one query summing
the column (`TotalAllocation`) and one loop over the rows (`DistributedTotal`). Both are
recursions over a finite set of unknown size, which add in different orders. `SumExists`,
`SumType` and `SumUnique` show by induction that such a recursion has a value, that it is a
natural number and that there is only one, from which `OneTotal`: both totals are the same.
The library's induction theorems take a predicate as a
parameter, which the provers cannot instantiate; `SubsetInduction` and `CountInduction`
state the same for the *set* of those that have the property, and follow from the
existence of a minimal element (`WFMin`). The rest (`Agreement`, `Honesty`) is arithmetic on
clipped and rounded scores: an owner for whom the advisor has nothing left has every
component of the score at least as high as `RoundedAtLeast` needs.

### Not proved

Liveness (`PaidIsActivated` and the fairness half of `ImplementsAtLeastOnce`) is out of
the prover's reach and only model-checked. Every other property of a passing run is
the statement of a theorem.

## 6. Limits

- Every read of rows is one step with the arrival of its request, except where another
  request in between matters and the code has an exchange there (Paystack, FCM, the two
  reads of a report, the list of sessions at a reset).
- Payments leaves out amounts and currencies (`verify_transaction` returns them and
  nothing compares them), renewal dates (nothing acts on `renews_at`), audit rows,
  signatures and authentication. The plan in `Beneficiaries` changes by requests of its own;
  which changes `Payments` allows is checked there.
- Sessions leaves out data export, device and address of a session, and refused
  requests. Reset codes are taken to be distinct (they have six digits and are looked
  up per user). `email_verified`, which a Google sign-in sets too, is in
  `Profile` only.
- Encrypted columns of a row behave alike and one stands for all; so does one column
  in the clear. Refused requests (404, 403, 409) change nothing and are left out.
- Database behaviour is READ COMMITTED as in PostgreSQL's default. Row locks held
  between a flush and a commit only delay a competing commit; they are not
  modelled because each commit is a single step.
- The clock that orders `created_at` is taken to be monotone and to give distinct
  values; skew between processes would only reorder rows.

### Not modelled

- E-mail templates, the PDF and the Firebase client: formatting and I/O around external
  services. That a mail or a token may fail or be repeated is part of `Sessions`,
  `Beneficiaries` and `Profile`.
- Encryption, configuration, routers and envelopes: stateless or fixed at start. That a
  ciphertext never repeats is used in `Vault` and `Legacy`.
- Migrations: they run before the server, one after the other; their unique indexes
  and defaults are guards and initial values of the modules.
- Audit rows outside the vault, values by category, trends and the assistant's chat:
  appended or computed without anything depending on them.
- The smoke test (`scripts`) and the tests: they call the API.
