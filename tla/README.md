# Verification of venturo-skeleton-go

TLA+ modules, model-checking configurations and machine-checked proofs for the
multi-tenant backend in this repository (module name "Tuai Backend"). The code
is the reference: every definition was translated from it, and
`PROJECT.json` names the lines each one stands for.

The program is a set of HTTP services over PostgreSQL and Redis. Its own
concurrency is small (one goroutine per request, a timer in the error
notifier); the hard part is in how requests interleave between SQL statements
that commit one by one, and in what partial unique indexes, row locks and a
cache make of that.

## 1. Inventory

| component | state | operations | talks to |
|---|---|---|---|
| Approval engine (`approval_request.service.go`) | `approval_requests`, `approval_request_levels` | Submit, Approve, Reject, Cancel, each inside the *caller's* transaction | reads the configuration |
| Approval configuration (`approval_config.service.go`) | `approval_configs`, its levels | Create, Update, Delete | - |
| Error notifier (`pkg/discord`, `discord_core.go`) | `pending`, `timer`, `lastSent` under a mutex | Notify, flushPending, send | the logger calls it on every error; `time.AfterFunc` calls back |
| Permission cache (`shared/authz`) | Redis keys `perms:user:U:company:C` with a TTL | GetPermissions, InvalidateUser, InvalidateAll | reads roles, assignments and memberships |
| Roles (`role.service.go`) | `roles`, `user_roles` | Create, Update, UpdatePermissions, Delete, Assign, Remove | invalidates the permission cache |
| Companies and memberships (`company.service.go`) | `companies`, `company_users` | Create, Update (ownership), Delete, Restore, AddUser, UpdateUser, RemoveUser, SyncUserCompanies | seeds a default branch; called by Users and SignUp |
| Users (`user.service.go`) | `users` | Create (one transaction over user, memberships, branches), Update, UpdateMe, Delete, ChangePassword | memberships, branches |
| Branches (`branch.service.go`) | `branches` and its two partial unique indexes | Create, Update, Delete, GenerateNextCode | seeded by Companies and SignUp |
| User branches (`user_branch.service.go`) | `user_branches` | SyncUserBranches, AssignUserToBranchesTx | branches; `BranchScope` reads it on every request |
| Accounts (`auth.service.go`, `client.service.go`) | `users`, `clients`, a company, membership and branch each, `user_identities` | SignUp, SignInWithGoogle with linking and provisioning, slug allocation | users, clients, companies, branches |
| Sessions (`auth.service.go`) | `refresh_tokens`, failed attempts and lock in `users` | SignIn, RefreshToken, Logout, LogoutAll, SwitchCompany | users |
| API keys (`api_key.service.go`, `middleware/auth.go`, `middleware/role.go`) | `api_keys` | Create, Update, Revoke, ValidateAndGetClaims, RequirePermission | roles, permission cache |
| Translation overrides, audit log | one table each | create, update, delete | - |
| Middleware | a counter in Redis (rate limiter, not wired) | authentication, scope, permission checks | permission cache |
| Email, storage, Firebase, router, configuration, helpers | none | input and output, wiring | - |

What is hard in each, and what makes it correct:

* **Approval.** No `SELECT` is `FOR UPDATE`: a decision rests on a row read
  earlier and is written to whatever that row has become. Correct means: one
  waiting request per document, decisions only by the approver snapshot, a
  trail that agrees with the status, no deadlock among row locks and the unique
  index, and that a finalized request is history.
* **Error notifier.** A timer that has fired cannot be stopped. Correct means:
  no event lost or posted twice, no batch stranded without a timer.
* **Permission cache.** The database write and the invalidation are separate;
  `SCAN` runs while entries come and go; errors are swallowed. Correct means:
  every write of the role service invalidates what it changes, and what is
  missed heals with the TTL.
* **Memberships.** No transaction: each call is several statements that commit
  apart, and later ones write what earlier ones read. Correct means: one
  membership per user and company, one primary company per user, an owner who
  stays a member, and a call alone does all it was asked.
* **Branches.** The default flag is cleared in one statement and set in another;
  the lock of the code generator is released before its code is used, and a
  clash on either index is taken for one of the code. Correct means: at most
  one default and one holder of a code per company, deleted branches stay
  deleted, a call alone leaves what it was asked, and generation gives up only
  when it was outrun.
* **User branches.** A user without a row is *not restricted*, so the order of
  insertions and removals decides whether access widens in between. Correct
  means: a call alone never lets its user into more than he had or is given, and
  a scoped caller touches nothing outside his scope.
* **Accounts.** Five inserts without a transaction, probes followed by inserts,
  rows written back as a whole. Correct means: unique indexes decide every race,
  a Google sign-in answers for the user its account is linked to, and a write
  undoes nothing by itself.
* **Sessions.** Access tokens cannot be revoked, a refresh token is checked in
  one statement, revoked in another and replaced in a third. Correct means:
  LogoutAll and rotation hold but for the calls they overlap, and wrong
  passwords lock the account.
* **API keys.** A scope is checked when set, intersected when used, and a nil
  list means "ask Redis". Correct means: no request passes by more than scope
  and holder allow.

`PROJECT.json` lists every hazard at its line, with the properties that would
catch it or the reason why none does.

## 2. Modules

| module | models | how |
|---|---|---|
| `ApprovalRows` | the rows, the CHECK constraint, what each UPDATE does to a row | stateless operators shared by the next three |
| `ApprovalEngine` | Submit, Approve, Reject, Cancel | an **abstract specification**: each handler one atomic step on the committed rows. It is the code without its interleavings and no contract: where the documentation asks for something else (a submission without configuration), it does what the code does |
| `ApprovalCommits` | what is left of the engine when transactions overlap | a second, weaker **abstract specification**: a commit is one decision by someone the snapshot names, at the level he read, whatever the request has become since |
| `ApprovalTx` | the same handlers as READ COMMITTED transactions, and the configuration | one action per SQL statement; `wreq`/`wlvl` are uncommitted row versions, `seen` the row the handler decided on; locks are guards over other workers' uncommitted rows; `WaitsFor` is who waits for whom |
| `DiscordNotifier` | `pkg/discord.Notifier` | one action per critical section, the runtime's timers as objects that are free, armed or fired |
| `PermissionCache` | `shared/authz` and the role service | one action per SQL statement and per Redis command; history fields name the cause of a stale entry |
| `Memberships` | the company service, the primary-company part of its repository, the transaction of `UserService.Create` | one action per SQL statement; `pc` is the next statement, `call` the request and what it has read; `alone` is a history variable |
| `Branches` | the branch service and its repository | one action per SQL statement; `pc`, `call` and `alone` as in `Memberships`; `raced` counts the writes of other calls on the company |
| `UserBranches` | the calls on `user_branches`, and the bound `BranchScope` derives | `EXTENDS Branches` and composes with it: branches are deleted while a call runs; `step` is the next statement, `sync` what the call has read |
| `Accounts` | SignUp, Google sign-in with linking and provisioning, the user service's writes, slugs of clients | one action per statement; `todo` is the next one, `act` the row to be written |
| `Sessions` | sign-in with its lock, refresh tokens, logout, switching the company | one action per statement; `at` is the next one, `visit` what the call has read; `root`, `first`, `late`, `raced`, `wrong` and `cuts` are history |
| `ApiKeys` | keys, and the permission check of a request made with one | one action per read or write that decides; `job` is the call, with the claims pinned to the request |
| `Access` | `Accounts`, `Sessions` and `ApiKeys` side by side | a step is a step of one of them |
| `MC*` | bounds for TLC | constants, symmetry and bounds only |
| `*_proofs` | theorems | extend the module they are about |

`ApprovalTx` composes the engine with the configuration service;
`PermissionCache` composes the cache with the role service and the membership
writes of the others; `Memberships` composes companies, memberships and user
creation; `UserBranches` composes branches with the users bound to them.
`Accounts`, `Sessions` and `ApiKeys` share no state that decides anything, so
`Access` puts them side by side and the run checks all three at once; that
nothing proved of one is lost in the composition is itself a theorem
(`AccessParts`: a behaviour of `Access` is one of each part). `SetStatus` of `Sessions` and `ChangePermissions` and
`RefreshCache` of `ApiKeys` are what the other modules may do to them at any
time. A definition whose comment starts with "Mutant:" is a wrong variant
of the definition after it. It is not part of any specification; it is there to
show that the property named in `PROJECT.json` notices the difference.

Abstractions shared by all: ids are model values; timestamps, names, comments
and audit columns are left out, since no decision reads them; a call refused on
its first read changes nothing and is usually not represented; reads that only
build a response are left out.

Some choices deserve a word:

* *Approval, levels.* Configuration input is validated to be contiguous from 1
  with at least one approver per level, so a sequence of non-empty sets stands
  for it. The engine reads a role's members through the snapshot only.
* *Approval, `FindByID` then `FindLevels`.* Of the level rows a decision uses
  only the approver snapshot, which never changes (`HistoryKept`), so both reads
  are one action.
* *Cache, permission maps.* Levels are nested, so "the higher level wins" is the
  union of the code sets.
* *Memberships, Sync.* The first loop goes over the request's list in its order; the
  list may repeat a company, and its second occurrence then fails on the index, as in
  the code. The second goes over the memberships read at the start, primary first
  and then in the order of joining; when somebody joined is left out, so the model
  takes the removals in any order, that one included.
* *Branches, codes.* A code is a form and the number it ends in. Only codes
  `CB-<digits>` count for the next one; `MaxInt` is the `INT` they are cast to.
* *User branches, creation of a user.* The inserts of `AssignUserToBranchesTx`
  commit with the user and nobody sees them before: one step.
* *Accounts, values.* A slug spells the user name it derives from; a candidate
  already used is replaced by another, as the random suffix does, at most
  `MaxAllocs` times.
* *Sessions, passwords.* A password is right or wrong. `SwitchCompany` and
  `LogoutAll` need an access token only, and so may come at any time.
* *API keys, expiry.* There is no clock: a key may expire at any time.
* *Memberships, user creation.* Uncommitted inserts are seen by nobody, so the
  inserts of `AssignUserToCompaniesTx` are one step with the commit. Because the
  user is new, the primary company looked up on the way is none.

## 3. Runs

| run | bounds | shows |
|---|---|---|
| `approval_tx_request` | 1 request, 2 overlapping transactions, 2 approvers, 2 levels, no edits of the configuration; fair | types and eligibility under stale decisions, every commit is one decision of `ApprovalCommits`, every call returns |
| `approval_tx_docs` | 2 requests on 1 document, 2 transactions, configuration edits | the index stops double submission and a stale Approve; the status rests on a recorded decision; waits form no circle; neither a decision nor an edit of the configuration rewrites a snapshot |
| `approval_tx_serial` | 2 requests on 1 document, 1 transaction at a time, lists of 0, 1 and 3 levels, one approver on two of the three, edits and failures | transactions that do not overlap implement `ApprovalEngine`; trail and status agree; a finalized request never changes |
| `approval_tx_config` | 1 request, 1 transaction | **violation**: a submission without configuration is approved |
| `approval_tx_cancel` | 1 transaction | **violation**: Cancel always fails on a CHECK constraint |
| `approval_tx_final` | 2 transactions on 1 request | **violation**: a finalized request is overwritten |
| `discord` | 5 events, 3 timers, interval 2; fair | no event lost, doubled or stranded; only an orphaned timer posts early; every event is posted unless the process ends |
| `permission_cache` | 1 user, 1 company, 1 role, 2 operations, 1 lookup, 3 writes; fair | a stale set has a cause, a deleted role stays deleted, the TTL heals |
| `memberships` | 2 users, 2 companies, 3 rows, 2 administrators, 3 calls, failures | both indexes hold, removed rows stay, lone calls deliver and keep the owner a member |
| `branches` | 2 companies, 3 branches, 2 goroutines on branches, 2 on user branches, 2 users (one new), 3 rows, `MaxInt` 3, 2 tries, 3 calls, failures | three indexes hold; lone calls deliver; code generation gives up only when outrun; deleted branches stay; access never widens in between; scopes are respected |
| `access` | accounts: 2 users, 2 e-mails, 2 names, 1 Google account, 3 calls; sessions: 1 user, 3 tokens, 2 goroutines, 2 wrong passwords, clock 0 to 2, 4 calls; keys: 2 keys, 2 permissions, 2 goroutines, 3 calls; failures | unique indexes; Google sign-in; no silent undo; lock, LogoutAll; a token is exchanged once, and a sign-in has one valid token however often it was refreshed; what passes by a key |
| `memberships_owner_joins` | 1 administrator, no failures | **violation**: a company is created without its owner as a member |

**Why these bounds.** Approval: two transactions suffice for every conflict of a
pair, since each handler touches one request and the index relates two; three
level lists cover automatic approval, a single level, and intermediate levels.
Only `approval_tx_request` leaves configuration edits out (`OneConfig`): its
properties compare requests with their own snapshots, and its liveness check
needs the room; what is about configurations (`HistoryKept`,
`ImplementsEngine`) is checked with them. The proofs of section 5 lift all of it
to any number. Notifier: five
events overrun one window twice, three timers allow one armed and two fired at
once. Cache: two sets of one user exist (with and without company), two
operations and a lookup make every overtaking possible; three writes let a
role be created, assigned and changed. Memberships: three calls let a third
change what two overlapping ones rest on; three rows allow a removed membership
next to its successor. Branches: three ids let the default move twice; with
`MaxInt` 3 and an own code of number 3 the generator meets its upper end; two
tries tell the first from the last; the third call is explored among calls on
the branches of one company only (`Bound`). Access: two calls overlap everywhere, a third
Google sign-in meets a finished one beside a running one (`Bound`); three
tokens are a chain of two refreshes, or a chain and a second exchange of its
root; two wrong passwords are the first that does not lock and the first that does;
a lock of one tick expires within the clock. The proofs lift sessions and
keys to any number. Symmetry is used on rows, requests and workers only,
never in a run with a liveness property; where ids are numbers they are handed
out in order instead (`Ordered`).

**The relaxed constraint.** As shipped, `chk_approval_request_levels_action`
makes every Cancel, and every Reject below the last level, fail. Checking the
rest with the constraint on would say nothing about those handlers, so
`EnforceActionCheck` is FALSE in the runs about them. In `ApprovalEngine` the
constraint only removes steps, so what holds without it holds with it. In
`ApprovalTx` a refused statement is a rollback that differs from `Fail` in
nothing but the error. The violation runs show the shipped code and have it
TRUE; the theorems hold for both values.

**Deadlock** is checked except in runs that may really stop: a notifier whose
process has ended, and instances
whose last call has returned or whose ids are used up (`branches`, `access`).

## 4. Fairness

* `ApprovalTx`: goroutines are scheduled and statements return (weak), and a
  lock is granted to its waiters in turn, as PostgreSQL queues them (strong, on
  the locking statements). Starting calls, configuration edits and failures
  are not fair. The engine runs inside its caller's transaction; that the caller
  proceeds to commit or rollback is assumed with the rest.
* `DiscordNotifier`: time passes, the runtime runs due timers, and a post ends
  since the HTTP client has a timeout. Nobody has to log, and exiting is not fair.
* `PermissionCache`: only Redis' expiry is fair.
* `Memberships`, `UserBranches`, `Accounts`, `Sessions`, `ApiKeys`: none; everything said of
  them is safety. Their calls are straight lines of statements with a bounded retry.

## 5. Proofs

TLAPS checks, for every value of the constants that satisfies the named
assumptions:

| module | theorems | inductive invariant |
|---|---|---|
| `ApprovalEngine_proofs` | type, trail, one active request, eligibility, finality; `ApprovalCommits` implemented; types, one active request and eligibility of *whatever* implements `ApprovalCommits` | their conjunction; it is argued request by request (`RowInv`), since a handler changes one. `Decided` adds that whoever acted was eligible, `RowOK` ties rows to `total`. `CommitInv` is what remains of it when the status may be stale |
| `DiscordNotifier_proofs` | type, events kept, timer closes the window, early only by an orphan | the three invariants together: a flush leaves the window right only if the batch it takes is all there is |
| `PermissionCache_proofs` | type, staleness has a cause, deleted roles stay | adds that an id never created is held by nobody, that a checked assignment's role exists, that an answer no write has overtaken is still the database's, and that an operation invalidates only after it wrote |
| `ApprovalTx_proofs` | type, one waiting request per document, eligibility, the last decision on record, history kept; no circle of waiting calls; `ApprovalEngine` implemented by transactions that come one at a time, `ApprovalCommits` by any number that overlap; trail and finality of transactions that come one at a time | `Locks`: a request row has one uncommitted version, and a document one waiting row, committed or not. `DecideInv`: the row a decision read may be out of date, but what it writes of a snapshot or of a level already decided is what the table holds. `OrderInv`: no level below the one a call decides on is pending, no two calls hold the same level row, and a row a call has skipped is still pending in the table |
| `Memberships_proofs` | type and both indexes, removed memberships stay, lone calls keep the owner, lone calls deliver | `Tables` (shape and indexes), `Calls` (a call has at hand what its next statement needs: `Shape`), and `Reads`: the rows a call names stay rows of the same company and user, and while it is alone what it checked still holds. On top of them `DInv`: how far a lone call has come |
| `Branches_proofs` | of branches: lone calls deliver, refusals have a reason, deleted branches stay; of user branches: type and all three indexes, a sync delivers, never widens access, respects the scope | `BInv`: `RaceInv`, a code or default found free and taken since has cost a write counted in `raced`, and `AloneInv`, what a lone call read is still so. `UInv`: only rows of the call's user change, and `SoloAdd`, between the additions of an undisturbed sync nothing it keeps has gone |
| `Access_proofs` | of accounts: type and the unique indexes, what a Google sign-in answers for, nothing undone silently; of keys: type, what passes by a key; of the composition: it behaves as each of its parts, and its types | `AInv`: what a call is when it is about to execute a statement (`Fits`), how far it has come with the tenant and the link (`Reached`), and `Differs`, the row to be written differs from the table only where it was asked to or where others wrote meanwhile. `KInv`: a check works with claims inside scope and history (`had`, `cache`), and a scope still to be written has been validated |
| `Sessions_proofs` | type, LogoutAll, rotation, lock | `TInv`: a call has at hand what its next statement needs, a refresh works on a token of its user. On it rest three invariants, one per theorem: `LInv`, every valid token *and every call that will issue one* carries the current count of LogoutAlls; `RInv`, an unraced token comes after the revocation of its parent, and any other exchange of that parent has been raced, and on it `CInv`, of the tokens that go back to one sign-in one at most is valid, and none while an unraced call is about to issue the next; `WInv`, while sign-ins of a user come one at a time, the count each has read is the number of wrong passwords |

Approval is described at three levels, and the proofs connect them:

* `ApprovalEngine` implements `ApprovalCommits` (`EngineImplementsCommits`).
  What the second drops is the look at the status: a decision may fall on a
  request that is no longer waiting, or at a level that is no longer the current one.
* Transactions that come one at a time implement `ApprovalEngine`
  (`TxImplementsEngine`, for one worker). Nothing changes under a
  transaction (`SerialInv`: its uncommitted rows are what the engine's handler
  makes of the committed ones, and its configuration what it read), so every
  statement before the commit stutters and the commit is the engine's step. It
  holds with and without the CHECK constraint, for configuration edits at any
  time and failures anywhere. What is proved of the engine is therefore true of
  these transactions: `TxSerialTrail` and `TxSerialFinality` take the
  theorems of `ApprovalEngine_proofs` over through the refinement. For two workers it is false, by the design of the
  code: `approval_tx_final` shows a step no atomic handler takes.
* Any number of overlapping transactions implement `ApprovalCommits`
  (`TxImplementsCommits`). The commit of a call that decided on an old row is
  still *one* decision: the request row it wrote is the handler's function of the
  row it read, which differs from the table's in the decision fields only, and the level
  rows it wrote are the current ones with its own marked, because PostgreSQL
  re-reads a row it had to wait for, and nobody else can write it until the
  commit. So two overlapping decisions never mix.
* `CommitsKeepOrder` closes the circle: types, one waiting request per document and
  the eligibility of every decision follow from `ApprovalCommits` alone.
  Neither rests on the status checks of the handlers, only on the snapshot and the
  partial index. Finality does rest on them, which is why it is lost (`approval_tx_final`).

`TxNoLockCycle` says that calls never wait for each other in a circle, for any
number of them. It is stated without ENABLED: `WaitsFor` says whether the next
statement of one call wants what another holds, and the guards of the
statements use the same operator. A request row or an index entry is held only by a
transaction about to commit, which waits for nobody; so in a circle everybody
waits for level rows, and everybody who is waited for holds a level it rejects and
skips others. Such a call holds nothing but that level, and no level below it is pending
(`OrderInv`), so two neighbours in the circle would hold
two different pending levels of one request, each with none pending below it
(`NoWaitChain`). One simplification limits the result: the UPDATE that skips the
remaining levels takes its rows at once in the model, while PostgreSQL takes them in
scan order.

`OwnerKeptByLoneCalls` is the subtle one of the memberships. The code reads the owner, then
removes or deactivates a member statements later. It is not true that an owner
stays a member (an ownership transfer between the two breaks it), but it is
true of a call that no other call or company deletion joined since it began:
`Reads` carries the check from the reading statement through `SetPrimaryCompany`
to the write, and `OtherReads` shows that ends of other calls do not disturb it.
Without `alone` TLC finds the counterexample at once.

Assumptions on constants are evaluated by TLC in the passing runs. They say
that "null" values are not rows, bounds are numbers, level lists are what
validation admits, and founders own distinct companies.

The proofs about `Sessions` first sort its steps into kinds (`StepKinds`): a
statement that touches no token, a call that begins, a revocation, an insert,
a logout. What the rest needs of each kind is stated once (`Calm`, `Begins`,
`Moves`, `Kept`), and the three invariants are carried over the kinds, not over
the handlers. `RotatedOnce` says two things of a refresh token: it is exchanged
once unless two calls raced for it, and so, of the tokens that go back to
one sign-in, at most one is valid unless some exchange on the way was raced. The
second does not follow from the first: a token whose successor is about to be inserted is
revoked already, so `CInv` has to count the call that will insert it as well.

`LoneCallsDeliver` of the memberships speaks of the last statement of a call and
is about all of them. For `SyncUserCompanies`, `LoneSync` says it for a list of
any length: the elements before `pos` are companies of the user already; and
every active membership of his was read at the start, is on the list, is an
owner's, or is the one about to go (`Accounted`). So when the loops end nothing is
missing and nothing is left over.

`NoSilentUndo` is the one of the accounts that needs history: `touched` collects
what other calls write to the user while a call holds its copy, `Differs` is
preserved by their writes because each adds its fields there (`OtherServer`), and
the write-back then undoes only what `touched` names. That a live user keeps his
e-mail to himself is not argued from the probes, which race, but from the indexes
alone; `GoogleAccountHolds` needs that links never move and that a tenant only grows (`Grow`).

Only model-checked: liveness (`EveryCallReturns`, `EveryEventPosted`,
`TTLHeals`), which rests on fairness, and the four violations of the next section.

## 6. What the runs say about the code

Four disagreements have a run of their own (`findings`):

1. *A submission without configuration is approved.* `SubmitTx` takes a missing or
   inactive configuration for one without levels, and the request is final at
   once, approved by nobody. `docs/api-contract/core/approval.md:669` says the
   submission fails ("Submit akan gagal kalau belum ada"), as do `:19` and `:95`
   and step 2 of the function's own comment (`approval_request.service.go:74`,
   "If none → error"); `ErrApprovalConfigNotConfigured` (`:21`) exists for it and is
   never returned. Only the inline comment at `:93` calls it intended. The models
   follow the code, so no refinement or theorem says anything for the contract here.
2. *Cancel never succeeds*, nor does a Reject below the last level: pending
   levels are marked skipped without `action_by`, which the schema forbids.
3. *A finalized request can be overwritten* by a decision that read it while it
   was waiting.
4. *A company without its owner as a member*: `GetPrimaryCompany` looks for an
   active primary membership, the unique index counts deactivated ones, and the
   refused insert is only logged.

Others were met on the way, and are reachable in the models without a run:

* A configuration switched off a moment before a submission makes it one
  without configuration; a configuration without levels approves everything, which
  is documented.
* The notifier's "minimum gap" has an exception (`EarlyOnlyByOrphan`); `Sync`
  flushes nothing, so the last window is lost when the process ends.
* The header of `authz` says changes take effect on the next request after
  invalidation; a lookup that a write overtook stores the old set afterwards,
  and it lasts for the TTL.
* `RoleService.Update` writes back permissions and the active flag it read, and
  undoes a concurrent `UpdatePermissions`. Assigning a held role for another
  company is a silent no-op (`ON CONFLICT (user_id, role_id)`).
* `SyncUserCompanies` calls `SetPrimaryCompany` atomic; it is two statements, and
  a failure between them leaves the user without a primary company.
* Sync may remove the primary membership and leave the user without one, and
  fails on the index for a company whose membership is deactivated, because it
  reads active memberships only.
* A deleted company protects nobody: its owner can be deactivated, and a Restore
  then yields a live company whose owner is no active member. Ownership can be
  transferred to a deactivated member.
* Two overlapping `SyncUserBranches` each remove what the other keeps, and may
  leave a user without rows, that is, without restriction.
* `Delete` of a branch that became the default after it was read leaves the company
  without one; `docs/api-contract/core/branch.md:294` says that cannot happen. A
  Create or Update refused after the default was cleared does so too.
* A code `CB-<digits>` at or above the largest `INT` makes every later generation
  of a code fail for its company.
* SignUp and the provisioning of a Google user are not transactions: a failure
  leaves a user without company or membership, and no later call completes him.
* `Update` and `UpdateMe` of a user write back the whole row: an e-mail
  or flag changed in between is undone (`NoSilentUndo` states what remains true).
* Overlapping wrong passwords are counted as one and may not lock; the count is not
  reset when a lock expires, so the next wrong password locks again; a sign-in with
  Google ignores the lock and lifts it.
* `SwitchCompany` asks for an access token only: it issues a refresh token after a
  LogoutAll and for a deactivated user. `docs/api-contract/core/auth.md:614` calls the
  token it returns a rotation, but nothing is revoked: the token the caller had stays
  valid beside it. `RotatedOnce` therefore speaks of refreshes only. `ChangePassword` revokes no token, and
  users that came by Google have no password and cannot set one.
* `middleware/role.go:98` says a request with an API key must not consult Redis. An
  unscoped key of a user who has no permissions, or whose permissions could not be
  read, carries a nil list, and the check falls back to Redis. `KeyScopeHolds`
  exempts it.
* API keys of a deactivated user keep working (`ErrApiKeyUserInactive` is never
  returned), and the rate limit of a key is stored and read by nothing.
* The response of `UpdatePermissions` is empty when the role was deleted meanwhile.

## 7. Not modelled

* `FindByUser` does not look at `rows.Err()`: a list cut short by a lost
  connection is taken for the whole. The models read a list in one step.
* PostgreSQL's statement-level re-evaluation of a `WHERE` after a lock wait is
  modelled where it decides something (approval); the other modules' statements are
  atomic, which their single-row conditions justify.
* The connection pool: a creation of a user holds a transaction's connection while its
  checks take others from the same pool of 25. Nothing waits below that number, and a
  pool would have to surround every statement of every module.
* The update of an approval configuration in its own right: the engine sees
  its levels and its active flag change, which is all that `ApprovalTx` needs.
* Code nothing calls: `DeleteExpired` of refresh tokens, the repository's Delete of a
  key, `CreateForUserTx`, `InvalidateUserCompany`; and the rate limiter of
  `middleware/rate_limit.go`, which the router does not wire.
* The counters a goroutine writes after a request with a key; translation overrides and the
  audit log (independent rows, read by no decision).
* Company hierarchy, client resolution, listings and pagination; names, phones and
  avatars; role names and tenant checks; the verification of tokens and passwords;
  email, storage, Firebase, Redis' client, handlers, router and configuration.

## 8. Plan

Done: approval (engine, transactions, refinement), notifier, permission cache and
roles, memberships, branches and user branches, accounts, sessions, API keys.
Left:

1. Approval configuration updates in their own right: the write-back of a stale
   active flag, levels replaced under a deleted configuration.
2. The connection pool, with one holder and one further connection per creation.
