# NexusDRM in TLA+

NexusDRM is a digital-rights platform: a NestJS backend over one Postgres
database, a React dashboard, Cloudinary for files and pg-boss for background
jobs. This directory holds TLA+ models of the parts of the backend and of the
dashboard that keep state, the TLC runs that check them and TLAPS proofs about
them. Paths below are
relative to the root of the repository (`src/` is the backend, `dashboard/` the
client); `PROJECT.json` gives the exact lines of every definition, and prefixes
these paths with another `src/`.

Contents: [the system](#1-the-system), [what makes it hard](#2-what-makes-it-hard),
[the models](#3-the-models), [the runs](#4-the-runs), [the proofs](#5-the-proofs),
[findings](#6-findings), [what is not modelled](#7-what-is-not-modelled),
[the plan](#8-the-plan).

To run: `tlc -config LicensingRaces.cfg MCLicensing`, `tlapm LicensingProofs.tla`
(a few minutes each for `PagesProofs` and `ConsoleProofs`, less for the others);
`PROJECT.json` names the module of every run.

## 1. The system

`k8s/deployment.yaml` starts three replicas of the backend, and `hpa.yaml` more.
Every replica serves HTTP requests and subscribes to every pg-boss queue. The
replicas share nothing but the database. Components, under `src/modules/` unless
a path says otherwise:

| Component | State it keeps | Operations that change it | Used by | What makes it correct |
|---|---|---|---|---|
| **license** | `licenses`, `license_activations`, `access_policies` | create, update, activate or deactivate a device, revoke, lazy expiry on validate and activate, daily expiry scan | streaming validates a license before it signs URLs | devices within `maxDevices`; what is expired or revoked gains no device and stays so until an update asks otherwise; what is overdue expires |
| **auth**, **user**, **admin** | `users`, `login_sessions` | register, verify, login (session limit), refresh (token rotation), logout, logout-all, forgot and reset password, suspend, activate, deactivate, profile updates | every request (JwtStrategy); dashboard (refresh interceptor) | one live token per session; ended sessions stay ended; a locked account or a replaced password opens nothing |
| **content** and its processors | `contents`, `content_versions`, three queues | upload, new version, metadata, publish, archive; upload, transcode and thumbnail jobs | licensing and streaming name a content | the status tells what happens to the item; versions match files |
| **content keys** (`drm/services/key-management`, `encryption`) | `content_keys`, encrypted files | encrypt, decrypt, rotate | drm controller, rotation job | one active key, versions in sequence, files stay readable |
| **rbac**, **organization**, **seeds** (`src/database/seeds`) | roles, `role_permissions`, `user_roles`, organizations | create, save and delete a role, replace its permissions, grant and reassign roles, `createWithAdmin`, `inviteMember`, the seeding command | RbacGuard on every route | a request does what it was asked or grants nothing; what it replaces is gone; no row names a role that is not there |
| **streaming**, signed URLs | none: what counts is the URLs it has signed | validate the license (creators, administrators and `drm/signed-url` excepted), await the content, sign a URL for a while | dashboard | no URL for a license that was over before |
| **queue** (`src/common/queue`) | pg-boss's tables | `publish` (swallows its errors), `subscribe` (at-least-once) | content, license, drm, audit, notification | jobs are not needed, or are repeated |
| **dashboard client** (`dashboard/src/api/client.ts`, `context/AuthContext.tsx`) | a pair of tokens in localStorage, per tab a user, a flag and a queue of calls | attach the token, refresh once on 401, replay, log in and out | auth; every page | one refresh per tab, no pair spent twice, a logout is final |
| **dashboard pages** (`dashboard/src/pages`, `App.tsx`, `components`) | the hooks of the page that is mounted, its requests in flight, its timers | fetch, filter, turn pages, act on a row, forms, drawers, polls; going from one page to another | client; every backend module | the screen shows what was asked, or says what it shows instead; no page is reached without permission |
| audit, notification, subscription, health, rate-limit and other guards that no route attaches, request pipeline, storage | rows written by one statement, or nothing | | | see [section 7](#7-what-is-not-modelled) |

How they interact: a request is authenticated (auth), authorised (rbac), and runs
one service method, which awaits a handful of database statements. `content`
publishes jobs that its own processors take; `license` is scanned by a cron job;
`admin` and `user` call `auth.logoutAll`; `drm` calls the key service;
`streaming` asks `license` and then signs. Services otherwise meet in the tables
only. The dashboard meets the backend in HTTP answers and itself, between tabs,
in localStorage.

## 2. What makes it hard

**No handler of these services opens a transaction or takes a lock.** A handler
is a sequence of statements with an `await` between any two; other requests, on
the same replica or another, run in between. Four mechanisms follow from this and
from TypeORM, and the models of the backend have them:

* *Stale saves.* `repository.save(entity)` re-reads the row and writes every
  column in which the loaded entity differs. A handler that loaded a row before
  another changed it puts the old columns back. The SELECT and the UPDATE of one
  save are one step of the models: what is written between the two stays out.
* *Orphans.* Saving an entity that was loaded with a one-to-many relation makes
  the database's children equal to the loaded array. A child inserted since
  would lose its `NOT NULL` parent, so the save throws. This accident stops some
  of the stale saves, and the models say exactly which.
* *Partial failure.* A statement that throws, or a replica that dies, loses the
  rest of the handler; what it wrote stays. `Crash(p)` may end a handler between
  any two of its statements.
* *Jobs.* pg-boss delivers at least once, a processor that catches its own
  errors is never retried, and `publish` answers null when the queue is away.

The dashboard has its own, which its models share:

* *Answers in any order.* A page may have several requests under way and does not
  tell their answers apart. The last to arrive wins, whichever was asked last.
* *Functions of earlier renders.* A handler that awaits an answer goes on with the
  filters, page number and rows of the render that created it.
* *Failure made up.* Where a fetch fails most pages go on with demo data, and a
  few acts pretend to have succeeded: the code says so, and so do the models.
* *Shared storage.* All tabs read and write one pair of tokens.

`PROJECT.json` lists every such hazard at its line with the properties that
watch it, or says why none does.

## 3. The models

The models of the backend are written the same way. `Proc` is a set of request
handlers and queue workers, of all replicas together. `pc[p]` names the statement
`p` runs next (`"activate.insert"` is the insert of `activateLicense`), `"idle"` if
none, and `req[p]` is what the handler's local variables hold. An action is one
awaited statement with the code around it up to the next `await`. A load that ends
its request without a write changes nothing and is left out. `Begin(p)` starts a
request, `Proceed(p)` runs its next statement, `Crash(p)` loses the rest. The
`Mutant:` definitions are plausible bugs; none is part of a specification, and
each one, put in place of the action it mutates, breaks the property it is for.

### Licensing (`license.service.ts`, `license-expiry.processor.ts`)

| Variable | Code |
|---|---|
| `license` | the row: status, `maxDevices`, `expiresAt`, whether `activatedAt` is set |
| `activation` | the row of a device: none, `isActive`, or not |
| `policy` | whether the row of `access_policies` exists yet (it matters to orphans) |
| `due` | the ids a scan has selected |
| `now` | `new Date()`; dates are those of `Dates` or `Never` (null) |

Actions: `CreateLicense`, `CreatePolicy` (createLicense); `UpdateLoad`,
`UpdateSave`; `ActivateLoad`, `ActivateExpire`, `ActivateSave`, `ActivateInsert`
(activateLicense); `DeactivateLoad`, `DeactivateSave` (deactivateLicense, and
removeDevice which calls it); `RevokeLoad`, `RevokeActivations`, `RevokeSave`;
`ValidateLoad`, `ValidateExpire`; `ScanLoad`, `ScanExpire`, `ScanDeactivate`
(checkExpiredLicenses); `Tick`. `Orphaned(p)` decides whether a save throws.

`PUT /licenses/:id` takes an untyped `Partial<CreateLicenseDto>`, which the
ValidationPipe lets through as it is, and assigns all of it to the row. So
`UpdateLoad` may make any row of any other: the status, the limit, the date and
`activatedAt`, one or all of them at once. `Status` therefore has the five values
of `LicenseStatus`, although only an update ever stores `inactive` or `suspended`.
Left out of the body: columns that no handler reads, an `id`, the relations
`activations` and `policies`, and values that Postgres refuses; `maxDevices` is one
of `Limits`, a set of natural numbers, and the date one of `Dates`.

`LicenseContract` is the abstract specification: issue, activate, remove, expire,
revoke, one step each, and two for an update: it is asked for (`Ask`), and later
granted or dropped (`Grant`, `Drop`). `asked` says which ones are waited for, so that
a status or a limit that nobody asked for is not the contract's. `Licensing!Contract`
is the refinement mapping.

### Streaming (`streaming.service.ts`, `drm.service.ts`, `signed-url.service.ts`), with Licensing

`Streaming` extends `Licensing`: every step is one of Licensing or one of a
viewer's request. `Watch` finds a license valid; `WatchFreely` needs none: that is
`getStreamConfig` for the creator of the content or an administrator, and
`GET drm/signed-url/:contentId`, which asks for the permission `content:read` alone.
`SignUrl` signs when the row of the content has come, `ViewerCrash` is a replica that
dies between the two.
`until[l]` is the time up to which some URL signed for license `l` is good; both
ways of signing (Cloudinary's and the local one) count from the moment of signing.

### Sessions (`auth.service.ts`, with user and admin)

One account, because accounts share no rows. `user` is its row: status,
password, whether a usable verification and a usable reset token are stored.
`session[s]` is a login session in the order of creation; `parent[s]` the
session whose token was exchanged for it; `opener[s]` the password of the login
it descends from (the last two are history variables: no guard reads them).
A session past `expiresAt` is `lapsed` and still `isActive`, as in the code,
until a refresh meets it.

Actions: `Register`, `CreateOrgAdmin`, `VerifyLoad`, `ActivateLoad`,
`UpdateLoad`, `ForgotLoad` with the common save `SaveUser`; `ResetLoad`,
`SuspendLoad`, `DeactivateLoad` with `SaveLocked` and then `LogoutAll`;
`LogoutAllLoad`; `LoginLoad`, `LoginCount`, `LoginOldest`, `LoginEvict`,
`LoginInsert` and `SaveUser` (lastLoginAt); `RefreshLoad`, `RefreshUser`,
`RefreshRotate`, `RefreshInsert`; `LogoutLoad`, `RevokeSessionLoad` with
`EndSession`, which is also how a refresh ends a lapsed session; `Lapse`.

`SessionContract` is the abstract specification: a session opens only for an
active account and within the limit, ended sessions stay ended, a token is
exchanged once at most. `Sessions!Contract` is the mapping.

### ContentPipeline (`content.service.ts` and the three processors)

One content item: its row (status, the file it points to, its version number),
`content_versions` with its unique index, and its jobs. `queue[t]` counts the jobs
of a kind that wait. Requests load the row with its versions, hence may be
`Orphaned`; jobs load the row alone, hence never are. `PublishLost` is `publish`
when the queue is away, `JobThrows` a statement of a job that throws: the thumbnail
processor swallows that, the upload and transcode processors mark the item FAILED
first (`FailJob`). `Crash` is a dead worker whose job is delivered again, or not
when its retries are used up.

### ContentKeys (`key-management.service.ts`, `encryption.service.ts`)

The keys of one content item. A key is a row: `state[k]`, its version
`number[k]`; `files` are the keys some file was encrypted with. `storeKey` is
three statements, `Deactivate`, `ReadLatest`, `Insert`, run by `RotateKey` and by
`EncryptContent` when no key is active, or when reading it failed for whatever
reason (`RetrieveThrows`: the code's catch block does not tell the difference).

### Provisioning (`organization.service.ts`, `rbac.service.ts`, `user.controller.ts`, `database/seeds`)

Who may do what. `orgs`, `member` (an account's organization), `name` and `perms`
of the roles and `grants` (`user_roles`) are the tables; a request holds the role
it resolved (`found`), the rows it has yet to delete (`left`) and the account it
loaded (`loaded`). Eleven kinds of requests run over shared statements, as the
services call each other: `FindOrg`, `InsertOrg`, `FindUser`, `InsertUser`,
`LoadUser`, `SaveUser`, `RoleByName`, `ListRoles`, `RemoveListed`, `AssignRole`,
`AssignExisting`, `AssignInsert`, `DeleteGrant`, `PermsRole`, `PermsDelete`,
`PermsInsert`, `FindRole`, `InsertRole`, `LoadRole`, `SaveRole`, `RemoveRole`, and
the steps `Seed...` of the seeding command. `Admitted(k)` is RbacGuard. Foreign keys
with ON DELETE CASCADE and unique indexes are in the steps that meet them.
History: `since[p]` are the rows inserted since the request of `p` began, by
whomever, and `alone[p]` says that no other request ran at the same time.

### TokenClient (`api/client.ts`, `context/AuthContext.tsx`)

Tabs of one browser. `stored` is the pair of tokens in localStorage; `alive` and
`fresh` are the pairs whose refresh and access token the backend takes. `tab[t]` has
the user shown, `isRefreshing`, the token presented and the answer to it, a logout
under way; `call[t][c]` what became of a call: sent, denied (its 401 is on the way),
leading the refresh, queued for it. Actions follow the interceptor: `Ask`, `Deny`,
`GiveUp` (a second 401), `Queue`, `Expired` (no token to present), `Lead`,
`Exchange` (the backend), `Refreshed`, `RefreshRefused`, `RefreshLost`, and
AuthContext: `Load`, `Login`, `Logout`, `LoggedOut`. `ServeLogout`, `ExpireAccess`
and `EndSession` are the backend's doing, which Sessions models statement by
statement.

### Console and its pages (`App.tsx`, `pages/*.tsx`, their forms)

`Console` has the routes, who is signed in and which page is mounted; the modules
`UsersPage`, `LicensesPage`, `ContentPage`, `AuditPage` and `ReportPages` (overview,
revenue, system) are instantiated in it over the same four variables, because one
page is mounted at a time: `ui` its hooks, `net` its requests in flight, `timer` its
pending timeouts, `server` the rows of the backend it is about. `Calls` has what
pages share: sending, serving and answering a request, and what a table and a drawer
promise. An action is one event of React's loop: a click with everything its handler
does up to the first `await`, an answer with what follows it, a timeout. `Serve` is
the backend, at any time between a request and its answer.

What one would not expect is modelled as it is. A listing of the backend has
accounts without a role, and both the search and the edit form of the users page
call `role.toLowerCase()`: that throws while React renders and unmounts the console
(`Crashed`). Filters of licenses and content are in upper case, the enums of the
database in lower case, so a filtered listing is refused. A failed upload, issue or
status change is shown as if it had worked.

## 4. The runs

Two handlers are enough for every race between two requests, which is what the
code's read-then-write windows are about; symmetry is used only in runs without
liveness, over sets no property tells apart. Deadlock is checked in every run.

| Run | Instance | States | Shows |
|---|---|---|---|
| `LicensingRaces` | 1 license, 3 devices, limit 1, 2 handlers, clock 0..1, date 0 or never | 2 230 700 | `OvershootBounded`, `RemovedStaysRemoved`, `EndedUntilAsked`, `RevokedUntilAsked` in every interleaving |
| `LicensingSerial` | 1 license, 2 devices, limits 1 and 2, **1 handler**, 1 viewer | 471 222 | handlers that do not overlap implement `LicenseContract`, crashes included; `ExpiryNoticed`; `NothingSignedAfterEnd` |
| `LicensingDeviceLimit` | as Races, 2 devices | violation | `DeviceLimit` |
| `SessionsRaces` | 2 handlers, 2 passwords, limit 1, 2 sessions | 1 353 346 | `ExchangedTokenIsOver`, `DeadTokenStaysDead`, `LockHolds`, `OldPasswordShutOut` |
| `SessionsSerial` | **1 handler**, limit 2, 4 sessions | 38 552 | handlers that do not overlap implement `SessionContract` |
| `ContentRaces` | 2 handlers or workers, 3 files, 2 jobs per queue | 3 037 559 | `FilesNumbered`, `StatusSettles` |
| `ContentStuck` | 2 files, without failures | violation | `ProcessingMeansWork` |
| `ContentKeysRaces` | 2 handlers, 5 keys | 104 428 | `ActiveBounded`, `VersionsDense`, `SharingBounded` |
| `ContentKeysReadable` | **1 handler**, 2 keys, no failures | violation | `FilesReadable` |
| `ProvisioningRaces` | 2 handlers, 3 requests, 2 accounts, 1 organization, 3 roles, 2 permissions, seeded or empty | 279 782 | `AbsentRolesGrantNothing`, `NothingOlderSurvives`, `ErrorGrantsNothing`, `AloneAsAsked` |
| `TokenTabs` | 2 tabs, 3 calls under way, 2 pairs | 1 193 394 | `QueueHasLeader`, `SpentOnce`, `LogoutIsFinal` |
| `ConsoleRaces` | 4 operators (by role, by the permission of the overview, of one page, of none), 2 requests in flight, 1 timer of a kind | 1 338 143 | `TableIsAsked`, `PanelIsAsked`, `OnlyClosingFormsLeaveCalls`, `DeactivatedForGood`, `DocumentHiddenWithoutFocus`, `SimulationAnnounced`, `LinksLead` |

Every run that passes also checks a type invariant, `SessionsSerial` apart, whose
model `SessionsRaces` has with more handlers.

**What the properties say.**

* `OvershootBounded`: racing activations exceed the limit, but by fewer devices
  than there are handlers. One license, one seat and three devices show the
  excess and its bound.
* `RemovedStaysRemoved`: a device taken off never counts again, because the
  insert of an activation meets the unique index on (license, device). With it
  goes a surprise the model makes plain: a user who removes a device can never
  put it back.
* `EndedUntilAsked`, `RevokedUntilAsked`: stale saves do bring expired and revoked
  licenses back, and so does an update that names a status. The properties state
  what remains true: once every handler in flight has seen the end (`Over`),
  nothing undoes it and no device is added, until an update *begins* whose body asks
  for another status (`Asks`). The predicate `Holds` says which handlers are
  harmless; the mutants (an activation that does not look at the status, a scan that
  selects by date only) show that it is not vacuous. A scan writes EXPIRED to every
  id it selected, so `RevokedUntilAsked` also has to name the scans in flight.
* `NothingSignedAfterEnd`: and from then on, once the requests that found the
  license valid were answered, no URL is signed for it, until such an update. A
  request that stands between the two awaits does sign after a revocation: hence
  the condition. URLs that are signed without a license go on being signed; the
  property does not speak of them.
* `ExpiryNoticed`: an overdue license does not stay ACTIVE: a scan or a request
  expires it, or an update gives it another date or status.
* `ExchangedTokenIsOver`, `DeadTokenStaysDead`: an exchanged token is refused from
  then on, and nothing revives a session that was ended once the refreshes that
  found it active are done.
* `LockHolds`: a locked account that everyone in flight saw locked opens no
  session until an administrator, or an unused e-mail verification link, makes it
  ACTIVE. The second way out is a property of the code that the model exposed.
* `OldPasswordShutOut`: the same for a password that was replaced, through every
  chain of token exchanges.
* `FilesNumbered`: two uploads of a version number the same row, and requests and
  jobs write old file names back; still no file is recorded under two numbers, and
  the item never has a recorded file with another's number. What does happen is
  that a file of the loser is recorded nowhere.
* `StatusSettles`: once no job or request in flight can change it, an item
  that is published, archived or failed changes by a new version or an
  archive request only.
* `ActiveBounded`, `VersionsDense`, `SharingBounded`: how far the keys go wrong
  when calls of `storeKey` overlap or die.
* `AbsentRolesGrantNothing`: a role may be deleted while a request is about to
  grant it, fill it or save it again; the foreign keys and TypeORM's update that
  matches nothing leave no row behind.
* `NothingOlderSurvives`: a replacement of an account's roles or of a role's
  permissions deletes what it listed and inserts, in several statements. Whatever
  runs beside it, when it answers, what was there before it began is gone; only
  rows that others inserted meanwhile may be mixed in.
* `AloneAsAsked`, `ErrorGrantsNothing`: what a request has done when nothing ran
  beside it, on a database that earlier requests left in any state, half-made
  organizations and accounts without roles included. An error may have taken
  permissions away half way; it has given none.
* `QueueHasLeader`: a call waits for a refresh only while its tab runs one; none
  waits for ever for a refresh that is over.
* `SpentOnce`: however many calls are refused, and however late they hear of it, a
  tab does not present a token whose exchange it was answered. Where the answer
  is lost the old pair stays stored, and another tab may present that.
* `LogoutIsFinal`: after a logout with no refresh under way, no late 401 brings
  tokens back. (With one under way it can, and the condition says so.)
* `TableIsAsked`: the rows of a table are those the backend gave for one page number
  or filter, or those of the demo list, never of both, whatever listings, acts and
  failures came in between (a row the page made up itself aside). When no listing is
  under way, that page number or filter is the one selected, unless listings were
  mixed: sent while another was under way, or by a function of an earlier render
  (`ui.mixed`). The demo list, which stands in for a listing that failed, is the same
  whatever the filter (`ui.shown = None`).
* `PanelIsAsked`: a drawer, preview or inspector shows details of its own row or none,
  unless it was opened while the details of another row were under way. The code has
  no guard against either mix.
* `OnlyClosingFormsLeaveCalls`: a request outlives the opening of its form, and shows
  its error in the next one, only if the form was already about to close when it was
  sent: fading out after Cancel, or within 1.5 s of an earlier success.
* `DeactivatedForGood`: an account that the server, the row on the screen and every
  answer under way have as deactivated stays so, whatever the operator does.
* `DocumentHiddenWithoutFocus`: a protected document is not shown while the window
  has no focus, whatever order blur, focus, answers and clicks come in.
* `SimulationAnnounced`: on the revenue and the system page the banner is up while
  figures that were made up are shown, unless a load is under way, which takes the
  banner down first and leaves the figures. (The overview has no banner.)
* `LinksLead`: three tables say who may see what; they agree, so that no link of the
  sidebar and no redirect of `ProtectedRoute` leads to where one is redirected again.
  `LoginPage` goes back to the page that sent there (`SignIn`), which whoever signs in
  may not visit; that way is not one of these.

**Refinement.** With one handler, requests follow each other but still crash in
the middle. `Spec` then implements the contract: the statements' order leaves no
half-done request outside it (a revocation takes the devices off first, so a
revoked license never has one; an eviction comes before the insert). With two
handlers neither contract is implemented, as `LicensingDeviceLimit` shows for the
one; for the other, two refreshes may both find the session active.

**Bounds.** `MaxTime`, `MaxIssued`, `MaxFile`, `MaxQueued`, `MaxKey`,
`MaxRequests`, `MaxPairs`, `MaxBusy`, `MaxNet` and `MaxTimer` bound a clock,
sessions opened, files, waiting jobs, keys, requests served, token pairs, calls under
way, requests of a page in flight and timeouts. They are guards: at the bound the
action that would pass it waits. `MaxTime = 1` and the date 0 give
licenses that are still good, that have run out, and that never do: the code compares
a date to the clock with `<` only. Two
sessions make an exchange. Three files make two racing uploads over an earlier one.
`MaxKey = 5` lets two handlers share a version more than once. Three requests make
two that race on what a third left. Two pairs make one exchange in each order with a
login. Two requests in flight make answers that overtake each other.

**Fairness.** Only `LicensingSerial` needs any. `Fairness` has `WF(Proceed(p))`,
because Node runs the continuation of an `await` once its statement answers; a
crash is a step of the handler that ends it, so nothing is assumed of a handler
that died. `SF` of `ScanLoad` and of `ScanExpire` states that a daily cron starts
scans for ever and that one of them gets through: the job runs in a worker that
waits for no request, each scan may fail (it is only logged) but not all of them
do. Without `SF(ScanExpire)` the property is false, as it should be.

## 5. The proofs

The theorems hold for every number of handlers, workers, tabs, licenses, devices,
sessions, passwords, keys, files, roles, accounts, calls, operators, rows and search
terms, every limit and every bound. The assumptions are those the modules declare by
name: the sets that are counted (`Proc`, `Device`, ...) are finite and not empty, limits
and bounds are natural numbers (`MaxNet` at least 2, because the overview loads with
three requests and the bound is `MaxNet + 1`), the null values are none of the real
ones, and in the dashboard the ids of the demo list are not those of accounts. TLC
evaluates all of them on the instances of the runs.

Every safety property and every action property that a passing run checks is a
theorem: the run shows it on a small instance, the theorem for all.

| Module | Theorem | Proves |
|---|---|---|
| `LicensingProofs` | `TypeCorrect` | `Spec => [](TypeOK /\ HandlerOK)` |
| | `OvershootTheorem` | `Spec => []OvershootBounded` |
| | `EndedTheorem`, `RevocationTheorem`, `RemovedTheorem` | `EndedUntilAsked`, `RevokedUntilAsked`, `RemovedStaysRemoved` |
| | `ContractTheorem` | with one handler, `Spec => ImplementsContract` |
| | `StreamTypeCorrect`, `NothingSignedTheorem` | of Streaming: `StreamTypeOK`, `NothingSignedAfterEnd` |
| `SessionsProofs` | `TypeCorrect`, `ExchangedTheorem` | `TypeOK`, `ExchangedTokenIsOver` |
| | `DeadTheorem`, `LockTheorem`, `PasswordTheorem` | `DeadTokenStaysDead`, `LockHolds`, `OldPasswordShutOut` |
| | `ExchangesTheorem` | `Spec => []ExchangesBounded`: a token has no more successors than there are handlers |
| | `ContractTheorem` | with one handler, `Spec => ImplementsContract` |
| `ContentPipelineProofs` | `TypeCorrect`, `NumberedTheorem`, `SettlesTheorem` | `TypeOK`, `FilesNumbered`, `StatusSettles` |
| `ContentKeysProofs` | `TypeCorrect`, `ActiveTheorem`, `DenseTheorem`, `SharingTheorem` | `TypeOK`, `ActiveBounded`, `VersionsDense`, `SharingBounded` |
| `ProvisioningProofs` | `TypeCorrect`, `AbsentTheorem`, `NothingOlderTheorem` | `TypeOK`, `AbsentRolesGrantNothing`, `NothingOlderSurvives` |
| | `ErrorTheorem`, `AloneTheorem` | `ErrorGrantsNothing`, `AloneAsAsked` |
| `TokenClientProofs` | `TypeCorrect`, `QueueTheorem`, `SpentTheorem`, `LogoutTheorem` | `TypeOK`, `QueueHasLeader`, `SpentOnce`, `LogoutIsFinal` |
| `PagesProofs` | (lemmas only) | what every step of a page but that of users preserves |
| `ConsoleProofs` | `TypeCorrect`, `LinksTheorem` | `TypeOK`, `LinksLead` |
| | `TableTheorem`, `PanelTheorem` | `TableIsAsked`, `PanelIsAsked` |
| | `ClosingFormsTheorem`, `DeactivatedTheorem` | `OnlyClosingFormsLeaveCalls`, `DeactivatedForGood` |
| | `HiddenTheorem`, `SimulationTheorem` | `DocumentHiddenWithoutFocus`, `SimulationAnnounced` |

**Licensing.** `IndInv == TypeOK /\ HandlerOK`. Types alone are not inductive: a
save writes what `req[p]` holds, so one must know that a handler at a save holds
a row, at an insert a device, and in a scan existing licenses (`HandlerOK`). For
the overshoot, `Room(l)` counts the devices *and* the handlers admitted but not
yet inserted, against the highest limit plus the handlers: whoever passes the
check saw fewer devices than the limit, and at most all the other handlers were
admitted with it. `SeatStep` sorts all steps into three kinds (takes no seat,
admits, turns an admission into a device) and `RoomStep` treats these. For the
action properties, `LicenseWrites` lists the two ways in which a row changes, and
`HoldersStep` shows that no step makes a handler hold what was before, but one that
begins an update that asks for it.

**The contracts.** With one handler (`OneAtATime`), what it holds between two awaits
is what the tables say, with its own change; that is `CurrentOK` for licenses and
`Served` for sessions: the device about to be inserted is new and has a seat, the
token about to be exchanged has no successor yet, the account is still active, a
license about to be revoked has no device left. Each kind of write is then a step of
the contract or none (the lemmas named `...Allowed`), and each action one of these
writes that keeps `CurrentOK` or `Served`. With two handlers these are the facts
that fail.

**Streaming.** A step of `StreamSpec` is one of Licensing or leaves its variables
alone, so what was proved of Licensing holds. `Ended` means that no handler can bring
the license back until an update asks: no request finds it valid from then on, and
where none that did is left (`StreamsOver`), none signs.

**Sessions.** `IndInv == TypeOK /\ HandlerOK /\ ExchangedTokenIsOver`, where
`HandlerOK` says among others that a refresh about to insert has ended its
session. `SessionWrites` and `UserWrites` list what steps do to the two tables,
`MovesStep` what a handler holds after any step; each theorem is a case split
over these lists instead of over the 27 actions. `ExchangeRoom` is the counting
argument: successors plus handlers on their way to add one.

**ContentPipeline.** `IndInv == TypeOK /\ ItemOK /\ HandlerOK`. That no file has two
numbers is shown by a numbering: there is a function from files to numbers that the
version rows, the item and everything handlers hold agree with (`NumberInv`), and an
upload extends it at the file it creates. Steps are of two kinds, `Works` and
`Uploads`. For `StatusSettles`, a settled item is one whose handlers are all `Calm`:
each is at a statement, and holds a row, that writes the status the item has.

**ContentKeys.** `IndInv == TypeOK /\ InOrder /\ ReadSomeVersion /\ HasKey`:
keys are stored in order and the version of a key is at most its place, because
it is one more than the version of a key that was already there. `ActiveRoom` and
`VersionRoom` count as above.

**Provisioning.** `IndInv == TypeOK /\ HandlersOK /\ AbsentRolesGrantNothing`. Four ways
to change the two relations (`DropsGrants`, `DropsPerms`, `AddsGrant`, `AddsPerms`) and
the deletion of a role stand for all statements; an insert finds its role (the foreign
key) and a deleted role takes its rows along. `Older(p)` says what a replacement knows
in the middle: a row that is there was inserted since it began or is still on its list
(`left[p]`). `Lone(p)` says what a request knows that nothing runs beside: it has
inserted rows only where it cannot fail any more. For `AloneAsAsked` such a request also
knows what its earlier statements have brought about, and `Knows(p)` says what that is
at each statement: the new account is in its organization and has no role yet, the roles
on the list are all the account has, the default roles left behind have their names and
permissions. That a new account has no role rests on `AccountsOK`, which holds whatever
runs beside what: nobody has a role who has no account, and no handler is about to write
a row that would change that. `KnowsMover` goes through the eleven kinds of requests,
one lemma for each that holds more than one thing (`OrgMover`, `NewUserMover`,
`UserMover`, `SeedsMover`) and one for the rest; a step of any other handler ends being
alone.

**TokenClient.** `IndInv` joins `TypeOK` with: a tab that refreshes has exactly one
leader, one that does not waits for nothing (`LeaderOK`); pairs are issued before they
are stored, presented, answered or spent (`IssuedOK`); a pair that was answered and not
stored yet is nobody else's (`AnswerOK`); no tab finds in localStorage a pair that it
was given another for (`StoredOK`); and after a logout beside no refresh
nothing is stored and no refresh runs, until the next login (`OverOK`).

**The console.** `Inv` says of a route that shows nothing that the page's variables are
blank, and of one that shows a page that `PageInv` holds, the invariant of that page. No
property of a page is inductive as it stands, because it speaks of what is on the screen
and an answer under way will change that. `PageInv` says what is under way:

* `Tabled`: unless listings were mixed, all of those under way ask what the screen asks,
  and one is or its answer is shown, or the demo list. That rows of one question only
  are shown needs no `Tabled`: it is part of the hooks' type (`RowsFit`), and every
  answer under way has such rows only.
* `Paneled`: unless details were mixed, those shown and those under way are of the row
  the panel is about.
* `Formed` (users): a form has one request under way at most, and is `loading` while it
  has; one that was not about to close when its request was sent is still open with no
  timeout pending. `OnlyClosingFormsLeaveCalls` follows.
* `CatalogInv`, `ReportsInv`: the shield is up without focus; the revenue or system page
  that had to make up figures says so.

Requests are answered in any order, so `net` is a sequence from whose middle one is
removed. `Removed`, `Moved` and `Replaced` say where the others go, and each part of the
invariant has lemmas about a request that is sent, served and answered
(`TableReceives`, `PanelAsks`, `FormsChange`, ...), which the steps of all pages share.
`DeactivatedForGood` is the one whose steps are compared one by one: of an account that
is known to be deactivated no row has a button, no request under way is about it
(`Spares`) and no answer shows it alive (`Hides`).

**Only model-checked:** `ExpiryNoticed`, which is liveness under fairness and beyond
the prover, as is `ENABLED`. (The three runs that end in a counterexample refute what they
check, so that there is nothing to prove.) Induction over data, which the prover cannot
do either, is needed by none of the theorems, and no model has a `RECURSIVE` operator.

## 6. Findings

Each is a run that ends in a counterexample to something the repository says.

1. **`DeviceLimit`**: two activations of one license both pass the check of
   `maxDevices` (`license.service.ts:140`) before either inserts.
2. **`ProcessingMeansWork`**: a thumbnail job that loaded the item before it was
   published writes PROCESSING back when it saves; the upload processor even
   publishes the thumbnail job before it saves the item. Nothing will publish it.
3. **`FilesReadable`**: after a key rotation the files encrypted before cannot be
   decrypted, for nothing records which key a file was encrypted with.

Two more ways to go wrong contradict no line of the repository and are stated as
bounds instead: concurrent refreshes may exchange one token several times, but never
more often than there are handlers (`ExchangesTheorem`), and a login or refresh that
read the account before its suspension opens a session after it (the condition of
`LockHolds` names them).

## 7. What is not modelled

* **Contents of things**: ciphers, hashes, tokens' texts, URLs, metadata, e-mail
  texts. A model keeps which key, which password, which session.
* **Access tokens** that outlive their session: JwtStrategy checks the account,
  not the session, by design.
* **In streaming**: content that is text, which needs no URL; no route calls
  `verifyAccessUrl`.
* **In licenses**: of the body of an update, what [section 3](#3-the-models) names;
  finding and listing, which change nothing.
* **In rbac and organization**: `seedDefaultRoles`, which nothing calls; `create` and
  `update` of an organization, one row that no other component reads.
* **In content**: listing and reading; `content_metadata`, which no code writes; the
  default organization that an upload may create.
* **In the dashboard**: `LandingPage` (static), `VerifyEmailPage`, `CreateOrgModal`
  (nothing opens it), banners, single fields of forms, charts. That a failed act is
  shown as if it had succeeded, and that a refresh whose answer is lost logs the user
  out, is in the models; no property claims otherwise.
* **pg-boss itself**: its start and its shutdown.
* **audit, notification, subscription**: every operation is one statement on one
  row or one atomic delete; no two of them can interfere with an invariant. An e-mail
  sent twice is what at-least-once delivery allows.
* **Rate limiting, device-limit and API-key guards, cache and timeout
  interceptors**: the code exists and no route or module attaches it.
* **The encryption and key-rotation queues**: subscribed to, never published to;
  the same service methods are modelled as requests.
* **Health, deployment, storage, request pipeline**: no state of the system.
* **Several accounts, items or licenses at once** in Sessions, ContentPipeline and
  ContentKeys: they share no rows, so one shows every interference. Licensing has
  a set of licenses because the scan writes to several; Provisioning has several
  accounts and roles because its tables relate them.

## 8. The plan

Order: what decides who may watch comes first. *Done*, each with its proofs:
Licensing, its contract and Streaming; Sessions and its contract; ContentPipeline;
ContentKeys; Provisioning; TokenClient; the console and its pages.

Left:

1. An abstract specification of who may do what, of which each request of Provisioning
   is one step when handlers do not overlap: `Fulfilled` states the outcome, and the
   lemmas behind `AloneTheorem` are most of the proof.
2. That `storeKey` without a crash or a second caller keeps exactly one active key, as a
   theorem next to the bounds of ContentKeys.
3. Liveness of the content jobs: an item whose job is delivered in the end leaves
   PROCESSING where no other job or request writes the row.
