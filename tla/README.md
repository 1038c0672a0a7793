# Roxabi boilerplate: specifications of the API and its web application

TLA+ specifications of the multi-tenant application under `src/apps`: the API
with its database, queues and caches, the pages of the web application that hold
state next to it, and the scripts of developers that can be broken off half-way.
TLC explores small instances; TLAPS proves what holds for every size.  The
documentation site, the component library and configuration are listed in
`PROJECT.json` and not modelled: they hold no state that several actors write.

## 1. The system

A NestJS application on Fastify keeps everything in one PostgreSQL database
(READ COMMITTED unless a handler asks for `serializable`), uses pg-boss queues
for e-mail, Redis (Upstash) for rate limits, better-auth for sign-in,
organizations and invitations, and an in-process event emitter.  Several
processes may serve the same database.  A handler is sequential, but every
`await` lets the other requests of the process, and every statement lets the
other processes, go on: between two statements of a handler the tables may have
changed, and what it read before may be stale when it is used.  The web
application (TanStack Start) is one more cache: a page shows what it fetched,
sends what its user saw, and neither the session nor the rows wait for it.

| Part | State | Operations | Talks to | What is hard | What makes it correct |
| --- | --- | --- | --- | --- | --- |
| Roles and memberships (`rbac/`, `admin/adminMembers.service.ts`) | `roles`, `role_permissions`, `members.role_id`, the legacy text `members.role` | create, update, delete a role; change the role of a member (two endpoints), remove a member, transfer ownership; seed roles when an organization is created | better-auth (creates organizations, accepts invitations), event emitter | check and write are separate statements; two columns say who owns | an organization keeps an owner and nobody keeps a deleted role, but for named causes; slugs are unique; a removed member is not written again |
| Accounts and organizations: deletion, reactivation, purge (`user/`, `organization/`, `purge/`, admin deletion) | `users.deleted_at`, `delete_scheduled_for`, `organizations.*`, sessions, credentials, API keys | soft-delete with a resolution per owned organization, reactivate, purge now, cron purge, admin delete and restore | event emitter to API keys, soft-delete cache, better-auth | validation outside the transaction; cron works on a snapshot; events only in memory; batch limit | only deleted accounts are anonymized; every expired account is anonymized in the end; an organization that is handed over arrives |
| Soft-delete status cache and guard (`user.service.ts`, `auth/auth.guard.ts`) | one map per process, 60 s; session or key, permissions of a request | fill on miss, invalidate on delete and reactivate; the checks of a request | every table the guard reads | a fill that overlaps a write; other processes; administrators and the cron tell nobody | nobody goes on with more than they had; a cached status is wrong only where the process could not know |
| API keys (`api-key/`) | `api_keys` | create, revoke, validate, revoke all on events | guard, permissions | cascade by in-memory events; scopes outlive permissions | no key does more than its owner may; keys die with the account, unless the listener fails |
| Platform administrators (`admin/adminUsers.*`) | `users.role`, `banned`, `deleted_at` | update, self role change, ban, unban, delete, restore | database | serializable transactions next to plain statements | a superadmin who is not banned remains |
| Organization tree (`admin/adminOrganizations.*`) | `organizations.parent_organization_id` | create, re-parent | database | the depth check and the update are not in one transaction | a forest of depth at most 3 |
| Invitations (`admin/adminInvitations.service.ts`) | `invitations`, unique per organization and address | invite, reuse, revoke | better-auth (accept, decline) | unique-violation path, revoke racing accept | a revoked invitation stays revoked; no invitation to a member |
| Feature flags (`feature-flags/`) | `feature_flags`, one map per process | create, update, delete, isEnabled | database | a fill that overlaps a write; other processes | a process sees its own writes |
| Tenant context (`tenant/`) | per request; role and setting of a pooled connection | resolve the tenant, run a callback in a transaction as `app_user` | pool, session | an archival behind the lookup; a connection that goes back | a callback sees the rows of its own tenant |
| E-mail queue (`queue/`, `email/`) | pg-boss jobs, batches in the workers | enqueue, deliver, retry, dead letter, shut down | provider | crash between send and acknowledge, handlers that were given up, refusals returned as values | every mail taken is settled, none sent more often than tried |
| Rate limiter (`throttler/`) | Redis counters and block keys | increment, block | Redis | several Redis calls per hit, refreshed expiry, outage | at most `limit` requests in any window; refusals have a cause |
| System settings (`system-settings/`, `SettingsCard.tsx`) | `system_settings`, the form | batch update | database | validation and writes without a transaction; a form older than the rows | stored values are valid; only what was edited is sent |
| Cookie consent (`consent/`, `lib/consent/`) | React state, cookie, `consent_records` | choose, sign in, reconcile | each other | answers in any order | page, cookie and record agree once it is quiet |
| Lists of the console (`cursorPagination.util.ts`, `useCursorPagination.ts`, `FilterBar.tsx`, `TreeView.tsx`) | pages, cursor, filters, search box, tree | fetch, load more, filter, act on a row, show the tree | query cache | rows that move between pages; milliseconds against microseconds; answers that overtake | no row twice, none missing but for a cause; rows are those of the filters |
| Forms and dialogs of the console (`routes/admin/`, `components/admin/`) | the row as it was fetched, the form | edit, ban, unban, archive, restore | admin services | the row is written meanwhile | what is written was edited or confirmed |
| Members page (`routes/admin/members.tsx` and its components) | page's organization, rows, invitations | change a role, remove, invite, revoke | active organization of the session | the session moves to another organization | what the server accepts concerns the organization the page showed |
| Active organization (`OrgSwitcher.tsx`, `dashboard.tsx`, `admin/settings.tsx`) | session row, the tab's copy, hoped-for name | switch, rename, delete, reactivate | better-auth, other tabs | calls that overtake, other tabs | what is deleted is the organization of the click, unless the session moved; the tab shows where its requests go |
| Page of API keys (`settings/api-keys/`) | list, dialog with the secret | create, revoke, list | session | answers that overtake, the secret exists once | a secret is lost in the named ways only, no foreign or doubled row |
| Closing the account (`settings/-account-delete.tsx`) | look-up of owned organizations, choices | look, choose, confirm | user service | ownership changes while the user chooses | no owned organization is forgotten |
| Profile (`settings/profile.lazy.tsx`, `user.service.ts`) | `users.first_name`, `last_name`, `name`, the flag of a custom name | load, save, update by other clients | | a read before the write | the display name follows the names or is what somebody gave |
| Navigation (`routeGuards.ts`, `__root.tsx`, `-login-*.ts`) | page, session of the last fetch, way back | navigate, sign in, sign out | better-auth | the session ends between two fetches; a failed fetch looks like a guest | no circle; back to the page that asked |
| Sign-in and mail links (`register.tsx`, `magic-link*`, `reset-password*`, `auth.instance.ts`) | forms, links, session | register, sign in, mail a link, use it | better-auth, queue, other tabs | links used twice or late, errors returned as values, a look-up of the session that fails | a page says what happened; a link silently replaces only a session the page had not seen |
| Theme editor (`design-system/`, `lib/theme*`) | editor, document, `localStorage` | preset, seeds, reset, load | other tabs | three copies of one theme | a reload shows what was shown |
| Scripts (`apps/api/scripts/dbBranch*.ts`, `scripts/renameFiles.ts`, `scripts/fixJsImports.ts`) | databases and `.env`; files and imports | create, drop; rename, repair | psql, git | a command broken off anywhere and run again | "ready" means ready; imports resolve |
| Audit, GDPR export, health, public API v1, configuration, documentation, UI packages | rows written once, or nothing | | | none that a test would not reach | |

## 2. Modules

| Module | Models | Run as part of |
| --- | --- | --- |
| `OrgRoles`, `Ownership` (abstract) | roles, their permissions and memberships of one organization | `MCOrgRoles`, `MCOrgOverlap` |
| `AccountDeletion` | deletion, reactivation, purge of accounts and organizations, and the cron | `MCAccountDeletion`, `MCAccountPages` |
| `Superadmins` | role, ban and deletion of platform administrators | `MCAdministration` |
| `OrgTree` | creation and re-parenting of organizations | `MCAdministration` |
| `Access` | the authentication guard, API keys and the soft-delete status cache | `MCAccess` |
| `EmailQueue`, `Delivery` (abstract) | the way of a mail through both queues | itself |
| `RateLimiter` | counter and block of one tracker in one tier | `MCServices` |
| `Invitations` | invitation, revocation and acceptance in one organization | `MCServices` |
| `FeatureFlags` | the row of one flag and the cache of each process | `MCServices` |
| `TenantContext` | the tenant of a request and the connection it works on | `MCServices` |
| `SystemSettings` | the form of the settings and `batchUpdate` | `MCServices`, itself |
| `Consent` | consent in page, cookie and table | `MCServices` |
| `CursorPagination` | pages of rows and their cursors | `MCServices` |
| `AdminLists` | filters, search box, kept answers and row actions of a list | `MCServices` |
| `OrgTreeView` | the tree of organizations on the page | `MCServices` |
| `AdminForms`, `AdminDialogs` | edit forms and confirmation dialogs of the console | `MCServices` |
| `Navigation` | guards of the routes and the way back after sign-in | `MCServices` |
| `ThemeEditor` | the theme as shown, applied and kept, and its derived colours | `MCServices` |
| `DbBranch` | the database of a branch | `MCServices` |
| `RenameFiles` | the scripts that rename files and repair imports | `MCServices` |
| `ActiveOrganization` | switcher, dashboard and settings page of one tab | `MCAccess` |
| `ApiKeysPage` | the page of API keys | `MCAccess` |
| `AccountClosing` | the dialog that closes an account | `MCAccountPages` |
| `ProfileForm` | names of a user, page and endpoint | `MCAccountPages` |
| `MembersPage` | members and invitations page of an administrator | `MCAccountPages` |
| `MailLinks` | registration, sign-in, reset, and the links they mail | `MCAccountPages` |

The modules meet in the tables.  What one module writes and another only reads
is an unconstrained outside step of the reader: `Access` lets roles change and
their permissions be re-synced at any time (`RoleChanges`, `RoleEdited`, in
detail in `OrgRoles`) and accounts be deleted and restored by administrators
(`AdminWrite`, in detail in `AccountDeletion`); `Superadmins` has the users'
own deletion as `OwnDelete`; `Invitations` has members leave (`OrgRoles`) and
the two statements of deletion and purge that write invitations; the pages have
the other tabs, clients and administrators as steps of their own.  A reader
therefore sees every value the detailed module can write, and some more.

`MCAccess`, `MCAccountPages`, `MCAdministration` and `MCServices` put modules
side by side that share no state: a behaviour works with one of them, chosen at
the start, and the others stay put.  `MCOrgOverlap` is `OrgRoles` alone, with the
requests that may overlap chosen by topic.

### How the code becomes actions

*Requests.*  `req[r]` is one HTTP request in flight: its location `pc`, its
parameters and what it has read into local variables.  `Idle` means no request.
Each awaited SELECT is one action, so that any other step can fall between two
of them.  Under READ COMMITTED nothing of a transaction can be seen before it
commits; so what follows the last read, all writes and the commit, is one
action.  Where an effect outside the database lies between write and commit,
the two are apart: `DeleteInvalidate` drops the cache entry, `DeleteCommit`
makes the deletion visible (`user.service.ts:166-177`), and the row lock held
meanwhile is `RowLocked`.  Where what a write finds matters for one that comes
before the commit, the write is an action too and its locks are held until the
end: `UpdateRoleWrite` and `DeleteRoleReassign` of `OrgRoles`.

*SERIALIZABLE* (`Superadmins`).  All reads of the transaction come from one
snapshot and are one action; write and commit are another, which is disabled
when PostgreSQL would refuse it: the row was changed since the snapshot, or
there is a cycle of two read-write dependencies with a transaction that
committed meanwhile.  Longer cycles, which PostgreSQL refuses too, are let
through: more histories than the database has, never fewer.

*Rows.*  Ids are never reused: a removed member and a deleted role remain as
such, so a request that holds a stale id finds no row.  Conditions a statement
repeats in its WHERE clause are evaluated when it runs.

*Pages.*  A request of a page is sent, read or done on the server, and answered
in three steps; answers come in any order, some not at all.  What React Query
keeps, refetches and drops is as much state of the page as its own `useState`.
Other tabs and other people are steps of the same tables, without pages.

*Time.*  `deleteScheduledFor`, the cookie cache of sessions (five minutes), the
TTL of the status and flag caches (one minute), the expiry of keys, links and
jobs, and the delay of the search box have no clock: the time runs out in an
action that may come at any moment.  Only `RateLimiter` has a clock, `now`,
because its durations are what it is about; `MailLinks` counts the cooldown of a
resend in ticks.

*Ends.*  `ProcessEnds` of `Access` takes the map of the process and its
requests away: transactions that did not commit roll back, events that were not
delivered are lost.  In `AccountDeletion` it ends one request, and `CronEnd`
may end a run of the cron anywhere; `Crash` of `EmailQueue` ends a worker with
its batch; `DbBranch` and `RenameFiles` are broken off between any two steps.  In
the other modules a request that never takes its next step is one whose process
ended.

*History variables* change nothing and are only read by properties: `past`
(what happened to an account), `overtaken` of `OrgRoles` (what changed under a
request that moves members), `overlapped` and `crossed` of `OrgTree` (a write
fell into a walk), `crossed`, `excused`, `doomed`, `held` and `since` of
`Access`, `hits` of `RateLimiter`, `revoked` and `crossed` of `Invitations`,
`crossed` and `excused` of `FeatureFlags`, `steady` of `CursorPagination`,
`listPast`, `keyPast` and `renamePast`, `made`, `aged` and `disturbed` of
`Consent`, `given` and `crossed` of `ProfileForm`, `mixed` of `MembersPage`,
`unaware`, `stuck`, `behind` and `misled` of `ActiveOrganization`, `steady` and
`replaced` of `MailLinks`, `dropped` of `EmailQueue`, `strayed` of `ThemeEditor`, `stale`, `raced`
and `touched` of forms, dialogs and commands, `because` of `MailLinks`.

### The modules one by one

**OrgRoles.**  `slug` and `perms` are `roles` and `role_permissions`; `presence`,
`roleId` and `text` are `members`, the last being the legacy column
`members.role` that better-auth writes.  The four membership requests (role
change by an administrator and by a member, removal, transfer of ownership), the
three role requests, the seeding listener and the accepted invitation are each a
chain of actions named after the statements.  A PATCH that names a role updates
its row first and holds the row's lock until it commits (`RowLocked`); one that
only gives permissions takes no lock.  A deletion moves the members that hold the
role at that moment (`DeleteRoleReassign`), keeps their rows locked
(`MemberLocked`) and deletes the role with its commit.  Any requests overlap, and
any role may be renamed: `updateRole` refuses neither.  `overtaken[r]` records what
changed since request `r` began and matters to it: the owners, the name of Owner,
the member it hands over to, or the role it gives or deletes.  `Ownership` says
what the endpoints promise: owners are appointed, step down while another
remains, or hand over.  `OwnershipPromise` holds every step to it unless Owner has
lost its name or the request that commits was overtaken; `DanglesForCause` does
the same for members who are left with the id of a deleted role.  With
nothing overtaken and nothing renamed both are the promise itself; without these
causes both fail, as `org_last_owner_race` shows for the first.

**AccountDeletion.**  `schedule` summarizes `deleted_at` and
`delete_scheduled_for` (none, pending, due), `anonymized` what the purge
overwrote, `session` the row and its cookie copy; `member` is the row of `members`
with its role, or that there is none, so ownership and membership go together.  A
handover is verified by one statement (`DeleteVerifyTarget`) and written by
another, which finds no row when the target purged its account meanwhile.
`DeleteCommit` applies the
resolutions of the request one after another on a working copy, as the
transaction does.  The cron is one more actor: `CronSelectUsers` takes up to
`Batch` due rows in any order, `CronAnonymize` one of them per transaction, then
the organizations likewise.

**Superadmins.**  `superadmins`, `banned` and `deleted` are the three columns.
Self-demotion, update, ban are transactions; unban, deletion, restoration are
plain statements.  `SuperadminRemains` promises a superadmin who is not banned.
It does not promise one who is not deleted, and neither does the code: deletion
checks the role in one statement and writes in another
(`adminUsers.lifecycle.ts`), and a superadmin may delete the own account.

**OrgTree.**  `parent` is `parent_organization_id`.  The walk up from the wanted
parent (depth and cycle check at once, limited by `MaxIterations`) and the walks
down for the height of a moved subtree take one action per SELECT.  Checks and
write are separate, so `ThreeLevels` is only promised until some request writes
after another write crossed its walk (`overlapped`).

**Access.**  One organization.  `Arrive` is a request with a session or with a
key (kind `act` is any handler that writes nothing the guard reads).  `FindKey`,
`ReadRole`, `ReadGrants`, `CacheHit`/`CacheMiss`/`CacheStore` are the guard in
the order of `canActivate`; `perms` is `session.permissions`.  The handlers
create and revoke keys, delete and reactivate the account.  After a deletion the
listener revokes the keys (`RevokeAllForUser`) or its UPDATE fails
(`RevokeFails`): `emitAsync` swallows the error, and nobody tries again.  `cache[i]` is the
`softDeleteCache` of process `i`.  `workload` is a bound, not state of the
program: how many edits, writes and keys a behaviour may still have, and how
many requests at a time, so that one run can take permissions and cache in
turn.

**EmailQueue.**  `job[q][m]` is the row of pg-boss for mail `m` in queue `q`,
`hand[p][q]` the batch a worker fetched and what is left of it, `late` the
handlers pg-boss gave up and that go on.  A hook enqueues; a worker fetches,
works, completes or fails; an expired job goes back; a job tried too often
becomes a dead letter whose handler reports it.  `Send` ends with a copy or with
none: the client of Resend returns a refusal as a value, at which
`resend.provider.ts:35` does not look, so the job completes (`dropped`).  That of
nodemailer throws (`SendThrows`).  The Resend provider without an API key, which
only writes a line to the log, is left out.  `Delivery` is the promise: a
mail that was taken is handed over at most `MaxCopies` times and settled once, as
completed only after a copy or such a refusal.

**RateLimiter.**  `counter` is the Redis key of a tracker in a tier with its time
of expiry, `block` the key `:blocked`, `call` the requests inside `increment`.
The block check, the pipeline INCR/EXPIRE/TTL (atomic in Redis) and the SET of
the block are round trips, and any of them may fail before or after Redis did its
part (`HandleRedisError`; the tier `global` lets the request pass, the others
answer 503).  Every hit renews the expiry, so the counter counts hits that follow
each other in less than `Ttl`: that is `BurstsCounted`, from which `WindowLimit`
and `RefusedForCause` follow.

**Invitations.**  `invitation[e]` is the row of an address, which is one whatever
its status (`invitations_org_email_unique`); `task` holds the requests, one
action per statement, none of them in a transaction.  Accepting is better-auth's
lookup, update and insert.  `InsertConflict` follows both what the handler wants,
which is to recognise the violation, and what happens when the error comes
wrapped (section 5).

**FeatureFlags.**  `flag` is `feature_flags.enabled`, `entry[i]` the cache of
process `i`.  A read that misses is `FindByKey` and `Store`, a write is its
statement (`Commit`) and `Drop`.  Unlike the status cache, the entry goes after
the commit, and what remains is the read that a write overtakes (`crossed`) and
the other processes.

**TenantContext.**  `request` is what the interceptor found out, `connection` a
pooled connection with what its session and its transaction set.  `Resolve`
looks the organization up and refuses an archived one but for the open routes;
a failed lookup lets the request pass.  `queryAs` is begin, SET LOCAL ROLE,
`set_config` and the callback, each a statement that may fail.

**SystemSettings.**  `form` is what the page fetched and what stands in its
fields, `patch` the request with what it has checked and written so far.
`OtherWrite` is a statement of another administrator.

**Consent.**  A choice is a number; `page`, `cookie` and `records` each hold one,
`posts` and `gets` are requests under way.  `Reconcile` takes the record for page
and cookie, as the provider does after a sign-in.

**CursorPagination.**  `createdAt` has microseconds, the cursor milliseconds
(`Date.toISOString`).  A page is any set of rows the query may return; `cursor`
is made of its last row.  Rows are inserted with earlier times than those on the
screen, and change their status.

**AdminLists.**  `filters` is what the list is asked for with, `searchBox` the
text and the timer that will carry it over, `keptAnswers` and `query` what React
Query has and is fetching per key; an answer is told by when it was read.

**OrgTreeView.**  `treeData` is what the page holds of the table `orgRow`.
`Roots`, `Children` and `Rendered` are `buildTree` and `TreeNodeRow`; `expanded`
starts with the roots and gets the roots of every tree that differs.

**AdminForms, AdminDialogs.**  One administrator and one row.  A form copies the
row when it is mounted and sends every field; a dialog is offered for the row as
it was fetched, and the server looks and writes in two statements.  `stale` and
`raced` are the fields or marks others wrote since.

**Navigation.**  `Redirection(page, session)` is what the guards of a route
answer, in their order; `BeforeLoad` applies it with the session just fetched.
`wanted` is the page that asked for a sign-in (`redirect` of the search
parameters); sign-in through a provider and by link come back elsewhere.

**ActiveOrganization.**  `active` is `activeOrganizationId` of the session, `tab`
the copy of one tab with its list and the name the switcher hopes for, `danger`
the dialog of the danger zone, `calls` what is under way.  A rename carries no
organization; deletion and reactivation do.  The server checks, commits and
answers a deletion in three steps, and the page is loaded anew with the answer, if
it comes.  The dialog keeps the impact of the organization that was clicked
(`danger.of`) while the card under it may get another one: `DeletedAsConfirmed`
says that this needs a session that moved after the click or had moved unseen
(`behind`), and nothing else leads the page to delete what was not clicked.

**MembersPage.**  `sessionClub` is where requests go, `shown` what the page
thinks; rows and roles know only their organization, and a request the
organization shown at the click (`at`).  `WouldAccept` is what the server would
let through at any moment: the row is found in the organization of the session,
or of the URL.  `LandsWhereShown` compares that organization with the one shown;
`mixed` records the ways in which the page itself mixes two, by a list that
arrives late, the list of invitations that is kept under no organization's name,
or a dialog that outlives the change.

**AccountClosing.**  `flow` is the dialog: the list, the look-up of each
organization, the choices.  Ranks and organizations change meanwhile; `excused`
are those the page could not know.

**ProfileForm.**  `page` is the form with its copy of the row, `update` an
`updateProfile` of the page or another client between its SELECT and its UPDATE.

**ApiKeysPage.**  `list` is what the page has put together (`rows` how often a
key is listed), `fetch`, `submissions` and `revocations` what is under way,
`oneTimeKey` the secret that is shown or hidden behind
the error state.  `keyPast.secret` is the fate of each secret: read to the end
("done"), or lost because the answer did not come, because the display was replaced
by that of a creation that was under way with it, or because the page was loaded
anew by the button of the error message.  `SecretKept` says there is no fifth way.

**MailLinks.**  `mailTab` is the tab: its page, what it says, which buttons are
disabled; `asked` are the requests, `sent` the links.  better-auth is external:
it answers, refuses as a value, or does not answer.  `SessionSeen` is what the page
learns of the session: the one there is, or nobody, since a look-up that failed
looks the same (`verify.tsx:114,124,137`); then the link replaces whoever is signed
in.  `SessionKept` names that, and a session that began after the look-up, as the
two ways in which a link does so silently.  That a link works once and expires is
assumed of better-auth.

**ThemeEditor.**  `edits` is the state of the editor, `document` what the page
carries, `kept` what `localStorage` has.  Colours are abstract but for the
derivation: lightness in thousandths and hues in degrees are numbers, with the
clamping and turning of the code.

**DbBranch.**  `database[i]` is which of the steps were done to the database of
issue `i`, `command[w]` the command in worktree `w`.  psql does not report a
failed statement; `lost` says where it did not.

**RenameFiles.**  `named` and `head` are the names in the work tree and in the
last commit, `written[i]` the name an import is written with.  Both scripts know
an import by its stem.

## 3. Runs

| Run | Instance | What it shows |
| --- | --- | --- |
| `org_overlap` | `OrgRoles`: 2 members, 3 default roles and 1 custom one, 2 requests, 2 permissions | in every overlap of membership requests, of one of them with a rename of Owner, or of role requests: `RemovedStaysOut`, `SlugsUnique`, `ResyncUndisturbed`, `OwnershipPromise` (refinement), `DanglesForCause` |
| `org_last_owner_race` (violation) | 2 members, 2 requests | both owners are demoted at once |
| `accounts_overlap` | 2 users, 1 organization, 2 requests, batch 2; 2 companies and 1 colleague; 1 name and 1 client; 2 clubs; 2 addresses, cooldown 1, 2 requests | `AnonymizedForCause`, `ClosingInv`, `ProfileInv`, `MembersInv`, `MailLinkInv` |
| `accounts_due` | 2 users, 1 organization, 1 request of nine kinds, batch 2, fair cron | every due account and organization is anonymized |
| `accounts_backlog` (violation) | 2 users, batch 1 | with more due rows than the batch one can wait for ever |
| `accounts_handover` (violation) | 2 users, 1 organization, 2 requests | the target of a handover purges its account between check and update, and the organization loses its owner |
| `accounts_reactivated` (violation) | 1 user | the cron overwrites an account reactivated after its SELECT |
| `administration` | 3 users, 2 calls; or 4 organizations, 2 requests, 4 hops | `SuperadminRemains`, `SuperadminProtected`, `ThreeLevels`, `RefusedForCause` |
| `access` | 1 user, 2 keys, 2 roles, 2 permissions, 2 processes, 2 requests; or 2 organizations (one at first), 2 names, 2 calls of the tab, 1 step of others; or 2 organizations, 2 keys, 2 submissions or revocations, 1 switch | `NoStaleElevation`, `StaleForCause`, `KeysDieWithAccount`, `NoEscalation`, `OrgPagesInv` |
| `services` | fifteen modules, see below | `WindowLimit`, `RefusedForCause`, `InviteInv`, `FlagInv`, `ListsInv`, `RequestsInv`, `PreferencesInv`, `ConsoleForCause`, `NavInv`, `ScriptsInv` |
| `delivery` | 1 mail, 2 processes, batch 1, 3 retries, 2 of the dead letter, 2 faults, fair workers | `EmailInv`, `EmailPromise` (refinement with liveness) |
| `settings_failure` (violation) | 2 settings | a batch that fails leaves what it wrote before |

The instances of `services`: limit 2 in 2 s, block 3 s, 4 s, 4 hits and 3
overlapping requests; 1 address, 3 requests, 2 rows; 2 processes with 3 calls of
a flag; 3 rows in 2 milliseconds of 2 microseconds, pages of 1; 2 settings; 2
tenants, 2 requests, 2 connections; 1 person, 2 policies, 2 choices; 2 texts in
a form; 5 hops; 2 worktrees and 1 issue; 3 organizations, a tree of at most 2,
1 move; 2 bases, 1 accent, 2 hand-made palettes, 14 lightnesses and 8 hues where
the derivation changes its branch; 5 files with 4 imports; 1 word, 1 option, 1
change of rows, 2 answers kept.

*Why the bounds are enough.*  Two requests show every race of a pair, which is
what each check-then-write of this code can lose; two serializable transactions
next to plain statements are what can form the structure PostgreSQL looks for.
Two members are the least with a last owner; four organizations the least for a
fourth level or for a cycle beside the one moved.  Batch 1 against two due
accounts stands for 100 against more than 100.  One user is enough for `Access`,
where nothing relates two users: another one has rows, entries and keys of its
own.  Two keys let one create the other.  Two processes tell an invalidation at
home from one that does not arrive.  Permissions and the cache are taken in turn
there because the only variable they share is the request; both can still
interleave with key creation.  `org_overlap` takes its requests by topic: the
endpoints of administrators with each other; the deprecated role change with
removal and transfer; one of either with one rename of Owner; deprecated role
changes with creations, deletions and renames of Viewer; role requests with each
other.  What no topic has, a role change of an administrator next to one of the
deprecated endpoint, or next to a deletion, is left to the theorems, which know no
topics.  Its PATCHes come with and without a name, since only the first kind takes
a lock.  Four hits are a full window, one
over it and one that overlaps the first; four seconds let the counter run out
under a block.  Addresses do not meet but in the ids of their rows; two rows let
an address be revoked and invited anew while a third request holds the old id.
A page of one row makes every row the last of a page, so that each millisecond
boundary is met; three rows are one on the screen, one that moves and one that
should come.  Two organizations are what a session can move between, two calls
are one that overtakes the other; that a page of keys comes back to the first of
them is left to the theorem; and two faults end a process twice between a
copy and its acknowledgement.  Of a file name only its stem matters; of five
files two share a stem and are named apart, two share one and are named alike.
Where a theorem covers a property (section 4) the bounds only have to let TLC
meet the interesting cases, which the changed definitions that break each
property (`mutants` of `PROJECT.json`) show it does.

`CHECK_DEADLOCK FALSE` stands where the rows or inputs of the instance run out
(no more members to invite, every account purged, no writes left in a
workload).  The program itself waits for the next request then.
`Administration.cfg` checks for deadlock.

### Fairness

Two modules have any.  In `AccountDeletion` (`FairSpec`, and `DueSpec` of
`MCAccountDeletion`, which leaves purging to the cron) it is for the cron only.
Weak fairness of `CronSelectUsers` is the schedule of the deployment
(`apps/api/vercel.json`), weak fairness of `CronEnd` the time limit of the
platform.  A run may be cut off between any two records, by an exception or by
that limit, so the steps for a record and the selection of organizations are
not continuously enabled; strong fairness of them says that not every run is
cut off just before the same record.  Which due rows a LIMITed SELECT returns
stays open, and is what `accounts_backlog` is about.

In `EmailQueue` (`EmailFairness`) workers poll and handler calls end, pg-boss
returns jobs that are active for too long, and the platform starts a process
that ended.  Nothing is assumed of the provider: it may throw for every mail,
which then ends as a report, or refuse it with a value, which nobody notices and
which ends as completed.  Requests and pages have no fairness: clients may go away.

## 4. Proofs

The theorems below hold for every value of the constants that satisfies the
`ASSUME` of its module: that sets of members, processes or rows are finite where
the code has finitely many, that limits are naturals, that a model value which
stands for "none" is none of the others.  No theorem assumes more.  Every proof of an invariant has the same three parts: the initial states
satisfy it, every step keeps it (one lemma or step for each action, under it one
for each conjunct the action disturbs), and it implies the property that the
runs check.  What had to be added to a property to make it inductive is the
argument why the code is right, so it is told here.

**`OrgRolesProofs`.**  `TypeCorrect`: `TypeOK` says for each kind of request what
it has read where.  `SlugsNeverClash` needs nothing more, because the unique
index is a guard of every write of a slug.  `RemovedMembersStayOut` needs that ids
are not reused and `HeldInv`: what a deletion has moved are rows that still hold
the role, locked, and of one deletion each.  `NamedResyncUndisturbed` adds that the
lock of a role's row has one holder, and that a role somebody updates exists
(`LockInv`).  The two theorems about owners and dangling ids rest on `TrustInv`.
That there is an owner is not inductive by itself: a commit relies on a count
taken some steps before.  So `Trusted(r)` says what request `r` may rely on:
while Owner has its name and nothing of `OwnerCauses` has overtaken `r`, what it
has read of owners is true (`SnapshotHolds`: the target's row says whether it is an
owner, a guard that was passed means another owner, a transfer goes from an owner
to somebody who is not); and unless a role was deleted or given under it, the
roles it refers to are rows and a deletion has moved every holder (`RefsHold`).
A step of one request either keeps what another relies on or overtakes it
(`OthersTrust`).  Then `OwnersProtected`: every step is one of `Ownership`, for any
overlap, or has a named cause; and `DanglingHasCause`.

**`AccountProofs`.**  `AccountsInvariant`: what may still overwrite an account,
a schedule in the table, a request past its check, an entry of the cron's list,
is covered by the account's history (`ScheduleForCause`, `CronForCause`,
`Founded`); so `OverwrittenForCause`.  The pages next to it:
`MembersLandWhereShown` (a list of another organization than its key names, a row
or a dialog of another one than the page shows came there in a way that `mixed`
records, and so did what a request carries: `RolesTraced`, `ListTraced`,
`DialogsTraced`, `AskTraced`),
`NameStaysInSync` (an update that nobody
overtook still knows its row, `ReadIsCurrent`), `NoOrganizationForgotten` (what
the user owns is in the list, being looked up, or excused, `OwnedAreKnown`, and
choices are not lost, `ChoicesAreKept`), `LinksKeepTheirWord` (who asks has
something to ask with, `WellAsked`; a link is used by one request, `OneLeaves`; the
session is the one the page saw, or it moved or was not found since, `SteadyForCause`).

**`AdministrationProofs`.**  `SnapshotsStay`: a serializable transaction that is
not doomed to fail can trust its snapshot of the superadmins; a write that would
make it untrue dooms it, by the conflict on the row or by the pair of
dependencies.  So `OneRemains`, and the action property `SuperadminsProtected`.
`TreeInvariant` says what a walk through the tree has established at each hop
(`Established`: the chain above the wanted parent, the levels below the moved
organization, what is left to visit), as long as no write crossed it.  Three
lemmas about forests (`MoveKeepsNested`, `RootKeepsNested`, `InsertKeepsNested`)
show that then the write keeps three levels: `StaysThreeLevels`, and
`RefusedOnlyForCause`.

**`AccessProofs`.**  `AccessInvariant` has four parts.  `Knows`: what a request
has read lies within what its user held since it arrived.  `StaleForCause` and
`DroppedBeforeCommit`: a deletion about to commit has left no entry behind that
is not excused, which is what lets the first survive the commit.
`KeysDieWithAccount`: keys that were live at the commit of a deletion belong to a
listener that has yet to run, unless its process ended or its UPDATE failed.
`MoveKeeps` covers the steps that only move a request on,
`WriteKeeps` the writes of `deleted_at`.  The action properties
`StaleElevationNever` and `KeysNeverEscalate` follow.

**`EmailProofs`.**  `MailsKeepTheirAttempts`: the attempts of a job are counted
together by its row, the batch of its worker and the handlers that were given up
(`HandsKept`, `CountKept`), and the two queues agree on which mails are dead
letters (`JobsAgree`); a job completes with a copy or a refusal that came as a
value.  `QueueDelivers`: the steps map to steps of `Delivery`.

**`OrgPagesProofs`.**  `OrgPagesKeepTheirWord`.  For the tab: a call under way
carries what it was sent with, and the tab knows where its session is unless it is
about to look or nothing told it (`CallsKept`, `TabKept`, `HopeKept`); while an
impact is asked for or told, the page shows the organization of the click and of
the session, unless the session moved meanwhile or had moved unseen (`DangerKept`).  For keys: numbers are handed out once, a submission has at most one
key, what is displayed is not lost, and an answer under way is no older than what
was struck out since (`NumberedKeys`, `SubmissionsKept`, `DisplayKept`, `FetchKept`, `StruckKept`).

**`PlatformProofs`.**  `PlatformInvariant` puts nine inductive invariants together
for the specification of `MCServices`: seen from one module, a step of it is a
step of its own or changes nothing.  `TenantStrong`: a connection is used by one
request, and its settings are undone with the transaction because the session's
own are never touched.  `SettingsStrong`: what a patch has written is what it
checked.  `ConsentStrong`, `ThemeStrong`: which of the copies is the newer one.
`NavStrong`: how many redirections each page is from one that lets the visitor
in.  `FormsStrong`, `DialogsStrong`: what was fetched differs from the row only in
what others wrote.  `BranchStrong`: what is done to a database is what the
command has passed, or the steps that report no failure.  `RenameStrong`: which
names an import may have after which files were renamed.  The theorems about
them are `RequestsKeepApart`, `PreferencesApplied`, `GuardsAgree`,
`ConsoleActsForCause` (two action properties) and `ScriptsKeepTheirWord`.

**`ServicesProofs`.**  `LimiterInvariant`: a burst is counted (`BurstsCounted`), so
totals grow along it (`BurstsGrow`), so what is over the limit has an overrun
behind it (`RefusalsForCause`, an action property) and the hits of one window that
are not over it have different totals, all in `1..Limit`, an injection
(`WindowsLimited`).  `InviteInvariant` needs that ids are handed out once
(`IdsHandedOut`): then a row with a revoked id cannot come back, because nobody
inserts an id and updates find none; `MembersInvitedForCause` is part of it.
`FlagInvariant` needs that a read nobody overtook is still true (`ReadIsFresh`).
`ListsShowRows` has three parts.  For pages (`CursorStrong`), every row that has
been listed comes before every row the next page may have, and the cursor is the
last one listed, cut to milliseconds; that such a row exists needs that a finite
set of rows has a last one.  For a list with filters (`ListStrong`), what is kept
or under way under a key is for the filters of that key and as new as what the
page was told.  For the tree (`TreeViewStrong`) the invariant is short, but what
`Rendered` computes is recursive, and the induction theorems of the library
cannot be used, since they take an operator.  Instead each fact about the levels
is shown by the least level that would refute it (`LeastNatural`, from the
well-foundedness of `<`): that there is a function which satisfies the recursion
(`LevelsExist`), that levels only grow and before the last one each shows one more
row (`LevelsGrow`, `LevelsCounted`), hence that as many levels as there are
organizations are enough (`RenderedFacts`), that nothing around a circle is ever
shown (`CirclesHidden`) and everything else is (`CirclesOnly`).

*Only model-checked.*  The two properties of `accounts_due`, that every due
account and organization is anonymized, and the liveness part of `EmailPromise`:
the prover has no rule for fairness and none for ENABLED.  Every other property
of a passing run is a theorem.

*What the proofs corrected.*  `BrokenByStem` of `RenameFiles` was false beyond the
small instance, which had no two files of one stem that are named alike: they are
in it now.  The CASE of `Redirection` overlapped and says now which guard comes
first.  That permissions of a role are never the union of two requests is false
for requests without a name, which take no lock (section 5); `ResyncUndisturbed`
says what holds, on an instance with both kinds.  `Established` did not say that
what is left to visit of a walk down consists of children, and was not inductive.

## 5. What the runs found

1. **An organization can lose its last owner** (`org_last_owner_race`).
   `changeMemberRole` counts owners and writes in one READ COMMITTED transaction
   without a lock, though its comment claims that this prevents the race.
2. **The purge can starve** (`accounts_backlog`).  Anonymized accounts keep
   matching the limited SELECT of the cron.
3. **A reactivated account can be anonymized** (`accounts_reactivated`).  The
   cron does not look at `deleted_at` again.
4. **A handover can be lost** (`accounts_handover`).  The target is verified and
   promoted by two statements; one that purges its account in between has no row
   left, nobody counts the rows of the UPDATE, and the organization stays without an
   owner although `artifacts/specs/201-user-account-management.mdx:108` has the
   ownership transferred before the deletion.
5. **Settings are not written all or none** (`settings_failure`).  `batchUpdate`
   writes row by row, without the transaction of
   `artifacts/specs/270-admin-phase3-system-settings-feature-flags.mdx:354`.

Seen while modelling and visible as an excuse in a property, or while reading and
shown by no run of its own:

*Roles, members, organizations.*

* Two PATCHes of one role that only give permissions, so that neither locks its
  row, can leave the union of both sets.
* `updateRole` does not refuse default roles.  After Viewer is renamed,
  `deleteRole` finds no role of that slug, or another one, and members may keep
  the id of the deleted role, without any overlap, though
  `artifacts/specs/24-rbac.mdx:95` promises that they fall back to Viewer.  After
  Owner is renamed, the guards of the last owner, which compare its slug, protect
  nobody.
* Ownership stands in two columns, `role_id` and the legacy text, and the guards
  read either (`rbacMember.service.ts:60`).
* DELETE and reactivation of an organization check the permission in the active
  organization, so without one they are refused.
* Changing a role or a profile from the menu of the members page calls endpoints
  for superadmins only.
* The key of kept invitations does not name the organization, and the page number
  stays when the organization changes.
* The name the switcher hopes for stays if the next fetch brings the same
  organization; a rename carries no organization; the dialog that shows the
  impact of a deletion can show that of another organization.
* `ensureNoExistingMembership` notes that a race is handled by the constraint of
  the insert path (`adminInvitations.service.ts:81`); that constraint is on
  invitations and knows no members (`MemberInvitedForCause`).
* Unique violations are recognised by the `code` of what is caught
  (`adminInvitations.service.ts:155-158` and others).  drizzle-orm 0.45.1
  (`bun.lock`) wraps driver errors and keeps them as `cause`; then no row is ever
  reused.  `InsertConflict` follows both.

* The walk up from a parent stops after ten hops (`MaxIterations` of `OrgTree`), but
  `getSubtreeDepth` and `getDescendantOrgIds` bound what they return, not how deep
  they go: above a circle of organizations they do not return.

*Accounts.*

* The status cache can go by the old status for a minute after a deletion in the
  same process, because the entry is dropped before the commit; when the UPDATE of
  `apiKey.listener.ts:16-20` fails the keys of a deleted account stay live; administrators
  who delete or restore an account reach no cache and revoke no key, although
  `docs/guides/security.mdx` says keys are revoked; a key inserted after
  `revokeAllForUser` ran stays live.
* The dialog that deletes the account closes and forgets the choices even when a
  transfer has no target; when the look-up of owned organizations fails
  (`fetchOwnedOrgsForUser` returns none) the account is deleted without a choice.
* The page of the profile always sends `fullName`, so every save marks the name as
  customized and no endpoint resets that
  (`artifacts/specs/201-user-account-management.mdx:43-44`); after a load that
  failed it overwrites the avatar with defaults; a new `user` object overwrites
  unsaved edits.
* `executeSelfRoleChange` ends the sessions on any edit of the own row
  (`artifacts/specs/311-self-role-change-sole-owner-guard.mdx:80` says otherwise).
* Resend returns its errors as values and `resend.provider.ts:35` ignores them, so
  such a mail counts as sent.
* The comment at `routeGuards.ts:34-35` and `requireGuest` differ on who is sent
  away; buttons of providers stay disabled after a refusal that was returned; a
  resend at login ignores `{error}`, and the reset page says "sent" for every
  error but 429; registration posts the consent without a session and ignores the
  401; a magic link loses the page that asked.
* A magic link followed while the look-up of the session fails replaces the
  session without the warning (`verify.tsx:124`).
* On the page of API keys two creations that overlap lose the first secret, the
  button of the error state loses the one on display (`index.tsx:57`), and
  the empty state offers creation without `api_keys:write`.  `changeEmail` is not
  enabled in the configuration of better-auth.

*Lists of the console.*  A failed load shows the empty state.  Reset is undone by a
search text still waiting for its timer.  A first load under way while an action on
a row is answered is not repeated.  The tree expands collapsed roots again whenever
its page is rendered, and shows organizations of a circle nowhere; the selector of a
parent is empty beyond 1000 organizations.  The page of feature flags hides its list
when a fetch in the background fails.

*Theme editor.*  `ThemeScript` applies nothing before the first paint.  Hand-made
colours are lost on the page, not in the editor, after any other edit.  The contrast
promised as at least 0.4 by a comment of `theme.ts` is 0.35 to 0.4 for a lightness
between 0.5 and 0.55, and a shifted hue of a chart can meet another seed.  The theme
stays applied on other pages until a full load, two tabs overwrite each other's, and
valid JSON without `config` breaks the page once.

*Scripts.*  A dry run of `renameFiles` exits with 1 whenever something would be
replaced, its verification searches only what was just replaced, and a rerun after a
break never updates imports of files renamed before.  `fixJsImports` after a run
broken off between two files of one stem rewrites imports of the file not moved yet.

*Tools.*  `licenseChecker` takes "(A and B)" in lower case for a choice, may refuse
permitted mixed expressions, and never fails for unknown licences; `mdxChecker`
differs from CommonMark in several kinds of fences; `checkEnvSync` only warns about
gaps of turbo and skips the comparison when it cannot find the schema of vite.

*Limits and configuration.*

* `docs/configuration.mdx` describes limits as requests per window.  The code renews
  the expiry with every hit (`upstashThrottlerStorage.ts:53-54`), so a client that
  never pauses for a whole `Ttl` is refused after `Limit` hits however slow it is.
* The limit of the API tier is never reached with the presets, the global one is
  lower (`artifacts/specs/321-api-key-rate-limiting-spec.mdx:16,33` and `194-public-api-developer-platform.mdx:376` say 100 in 60 s for each key;
  `docs/guides/security.mdx:303` says not wired).  `AuthGuard` refuses before the
  throttler counts, so wrong keys are not counted.  The guard has the path
  `/api/auth/resetPassword`, the docs `/api/auth/reset-password`.
* `RATE_LIMIT_ENABLED` other than `true` switches limits off with a line in the log;
  an empty `RATE_LIMIT_API_*` becomes 0 and refuses every request with a key; an
  unset secret is an insecure default.

## 6. Not modelled, and the plan

Out of the models: the audit log and the GDPR export (rows written once, or only
read), health, configuration and error mapping (stateless), better-auth itself (a
library; what it does to the tables is an external action), the public API v1 (calls
the same services), the documentation site, the component library, the landing page,
the pages of roles and feature flags (their endpoints are modelled), the in-memory
storage of the rate limiter (a library's), which of at most ten keys with the same
last characters is looked at, the revocation of keys with their organization, and the
checkers of licences, documents and environments, which run once and alone. 

Next, in this order:

1. A second look at the theorems: `EmailPromise` as refinement of the complete
   next-state relation of `Delivery` by every step (`QueueDelivers`) is done, its
   fairness is not; what of it can be stated as a step property should be.
2. The revocation of keys with the organization in `Access`, and of invitations
   with the account in `AccountDeletion`, as steps of the modules that have them.
3. `ReleaseChecks`: the checkers of licences, documents and environments as
   functions, against a definition of what they should accept.
4. The dialogs that create users and organizations, and the page of roles.
