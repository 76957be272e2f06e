# Verification of Conducky

Conducky manages code-of-conduct incidents for events: organizations own
events, people join events with roles, members report incidents, responders
move them through a workflow. This directory holds TLA+ models of the parts of
its backend (`src/backend`) and of a browser tab (`src/frontend`) whose
correctness depends on the order in which things happen, the TLC configurations that check them on small instances, and
TLAPS proofs of what matters most for instances of any size.

## 1. The system

The backend is one Express server (Node, TypeScript) over PostgreSQL through
Prisma. A route calls middleware (authentication, role check), then a service
method, which awaits one database call after another and answers. Node runs the
code between two `await`s without interruption; between them any other request
may run, and the process may die. Most services use no transaction: what they
read first may be out of date when they write. What is modelled of
the backend follows from that. In a browser tab the same holds of the calls it
makes: their answers come in any order, and the user goes on in the meantime.

Paths below are relative to `src/backend/src`, or to `src/frontend` for the tab.

| component | state | operations | what is hard | what makes it correct | module |
|---|---|---|---|---|---|
| Event invite links (`services/invite.service.ts`) | `EventInviteLink` rows: limit, count, expiry, disabled; accounts and roles made through them | create, update, delete a link; redeem it; register with it | check of the limit and increment are far apart; grant and count fail separately; links change under a request | uses counted exactly, limits kept, a refusal leaves no role and no use | `InviteRedemption`, `InviteContract` |
| Unified roles (`services/unified-rbac.service.ts`) | `UserRole` rows; a cache per service instance | `hasEventRole`, `grantRole`, `revokeRole` | each service has its own cache; a fetch in flight while an entry is cleared | no decision on rows older than the TTL | `RoleCache`, `AccessPolicy` |
| Event membership (`services/event.service.ts`, `leaveEvent` of `services/user.service.ts`) | `UserRole` rows of an event | assign, update, remove, leave | count of administrators and revocation are separate; revocations go row by row; failures are ignored | an event keeps an administrator; requests end | `EventMembership` |
| Incidents (`services/incident.service.ts`, `routes/event/incidents.routes.ts`) | `Incident` rows, their comments, tags, files, audit rows | create, change state, update, bulk change and delete | state read before the role check and written after it; three ways around the workflow; foreign keys | history agrees with state, investigations have a responder, evidence stays | `IncidentLifecycle` |
| Accounts (`services/auth.service.ts`, `config/passport.ts`, parts of the invite, user and event services) | `User` rows with a unique address, the first administrator's role | register, social login, register by invite, edit an address, log in | first-user test and grant are separate; handlers disagree on the case of addresses | one first administrator, whoever has an account can log in | `Accounts`, `AccessPolicy` |
| Password reset (`services/auth.service.ts`) | `RateLimitAttempt` and `PasswordResetToken` rows | ask for a reset, reset | limit counted before the attempt is recorded, fails open; token tested before a transaction that does not test it | the limit, single use of tokens, password and token change together | `PasswordReset` |
| Organizations (`services/organization.service.ts`, `createEvent` of `controllers/organization.controller.ts`) | `Organization`, its invite link, its events, `UserRole` rows | add, update and remove members, use the link, create and edit it, create events, delete | grant outside the transaction it is written in; revoke-all then grant; the role comes from the body as it is; events counted before the deletion | one organization role per member, updates keep members, no event is orphaned, the contract of a link | `Organizations`, `InviteContract` |
| Event administration (`utils/rbac.ts`, `services/event.service.ts`) | `Event` rows with unique slugs | create, edit through a slug | the role check and the handler each look the slug up | an event is changed by its administrators | `EventContent` |
| Tags (`services/tag.service.ts`, `updateIncidentTags`, the route that removes one tag) | `Tag`, `IncidentTag` rows | edit tags, set, add and remove them on incidents | look-alike names are tested before the write; removal rewrites the whole list from a read | no tag is lost, applied tags exist | `EventContent` |
| Pictures (logos of events and organizations, avatars) | one row per owner | upload, remove | the old picture is deleted before the new one is stored | an owner with a picture keeps one | `EventContent` |
| System settings (`routes/admin.routes.ts`, `services/logging.service.ts`, `config/passport.ts`) | `SystemSetting` rows; the logger and the OAuth strategies of the process | change settings, restart | rows are written one by one and read again to rebuild; a build can throw after its rows are saved; loads at start run beside requests | what the process uses is what the table holds | `SystemSettings` |
| Session of a tab (`pages/_app.tsx`, `pages/login.tsx`, `components/nav-user.tsx`) | user shown, lists of the sidebar | log in and out, visit; other tabs | answers after a logout or another login; a session that is gone before its user is | the tab shows one user's data | `ClientSession` |
| Favorites of the tabs of a browser (`context/NavigationContext.tsx`) | pages shown as starred in each tab, those in `localStorage` | star and unstar pages, change the user, reload | a delayed save of the whole list; tabs of one user overwrite each other | stored pages are the user's own, and are not lost | `Favorites` |
| Incident list of a tab (`components/incidents/EnhancedIncidentList.tsx`) | filters, page, answers, pins in `localStorage` | filter, page, refresh, move, pin | answers out of order; effects on state of the previous event | what is shown is what was asked | `IncidentListView` |
| Comments, notifications, profiles | one row each | create, edit, delete | nothing beyond the role check | - | not modelled |
| Encryption, email, validation, sessions, CORS, security headers, monitoring, audit viewer | none, or output only | - | - | - | not modelled |
| Rest of the frontend, documentation, generated client, scripts | - | - | - | - | not modelled |

The components meet in the `UserRole` table. Invites, membership, organizations
and registration write it, always through `grantRole` and `revokeRole`, which
swallow their errors and return `false`; incidents, comments and the route
guards read it through `hasEventRole` and its cache. `EventMembership`,
`InviteRedemption` and `Organizations` therefore take a grant as a step that may
return `false`, and
`IncidentLifecycle` takes a role check as a step that may answer from the past,
which is what `RoleCache` shows of it: any answer of a check was the policy's
answer at some time.

`PROJECT.json` lists the components with their sources, every hazard with its
line and the properties that watch it, and for every definition that models code
the lines it was translated from.

## 2. Modelling conventions

* A request is a member of a constant set and runs once. `pc` says which awaited
  call it is at, `arg` or `call` what it was given, and it ends in a state that
  says what was answered: `done` (or `joined`), `refused` (an error the handler
  decided on), `failed` (its `catch`), `lost` (the process died). More calls of
  the same handler are more members.
* A step is one awaited database call with the code that follows it up to the
  next `await`. A `$transaction` is one step. Reads of immutable rows (the event,
  a role's id) and `logAudit` calls that nothing reads are folded into the step
  before them, except where a failure there changes the answer after a write
  (`AuditBulk`, `LogRegistration`, `FindEvent`).
* An awaited call that rejects is an action (`Reject`, `FailCheck`, ...), for
  the steps whose error reaches the handler's `catch`. `grantRole` and
  `revokeRole` catch their own errors, so there a failure is a disjunct.
* `Crash` stops every request; rows stay, caches go.
* In the modules of a tab a step is one event: an answer, a timer or an
  action of the user, with the effects React runs after it. The server handles a
  call when it is sent; its answer arrives at any later time, in any order, or
  the call fails.
* Variables whose comment says *history* are read by properties only.
* A definition marked *Mutant of D* is D with a plausible bug. No
  specification uses it; it is there so that each property can be shown to fail
  when the code is wrong.
* The systems run without a bound on what they do except where one is named:
  `MaxTime` for clocks, `MaxLimit` for the limits administrators choose,
  `MaxEntries` for the entries of one PATCH, `MaxPage` for the pages of a list and
  `MaxCalls` for the calls of a tab in flight when it makes another.
  The modules with requests stop when all have ended, so their runs do not check
  deadlock; a tab never stops, and its runs do.

## 3. The modules

**`InviteContract`** is the abstract specification of a link: a request is
admitted at one instant, while the link is open; an admitted request spends one
use, once, or leaves; the counter moves by the uses spent. **`InviteRedemption`**
is the code: `CreateInvite`, `UpdateInvite`, `DeleteInvite`, expiry, and for a
request `StartRedeem` or `StartRegister` (the row is read and its three tests
made), `CheckMember` or `CheckEmail`, `CreateAccount`, `FindRole`, `GrantRole`,
`CountUse`, `FindEvent`. `FindRole` is the lookup of the link's role after the account
is stored: the foreign key keeps a role that a link names, but the link may be gone
by then, and its role with it; the request is refused and the account stays. `MCInviteRedemption` gives the links their roles. A deleted link
keeps its last count in the model so that `UseCountExact` can speak of it. The
refinement mapping reads off a request's `pc` and writes whether it is idle,
admitted, spent or closed.

**`AccessPolicy`** has the decisions of the role service as functions of a user's
rows. **`RoleCache`** is `hasEventRole` over a cache per instance: `StartCheck`
looks the entry up, `FetchRoles` is the database's answer, `StoreRoles` is the
process resuming and caching it under the time the call began, `Decide` applies
the policy. The fetch and the store are two steps because the database answers
before the process resumes: that is the window in which a clear is undone.
`StartChange`, `WriteChange`, `ClearUserCache` are a grant or a revocation.

**`EventMembership`** is assign, update, remove and leave for one event:
`ReadRoles`, `CountAdmins` (for the two that ask), `RevokeRole` once per row read
and in any order, since the order of the rows is the database's choice,
`GrantRole`.

**`IncidentLifecycle`** has one `Begin` (the reads and checks before the first
write), then `CheckAssignee`, `WriteState` (the transaction of
`updateIncidentState`), `WriteUpdate`, `WriteBulk`, `DeleteBulk`, `AuditBulk`, and
for a submission `CreateRow` and `LinkRow`. `trail` is the state history the
users see: the audit rows that `updateIncidentState` writes. Three of the
five states are enough: only `investigating` and `resolved` have requirements,
and the others behave like `submitted`. `linked` stands for comments, tags and
files, whose foreign keys refuse a delete. `around` remembers which of state and
assignee were last written by a handler that does not check them.

**`Accounts`** takes an address as a mailbox and whether it is written in lower
case. `FindEmail`, `CountUsers`, `CreateAccount`, `GrantAdmin`, `LogRegistration`
and `UpdateEmail` are the awaited calls of the five handlers that make accounts
or write addresses; `LoginAs` is what the local strategy finds. Accounts are
named by the request that makes them.

**`PasswordReset`** is for one account. An ask goes through `StartAsk` (the time is
read, as it is again before each row that gets an expiry: `since`), `CleanAttempts`, `CountAttempts` or `FailOpen`, `FindUser`,
`RecordAttempt`, `SweepTokens`, `CreateToken`, `SendMail`; a reset through
`StartReset`, `ReadToken`, `WritePassword`. An address without an account
records an attempt in the same way and gets no token; it is left out.

**`Organizations`** is one organization. A member change is `CheckMember` or
`ReadRoles`, one `RevokeRole` per row read, `GrantRole`; the link is `ReadLink`,
`CheckMember`, `GrantRole`, `CountUse`, edited by `CreateInviteLink`,
`SetDisabled`, `Expire`; a deletion is `CountEvents`, `DeleteOrganization`; an
event is `CreateEvent`, `StaffEvent`. The routes take the role of a member as the
body has it and grant any role there is, so `Calls` has a role of another scope beside
the two of an organization, which are the only ones the handlers look for
(`IsMember`). `tangled` remembers the users for whom two
requests overlapped or a failure was swallowed, `took` the requests that revoked
something, `late` the events created between a count and its deletion. The link
maps to `InviteContract` as the event links do, by the `pc` of the requests
that use it; the deletion of the organization closes it.

**`SystemSettings`** has the table and what the process built from it: `live`, the
settings of the logger, and `strategy`, the credentials of each OAuth strategy.
Workers are requests and the two loads of a starting server. `ReadLog` reads what
the change is merged into, `SaveLog` writes it, `BuildLogger` rebuilds;
a build may throw for any settings but the defaults (`MayThrow`), after which the rows
stay saved and the old logger stays in use, or at start the default one is.
`WriteSetting` writes the next entry of a PATCH, which reloads the strategies
after the last (`ReadOAuth`, `UseStrategies`). Provider settings may be enabled, off,
or parse to null; the last throw, and the providers after them are not `Reached`. `Restart` kills everything and
starts the loads. `torn` says of which of the two parts an undisturbed reload is
outstanding. The rest of the table is not modelled: nothing else is built from it.

**`EventContent`** joins three small parts with no state in common, whose requests
differ in kind. Slugs: `CheckFree`, `InsertEvent`; `CheckRole` (the event the role
check finds), `Resolve` (the one the handler finds), `CheckNew`, `WriteEvent`.
Tags: `FindTwin`, `InsertTag`; `ReadTag`, `FindName`, `RenameTag`; `DeleteTag`;
on one incident, `ReadIncident`, `Verify`, `Attach`, `Detach`, `ReplaceTags`. Pictures:
`ClearPicture`, `StorePicture`, `RemovePicture`. `astray`, `loose`, `crossed` and
`bare` are the histories that name the exceptions.

**`ClientSession`** is one tab beside others (`OtherTab`). `Restored`, `LookAgain`,
`Rechecked` are the session calls of `_app.tsx`, `Login`, `LoginAnswered`,
`LoggedIn`, `Logout`, `LoggedOut` those of the login page and the menu; `SetUser` is the
change of `UserContext` with the effects that depend on it: the lists are asked for
(`Filled` is their answer). `Logout` sends the call, which ends the session; the user
is shown until `LoggedOut`, when the call is answered or has failed. `loggingOut`
keeps the button disabled in between, for as long as the menu is there.

**`Favorites`** is the tabs of one browser, which share `localStorage`. `ChangeUser`
and `LoseUser` are what `SetUser` and the logout of `ClientSession` mean to the list of
starred pages: it is loaded when there is a user with something stored
(`LoadFavorites`), and stays as it is otherwise. `Star`, `Unstar` and `Reload` are the
user's, `StoreFavorites` is the timer, which writes the whole list unless it is empty, or
is refused by the browser. `behind` has the tabs whose user's pages another tab stored
since they were read, `removed` the pages unstarred in a tab since then.

**`IncidentListView`** has `Fetch`, the call every change of a query makes, in
`SetFilter`, `ClearFilters`, `Turn`, `Refresh` and `Open`; `Answered` and `Failed` take
one of the calls in flight; `Move` goes to another event with the component
kept, so that its effects run on what is still there; `TogglePin` stores the pins
of the place. A list is represented by the query it answers.

The `MC` modules add the symmetry sets and constants that a configuration cannot
express.

## 4. The runs

Each configuration has the name of its run. Passing runs:

| run | question | bounds |
|---|---|---|
| `InviteRedemption` | Does a link keep its contract, whatever overlaps? | 2 requests of either kind, 2 users, 1 link with limits 1, 2 and none |
| `RoleCache` | How old can the rows behind an answer be? | 2 instances, 1 user, an event and an organization role, 2 checks, 1 change, TTL 2 ticks, 3 ticks of time |
| `EventMembership` | How can an event lose its last administrator? Do requests end? | 2 requests of any kind, 2 users, 2 roles |
| `IncidentLifecycle` | Do state, history, assignee and evidence agree? | 2 requests of any kind, 2 incidents, 2 people, 3 states |
| `Accounts` | Who becomes administrator, who can log in? | 3 requests of any kind, 2 mailboxes |
| `Organizations` | Who holds a role in an organization, what does a deletion leave, is its link a link? | 2 requests of any kind, with 3 roles, one of them not an organization's, 1 user and 1 system administrator, limit 0 (none) or 1 |
| `SystemSettings` | Are logger and strategies those the table asks for, and what does a PATCH change? | 2 requests, the 2 loads at start, 2 logging keys, 2 providers with 2 configurations, any two of these four keys written (`TwoWritten`), PATCHes of up to 2 entries, restarts |
| `EventContent` | Do slugs, tags and pictures survive concurrent edits? | 2 requests of any kind, 2 users, 2 events, 3 slugs, 2 tags, 2 names that fold alike, 1 owner |
| `ClientSession` | Whose data does a tab show? Whose stars are stored, and when is one lost? | 2 users; for the session 2 lists, a call is made with at most three others in flight; for the favorites 2 tabs, 2 pages |
| `IncidentListView` | Does a tab show what it asked for? | 2 events and the dashboard, 2 filters, 2 pages, a call is made with at most one other in flight |
| `PasswordReset` | Are the limit, single use and atomicity kept? | 2 asks, 2 resets, limit 1, window 1 tick, lifetime 2 ticks, 3 ticks of time |

`MCClientSession` explores `ClientSession` and `Favorites` in one run, each while the
other rests: they share no variable, and `Favorites` lets users come to a tab and go
in any order, whatever the session allows. A write of the settings touches one row and
the logger and the strategies are read apart, so four keys written at once show no more
than two, which are any of the four: both keys of one PATCH, both providers, or
one of each.

Two requests suffice for a race and its victim; every race found in this code is
between two. Two users let one administrator see another. One user suffices
for the cache, whose entries never meet. The clocks run for longer than the
longest period they measure. Three requests are needed in `Accounts`: one
account to edit or invite from, and two that race. A third slug lets one
event move away and another take its place; two tags suffice for a list that
loses one of them. In a tab two answers in flight are enough to arrive in the
wrong order. Every property but `EveryRequestEnds` is proved for any number of
everything (section 5), so the runs are a check of the statements more than of
the bounds. So is type correctness, which one run checks too: in
`SystemSettings` a plausible bug, registering what is not enabled, breaks it first.

What the passing runs show, property by property:

* `UseCountExact`: increments are neither lost nor doubled. `OverrunOnlyByOverlap`
  (invites): with at most C requests at once, a limit of L is overrun by fewer
  than C uses. `RefusalLeavesOnlyAccount`: a refusal grants and counts nothing, and
  leaves an account only if the link was deleted between the first read of a
  registration and the last. `RolesComeFromInvites`: every role is that of a link its
  holder redeemed.
  `ImplementsContract`: the refinement.
* `BoundedStaleness`: an answer is the policy's for rows the user really had at
  one instant, less than a TTL before the check began or later. It holds in spite
  of the separate caches and of a clear that a fetch undoes, because entries
  are stamped with the time before the fetch. It is the strongest that holds: a
  check on another instance, or after a fetch that was in flight during the
  clear, does answer from revoked rows until the TTL is over.
* `ClearedToRevoke` and `LastAdminGoesByRaceOrUpdate`: the guard of removal and
  leave works for requests that do not overlap; `updateEventUser` has no such
  guard. `EveryRequestEnds`: the loops over rows end although revocations fail.
* `HistoryEndsAtState`, `HistoryBreaksOnlyByRaceOrBypass`, `UnassignedOnlyByBypass`,
  `AssigneeWasResponder`, `EvidenceKeepsIncident`: see the statements in the module;
  each names exactly the handlers and overlaps that may break the plain claim.
* `RivalAdminsOverlapped`, `FirstAccountAdministers`, `LoginReachesAccount`: one
  administrator from registrations that do not overlap; none only if the first
  account was social, or the grant is under way or was lost; an account
  is reached from its address in any spelling unless that was written as typed.
* `OverrunOnlyByOverlap` (reset), `TokenReusedOnlyByOverlap`, `ChangeSpendsToken`:
  the limit on asks is exceeded only by asks let in together or after a failed
  count; a token works twice only for resets that overlap; a changed password has
  spent its token, whatever fails in between.
* `OneOrgRoleUnlessTangled`: whatever roles are asked for, who has both organization
  roles got the second through
  an overlapping request, or because the role service answered `false` for a
  failed lookup or revocation. `UpdatedStaysMember`: between the revocations and the
  grant of an update to an organization role the member has none, but after a
  successful answer that is the work of another request: a removal, an update that
  has not succeeded, or one to a role that makes no member. `OrphanedOnlyByRace`: an event without an organization
  was created between the count and the delete. `ImplementsContract`: the link of
  an organization, which shares no code with that of an event, keeps the same
  contract.
* `LoggerCurrent`, `StrategiesCurrent`: once the workers are idle the process uses
  what the table holds, unless a reload was disturbed, cut short or read nothing
  (a load that fails falls back to defaults), or the build of the logger threw; of the
  strategies this holds up to the first provider whose row is null. A settings PATCH
  that writes a logging row never rebuilds the logger. `PatchKeepsTheRest`: a
  logging PATCH changes what it names, unless another wrote between its read and
  its save, or its read failed, when it resets the rest to the defaults.
* `ChangedByItsAdmins`: the event a handler changes is one its user administers,
  although the role check and the handler look the slug up separately, unless
  the slug moved in between or the lookup failed, after which the role check is
  content with an administrator of any event. `AppliedExist`, `RemovesOneTag`: tags of an incident exist;
  removing one keeps the others unless the list changed after it was read.
  `CaseTwinsOnlyLoose`: names that differ in case come from a rename, which
  compares exactly, or from two creations at once. `PictureKept`: a picture is
  missing only within an upload, or after one that was cut short.
* `ShownHasSession`, `ListsOfUser`: the tab shows the user of the
  session and that user's lists; the exceptions are a logout that waits for its answer,
  another tab, an answer that came after a login or logout, and a user who follows
  another without a logout.
* `StoredIsStarred`: what is stored for a user was starred by that user, except for one
  with nothing stored who came to a tab with pages in it. `ShownIsStored`: after its timer
  a tab shows what is stored, unless another tab of the user has stored since, the
  browser refused, or the list is empty, which is never stored. `StarsLostOnlyBehind`: a
  star is lost from storage, other than by its removal, only when a tab stores that
  another has overtaken, which it does half a second after it is opened even if nothing
  is starred in it.
* `ShownIsAsked`: when nothing is in flight the tab waits for nothing and shows
  what its event, filters and page ask for, unless an answer came after that
  of a later call, or the event changed (which asks for nothing). `PinsOfEvent`: pins
  are stored for the place they are shown on; those of another event get in when
  the tab moves to an event with nothing stored.

One run ends with a counterexample, where the repository says something that
its code does not do (the quotation is in `PROJECT.json`, "findings"):

| run | the claim | what happens |
|---|---|---|
| `AccountsFirstUser` | the first to register is system administrator | granted with scope id `''`, `isSystemAdmin` asks for `'SYSTEM'` |

More claims of the repository fail in the same way. Each is a definition of its
module; adding it to the module's configuration gives the counterexample:

| module | definition | the claim | what happens |
|---|---|---|---|
| `InviteRedemption` | `JoinedMeansMember` (invariant) | whoever is told that they joined has the role | `grantRole` returned `false`, which is ignored |
| `EventMembership` | `KeepsAnAdmin` (property) | the only administrator cannot leave or be removed | two leave at once, both counted two |
| `IncidentLifecycle` | `InvestigatingIsAssigned` (invariant) | investigating means assigned | the bulk change and `updateIncident` set the state without the check |
| `IncidentLifecycle` | `FailedSubmissionStoresNothing` (invariant) | "Failed to submit incident." | the row is stored, and linking its tags or files failed |
| `Accounts` | `OneAccountPerAddress` (invariant) | one account per address | registration by invite keeps capitals; login never finds that account |
| `Organizations` | `OneRowUnlessTangled` (invariant) | "Check if user already has any organization role" (`src/backend/src/services/organization.service.ts:441`), "enum: [org_admin, org_viewer]" (`organization.routes.ts:570`) | the role of the body is not checked: added with a role of another scope, then with one of the organization, a user holds two rows, with no overlap and no failure |
| `SystemSettings` | `DisabledTakesEffect` (invariant) | "Changes take effect immediately without restart" (`src/website/docs/admin-guide/system-configuration.md:128`) | a strategy, once registered, is never unregistered |

The same kind of overlap is behind the exceptions in `OverrunOnlyByOverlap`,
`TokenReusedOnlyByOverlap` and `BoundedStaleness`: a single-use link or reset
token that two overlapping requests present works for both.

Fairness is used by one property. `LiveSpec` of `EventMembership` has weak
fairness of `Work(r)` for each request: an awaited Prisma call settles, with an
answer or an error, and Node then runs the continuation. Nothing is assumed of
which of the two it is, nor that a request ever starts.

## 5. The proofs

TLAPS checks each theorem for all values of the constants, under the named
assumptions of the modules (`InviteAssumptions`, `RoleCacheAssumptions`,
`MembershipAssumptions`, `IncidentAssumptions`, `AccountAssumptions`,
`ResetAssumptions`, `OrganizationsAssumptions`, `ContentAssumptions`,
`SettingsAssumptions`, `SessionAssumptions`, `FavoritesAssumptions`, `ListAssumptions`): sets that
are counted are finite, periods and limits are natural numbers, the value that
stands for nothing (`None`, `Unset`, `NoUser`, `NoOwner`) is no proper value, and the
settings of the logger are saved in a fixed order. The
shape is the same everywhere: `Init => IInv`, `IInv /\ [Next]_vars => IInv'`, and
the property from `IInv`. The inductive invariants were checked by TLC on the
instances of the runs before they were proved. Three proof modules hold the proofs
of two or three components each, which share nothing; the definitions of the smaller
ones have names of their own for that (`SettingsInit`, `SessionNext`, `ListSpec`, ...).

* **`InviteRedemptionProofs`**: `TypeCorrect`, `UseCountCorrect`,
  `OverrunBounded`, `RefusalIsClean`, `RolesAreInvited`, `RefinesContract`.
  `UseCountExact` is not
  inductive: one must know that a request that has not counted has no use among
  its writes (`ProgressInv`) and that nobody is on the way to a link that does not
  exist (`AbsentInv`). The bound on overruns needs `LimitInv`, which adds the
  requests in flight to the count: each was let in below the limit, and `load`
  has grown with them. The refinement is by cases on the steps.
* **`ServerMemoryProofs`**, `RoleCache`: `TypeCorrect`, `StalenessBounded`. The invariant says that
  the rows of an entry were in force at its stamp or later (`EntryInv`), and that
  the rows a check holds are as recent as its progress requires (`RowsInv`).
* **`ServerMemoryProofs`**, `SystemSettings`: `SettingsTypeCorrect`, `LoggerIsCurrent`,
  `StrategiesAreCurrent`, `PatchKeeps`. No lock keeps two writers apart; what holds
  is that two workers in one area know of each other (`SoloInv`), so that what an
  undisturbed one has read is still in the table, the rows it has saved are as it
  saved them, and the ones it was not given are as it read them (`InStep`, whose
  preservation by the steps of all other workers is one lemma, `InStepKept`). Which
  providers are looked at depends on their rows alone (`ReachedSame`). From
  there the process uses what the table holds once its loads have ended and no save
  is half way (`LiveInv`, `StrategyInv`). `SettingsPath` adds what each awaited call was
  given, and that a row holds a value of its key.
* **`EventMembershipProofs`**: `TypeCorrect`, `RemovalIsCleared`, `LastAdminLost`,
  `RevokesSomething`, `NeverGoesBack`.
  A request that counts still has its own administrator row among the ones it
  counts, or has been overtaken (`PathInv`); so a count other than one means
  that somebody else remains.
  The last two are the argument behind `EveryRequestEnds`: a step of a request
  leads to a later phase or takes a role off its list (`Forward`), a step of one
  leaves the others where they are (`RequestMoves`), and no loop waits with an
  empty list (`LoopHasWork`).
* **`IncidentProofs`**, `IncidentLifecycle`: `TypeCorrect`, `HistoryCorrect`, `HistoryBreaks`,
  `InvestigationsAssigned`, `AssigneesCorrect`, `EvidenceKept`. `CheckedInv` carries
  what a handler checked to its later write, `SeenInv` says that what it read is
  still there unless it was overtaken, and `SoundInv` collects the properties.
* **`IncidentProofs`**, `IncidentListView`: `ListTypeCorrect`, `ShownListIsAsked`,
  `PinsBelong`. The call sent last asks for what the tab is on and stands at the end of
  those in flight, until its answer leaves only calls it has overtaken; from then on
  the list is what was asked for, or an answer that came late (`NewestInv`). It needs
  that whoever waits has a call to wait for (`WaitInv`). The pins are inductive as they
  stand.
* **`AccountSessionProofs`**, `Accounts`: `TypeCorrect`, `RivalsOverlapped`, `AdministratorAppointed`,
  `LoginFindsAccount`. Who counted no users counted before any account was there, so
  those who had counted and not yet created are exactly the ones an account
  `met` (`MetInv`); who makes an account without that finds one there already
  (`LateInv`); the unique index keeps spellings apart (`AddressInv`).
* **`AccountSessionProofs`**, `ClientSession`: `SessionTypeCorrect`, `ShownUserHasSession`,
  `ListsBelong`. A change of the user asks for every list anew, so a list
  is of the user shown or marked as astray. That the user shown has the session, or a
  logout in flight that saw it, is inductive as it stands.
* **`AccountSessionProofs`**, `Favorites`: `FavoritesTypeCorrect`, `StarsBelong`,
  `StarsAreStored`, `StarsKept`. What a tab shows of a user is the user's own
  (`OwnInv`), and a tab that was not overtaken lacks of what is stored only what was
  unstarred in it (`LackInv`), so that this is all it drops when it stores.
* **`PasswordResetProofs`**: `TypeCorrect`, `LimitHolds`, `ReuseNeedsOverlap`,
  `ChangeIsPaidFor`. An attempt that still counts has a row that no clean-up has
  taken and every count sees (`RowInv`), and these attempts together with the asks
  let in stay within the bound (`LimitInv`): recording an attempt moves its ask from
  one to the other. Single use rests on `SentInv`: a token a reset has seen is
  not made again, so once spent it stays spent (`SpentInv`).
* **`OrganizationsProofs`**: `TypeCorrect`, `MembersHaveOneRole`, `UpdateKeepsMember`,
  `OrphansCameLate`, `RefinesContract`. `PathInv` says which kinds of request await which
  call. `RoleInv`: where no request for a user has met another or lost a failure,
  one that is about to grant has seen to it that the user has no role. `Taker`
  names whose doing it is that a member has none; the proof
  goes by who made the last change. `EventInv`: while a deletion has counted and not
  deleted, the events there are came late. The refinement adds that a request
  which has not begun has no arguments (`NewInv`).
* **`EventContentProofs`**: `TypeCorrect`, `AdminsChange`, `AppliedTagsExist`,
  `TwinsAreLoose`, `RemovalTakesOne`, `PicturesKept`. Again `PathInv`, then one
  invariant per part: what the role check found still holds when the handler looks
  (`AdminInv`), a name about to be inserted has no twin but loose ones (`TwinInv`), the
  list to be written back is what was read, less one (`ListInv`).

Model-checked only: liveness (`EveryRequestEnds`), which is out of the prover's
reach: its proof would need ENABLED, fairness and induction over the steps left.
What those steps are, and that they only get fewer, is proved.

## 6. The plan

Done: the nine components of the backend above and the three parts of a tab, with
runs and proofs. The order was by consequence: roles
and who holds them, incidents, accounts, then what surrounds them.

Left, models:

1. `IncidentLifecycle` composed with `RoleCache`: an assignment made from a cached
   answer, bounded by the TTL, or whose role is revoked before the write, in place of
   the abstract `CheckAssignee`, which knows users who become responders and none who cease.
2. The comments of a tab (`components/incident-detail/CommentsSection.tsx`): a
   `#comment-` hash in the address takes the user back to the page of that comment on
   every turn of the page, and timers fetch with the state they were set with.
3. Selection and export of the incident list, which act on rows that a later answer
   may have replaced.

Left, proofs: those of the models to come, and of `InviteContract` what its
implementations inherit from it.

## 7. What is left out

* Most of the code: pages, forms, listings and operations on one row behind one
  role check, in the backend and the frontend. They have no state of their own
  and no step between a read and a write; what the models cover is the
  part that has. This is why the mapped share of all lines is small.
* Contents of fields and wording, and which incidents a filter selects: no property
  depends on them.
* Token and code strings: never guessed, so a token is the ask that made it.
* `DatabaseRateLimiter` is instantiated nowhere; the limits in use are those of a
  library.
* Encryption, mail, sessions, validation, what is logged, the rest of the frontend:
  pure, output only, third-party or without a part in the server's decisions.
* The audit row of a bulk change is written after its transaction; the model has
  that step and its failure, but no text promises the row, and no property asks
  for it.
* Isolation: a statement of PostgreSQL is taken as atomic, and the transactions
  modelled as one step are those whose statements all address the rows of one
  incident, bulk request or token by id.
