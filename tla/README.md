# notion-work-assistant in TLA+

A verification project for the API in `apps/api`, its database, Notion and
priority packages, and the web application in front of it. TLC checks the models
on small instances; TLAPS proves the most important results for every size.
Definitions keep the source's names; `PROJECT.json` maps each of them to the
lines it stands for.

## The system

| Component | Source | State | Operations |
| --- | --- | --- | --- |
| Account tables | `packages/db/src/schema.ts`, repositories | `users`, `external_identities`, `workspaces`, `workspace_memberships` | three queries; one transaction; SQL run by hand |
| Sessions | `auth/session-service.ts`, `session-repository.ts` | rows of `sessions` | create, authenticate, revoke |
| Request handlers | `routes/dashboard.ts`, `routes/session.ts`, logout in `routes/auth-lifecycle.ts` | what a handler holds between two awaits | dashboard, session, logout |
| Sign-in | login and callback in `routes/auth-lifecycle.ts`, `auth/oidc-*.ts`, `auth-cookies.ts` | encrypted attempt cookie, session cookie, cached provider configuration | login, callback |
| Provisioning | `auth/operator-provisioning.ts`, `identity-provisioning-repository.ts` | one open transaction per command | `pnpm auth:provision` |
| Notion reader | `packages/notion` | none kept between calls | discover, validate schemas, read pages, check relations |
| Ranking | `priority-engine`, `dashboard-service.ts` | the workspace's row of `priority_settings`, the clock | load: snapshot, settings, factors, score, level, order |
| Readiness | `packages/db/src/readiness.ts`, `routes/readiness.ts` | the pending probe | ready, health |
| Assembly | `app.ts`, `server.ts`, `client.ts` | server and connection pool | start, stop |
| Web application | `apps/web/src` | one React state | load, sign out |
| Configuration | `auth/oidc-config.ts` | none | parse at start |

Interaction. A browser reaches the API with two cookies. The API is one Node
process: handlers interleave at every `await`, and share the database, the
clock and the provider client. Handlers never lock anything: each statement
reads or writes one committed state. The provisioning command is another
process on the same tables and uses one transaction with an advisory lock.
Operators change `disabled_at`, `revoked_at` and workspaces with SQL.

What is hard: state read before an `await` and used after it (session,
membership, user); logout, expiry and disabling against requests in flight;
writes that commit and are reported as failed; two commands for one identity;
cookie answers that overtake each other between tabs; promises shared by
handlers (discovery, readiness); pages edited while they are read; a shutdown
with requests and a stalled query under way. `PROJECT.json` lists each of these hazards at its line, with the
properties that watch it.

What makes each component correct:

- Accounts: keys and foreign keys; provisioning is atomic and reactivates nothing.
- Sessions: a row keeps owner and expiry, a revocation is final.
- Handlers: data only after an instant at which the session was open and its
  owner enabled, followed by one at which the membership was active; every
  request is answered.
- Sign-in: an attempt opens at most one session, in time, for the browser that
  began it, and none once that browser was given a newer one; every navigation ends.
- Notion reader: a snapshot shows every page nobody edits meanwhile exactly as
  it is, or the read fails; a read fails for a missing client only if one is.
- Readiness: a positive answer rests on an answer the database gave after the
  request had arrived; one query at a time, however many requests give up on it;
  every readiness request is answered, also when the database is silent.
- Ranking: the score is the weighted sum to the nearest point, under weights that
  were stored; who is at least as urgent is not ranked below for it; only an
  unusable date (due or created) or failed settings fail a dashboard that was read.
- Server: the pool outlives the requests and is ended once; exit code 0 means an
  orderly end; a process that signs people in can sign them out.
- Web: a page that said "signed out" shows nothing of a signed-in user until it is
  loaded again, and says it without a warning only if it is true.

## Modules

| Module | Models | Reads with |
| --- | --- | --- |
| `Accounts` | the four account tables: queries, the provisioning transaction as one step, hand-written SQL | schema and repositories |
| `RequestGate` | dashboard, session, logout and the end of the callback, one action per `await` | routes, session service |
| `AccessPolicy` | abstract: what the API promises about access | - |
| `GateProperties` | properties, inductive invariant and refinement mapping of `RequestGate` | - |
| `IdentityProvisioning` | the provisioning transaction, one action per statement, over `Accounts` | provisioning repository |
| `LoginFlow` | login, provider and callback from several tabs and browsers | login and callback routes, provider client |
| `SignInPolicy` | abstract: what signing in promises | - |
| `NotionSnapshot` | the reader, request by request, against pages that people edit meanwhile | `reader.ts`, `normalize.ts`, `properties.ts` |
| `DashboardRanking` | factors, weighted sum, rounding, level, as operators | `calculate-priority.ts`, `dashboard-service.ts` |
| `DashboardService` | `loadDashboard` await by await, over `DashboardRanking` | `dashboard-service.ts`, `priority-settings-repository.ts` |
| `ServerProcess` | one process from its configuration to its exit, the shared probe, the pool | `server.ts`, `app.ts`, `readiness.ts`, `client.ts`, `oidc-config.ts` |
| `WebApp` | the tabs of one browser against the three routes | `App.tsx`, `api/` |
| `MCGate`, `MCProvisioning`, `MCLogin`, `MCDashboard`, `MCWeb` | instances for TLC | - |
| `AccountsProofs`, `GateProofs`, `ProvisioningProofs`, `LoginProofs`, `NotionProofs`, `DashboardProofs`, `ServerProofs`, `WebProofs` | proofs | - |

How state and actions correspond to the code:

- `Accounts` keeps committed rows as functions. Timestamps matter to the code
  only as NULL or not, so they are statuses. `Provision` is the commit of
  `provisionIdentityAndMembership`. `OperatorSql` is what the columns are there
  for and nothing in `src/` writes. Deleting users is left out: nothing does it.
- `RequestGate` keeps the session rows, the clock, and per request what the
  handler's local variables hold. `Receive*` are the route up to its first
  `await`; `FindSession` is the join; `CheckSession` is the code after it, with
  a clock that may have moved; `HasAccess`, `ListWorkspaces`, `ReadNotion`,
  `ReadSettings`, `RevokeSession`, `FindIdentity`, `FindUser`, `InsertSession`
  are one statement or call each. `DatabaseFails` fails any of them;
  `RevokeSession` and `InsertSession` may also take effect and be reported as
  failed. A Notion read that fails is answered as unavailable or, for an error
  that is not the adapter's, as an internal error. `issued` (tokens sent to browsers) and `loggedOut`, `late` (tokens
  whose logout was answered 204) are history.
- `IdentityProvisioning` keeps per command its position and its uncommitted
  rows. `LockFree` is the advisory lock, `IdentityBusy` and `MembershipBusy`
  are waits for an uncommitted row with the same key, `WaitsForRows` is what
  uncommitted rows make hand-written SQL wait for. `LockOf` is the hash; it is
  arbitrary: in the run two identities collide, in the proofs any may.
  `IdentityBusy` is never met, because two commands for one identity have one
  lock key and the second waits for that; it is there because nothing but the
  lock excludes it.
- `LoginFlow` keeps a cookie jar per browser, a navigation per tab (with the
  handler of its request), attempts with their expiry and code, and the
  provider client's shared promise. A jar is read when a request is sent and
  written when its answer arrives. `Reopen` sends a callback URL again.
  `Restart` takes away what only the process has: the promise and the handlers
  at an `await`; cookies, codes and rows stay. Without it no callback could
  ever wait for discovery, because a login in the same process has been
  through it, and the code's wait there would be modelled in vain.
  createSessionForIdentity is the one step `CreateSession`; its awaits are in
  `RequestGate`. `latest` (the attempt cookie a browser
  was last given) and `stale` (the callback was sent for an older one) are history.

- `NotionSnapshot` keeps the two Notion databases as sequences of pages, a page
  being what the reader tells apart, and the reader's local variables. `Read`
  is one request and the code up to the next; `hidden` says which pages in the
  trash Notion leaves out of an answer. Everything a title, a select, a status,
  a date or a relation can be refused for is the one value `Refused`. `steady`
  and `dangled` are history.

- `DashboardService` keeps the date, the row of settings and `loadDashboard`'s
  local variables; each await is an action, the ranking is one (`BuildDashboard`).
  Dates are day numbers. Sums are exact, in hundredths; where the exact sum is
  half a point the double may fall short of it, and the model lets it round
  either way. `SortedLists` is what `sort` may leave: any list with every
  recommendation once, in the order of the comparison. Tasks with the same terms round the same way. (Computed once with
  the code's own expression for all weights and factors: of 195,622 half-point
  sums 1,440 round down, and no other sum rounds to another integer.) Titles,
  client names and the client list pass through and are left out. `rows`,
  `settingsFailed` and `day` are history.
- `ServerProcess` keeps the process, its requests, `pendingProbe`, the queries
  under way and the pool. `Load` is everything `server.ts` does before it
  listens: `Environments` are classes of variables, `RefusedConfiguration` the
  refusals of `postgres()` and of the parsers, `Provided` the services `buildApp` is given. `AskReadiness`,
  `Deadline` and `SettleProbe` are the race in `readiness.ts`; `Signal`, `Drained`,
  `PoolEnds`, `PoolEndFails` and `Exit` are `shutdown` and the onClose hook.
  Requests other than readiness are taken as one statement: `RequestGate` has
  them in detail. `listened` and `proved` are history.
- `WebApp` keeps per tab the view, the request `load()` awaits and what the
  notices say, per click the call of `logout()`, the browser's cookie and the
  tokens the server accepts. A request is sent, answered and taken in three
  steps. A token known nowhere stands for a new one, so that tokens do not run
  out. `SessionEnds` is all that may end a session from outside.

Operators named as mutants in comments are wrong versions of the definition
after them. Each property is violated when its mutant replaces the definition.

## Runs

| Run | Instance | Shows |
| --- | --- | --- |
| `gate_safety` | 2 requests, 2 tokens, 1 user, 1 workspace, clock 0..1 | `GateInv` (with `TypeOK`), `LoggedOutStaysOut`, `SessionsOnlyClose` |
| `gate_policy` | 2 requests, 1 token, fair | `ImplementsPolicy` under every interleaving of two requests; `EveryRequestIsAnswered` |
| `gate_tenants` | 1 request, 2 identities, 2 users, 2 workspaces, clock 0..2 | `ImplementsPolicy` between tenants |
| `provisioning` | 2 commands, 3 identities of which 2 share a lock key, 2 users, 1 workspace | `ImplementsAccounts`, `ReportsAreTrue`, `NothingIsReactivated`, `LookupsStayTrue`, `ProvisioningInv` |
| `provisioning_waits` | 2 commands, 2 identities that may both be linked to the 1 user, 2 workspaces, fair | `EveryCommandEnds`, `ProvisioningInv` |
| `provisioning_disabled` | 1 command | violates `DisabledAreNotProvisioned` |
| `login_safety` | 2 tabs of one browser, 1 of another, 2 attempts, 2 tokens | `ImplementsSignIn`, `ReplacedAttemptsAreRefused`, `LoginInv` |
| `login_liveness` | 2 tabs, 2 attempts, fair | `EveryNavigationEnds` |
| `notion_snapshot` | 2 client pages, 3 task pages, one row per answer, cap of 2 rows | `SnapshotInv`, `SteadyPagesAreExact`, `RelationErrorsHaveACause` |
| `dashboard` | 2 tasks of every status, 5 due dates, 4 days of creation, 2 rows of weights, 2 days | `DashboardsAreExact`, `UrgentTasksComeFirst`, `WeightsWereStored`, `FailuresHaveACause`, `SumsOnlyGrow`, `ServiceTypeOK` |
| `server` | 3 requests, 2 queries, fair | `ServerInv`, `OneProbeAtATime`, `PoolOutlivesRequests`, `AnswersAreFresh`, `CleanExitsAreClean`, `SignedInCanSignOut`, `EveryReadinessRequestEnds`, `EveryShutdownEnds` |
| `web` | 2 tabs, 2 clicks in one and 1 in the other, 1 token, fair | `WebInv`, `SignedOutIsHonest`, `SignedOutPagesStay`, `NoticesAreShownOnce`, `EveryPageSettles` |

The violation is a disagreement between the code and its texts:

- `provisioning_disabled`: the lookup of an identity takes no row lock. A user
  disabled between it and the commit gets a new membership, although a
  disabled identity is said not to be provisionable. Access stays denied, since
  `authenticate` looks at `disabled_at` every time.

Met while modelling, allowed by the code and contradicted by no text; the
properties are stated so as to admit them:

- Every callback answer clears the attempt cookie, also when it is refused
  because its state belongs to an older attempt. The callback of the current
  attempt, arriving in the same browser after that, then fails as well, and the
  user has to sign in again. `ReplacedAttemptsAreRefused` speaks of the older
  attempt only.
- `statement_timeout` is kept by the database. If that falls silent while a
  handler waits for a statement, the request is not answered, `app.close()`
  waits for it, and a shutdown does not come to `client.end({ timeout: 5 })`; a
  second signal of the same kind still ends the process. `EveryShutdownEnds`
  has the end of these statements as its premise (`StatementsEnd`).
- Tasks are read after the clients and compared with that older list. A client
  created and linked in between makes the whole read fail with "references a
  client page that is unavailable"; a later read succeeds.
  `RelationErrorsHaveACause` says that there is no other cause of this kind.
- "Sign out" stays clickable while a logout is under way. A second, overlapping
  click may go out without the cookie the first has cleared, gets 204, and
  takes away the warning that the first was not confirmed.
- The answer of a logout clears whichever session cookie the browser has by
  then, also one that another tab got meanwhile.
- After a logout that failed or whose outcome is unknown there is no button:
  the user can only reload.
- One task with an unusable date, due or created, even one the ranking excludes,
  fails the whole dashboard.
- Sign-in configured without a database is switched off silently.
- If `client.end()` itself fails, a query that is never answered may keep the
  process up; the deadline of five seconds only covers the other case.

Bounds, and why they are enough. Handlers interact only through a session row,
the account rows and the clock, so two requests show every race between one
handler and another, and a second token the races between logins. Expiry needs
one tick (`SessionDuration` 1), and two to be reached by a session opened after
the first. Two identities, so that there can be two users, and two workspaces
are what mixing them up needs.
Provisioning commands conflict in pairs: over one identity or two with one
lock key, beside a third that has its own (`provisioning`), and over the
memberships of a user that two identities are linked to (`provisioning_waits`).
A command inserts its membership last, so one that waits for a row holds
none the other could wait for, and a circle would have to go through the lock;
two workspaces let the commands meet on the same row or pass each other. Commands for a new user never wait for
rows, and `provisioning_waits` has no second user. For the reader, three tasks over a cap of two rows and a page of one are
the least with which the cap is met in the middle of a list, and two clients
what a task can be moved between; `MaxClients` and `MaxTasks` bound the pages
ever made. Two tasks are what an order needs, and the due dates and ages are
one of each kind (overdue, on the way, beyond the horizon, none, unusable; long
ago, lately, ahead of the server's clock, unusable); one row of weights has a sum that
falls short in doubles, the other puts all weight on one factor; one midnight
(`MaxDay`) is one more than a load can tell apart. Three requests are the
one that starts a probe, one that joins it and one beside it; `MaxQueries` is 2
and never met, by `OneProbeAtATime`. Two tabs of one browser share a cookie, and
two overlapping clicks (`MaxClicks`) are in one of them; one token is enough
because it is new again once it is known nowhere, so that a second one is never
held beside it: two sessions of one browser at once are in `LoginFlow` and
`RequestGate`. `Users` and `Attempts` also bound the ids that can be generated: a
command or login starts only if one is left. `Tokens` bounds logins,
`MaxTime` the clock. Symmetry is used in `gate_safety`, `gate_tenants`,
`provisioning` and `login_safety` only, which check no liveness, over sets whose members the
specifications do not tell apart. Only `server` turns the deadlock check off:
the process exits.

Fairness. `FairSpec` assumes that a handler's pending step settles: Notion
calls by the SDK's timeout (10 s, two retries), statements by
`statement_timeout` (2 s, `client.ts`), which the database keeps as long as it
has not fallen silent. `FairProvisioning` assumes strong fairness of a
command's next statement, because PostgreSQL queues lock requests in order:
one that becomes grantable again and again is granted. `FairLogin` assumes
that handlers, answers and provider discovery settle: provider calls and
navigations have timeouts of their own, the one statement has the database's.
A silent database is the subject of `ServerProcess`: `FairServer` assumes that
the process's timers fire and the shutdown runs on, and nothing of any
statement, the probe's or a request's. `FairWeb` assumes that a request is answered or its
connection fails and that the browser runs the page's callbacks;
`EveryPageSettles` is about users who stop reloading.
Nothing is assumed of users, operators, the clock, or of success.

## Proofs

All results hold for any users, identities, workspaces, tokens, requests,
operators, tabs, clicks, tasks, weights and days. They use these assumptions on
the constants: `NoneAssumption`, `GateAssumption` and `WebAssumption` (NULL and
the special cookies differ from the values, a session lasts at least one tick,
clicks are counted), `LoginAssumption` and `SnapshotAssumption` (a tab has a browser, an attempt
lasts at least one tick, an answer of Notion has at least one row, the special
values differ from the rest), `ServerAssumption` (some query may be under way),
`DatesAssumption` and `ServiceAssumption` (no due date and an unusable one are
no day numbers; ids are finitely many; stored weights have passed the checks of
the table). TLC
evaluates each of them in a run.

- `GateProofs`: `GateInv` is inductive. `LoggedOutStaysOut` alone is not: a
  late request must be known to hold a row that is already revoked
  (`LateRequestsAreStopped`), for which a confirmed logout must be stored
  (`ConfirmedLogoutsAreStored`), tokens sent to browsers must have rows
  (`IssuedTokensHaveRows`), and no callback may insert over a row
  (`TokensAreUnused`). `SessionsOnlyClose` follows from the last.
- `GateProofs` also has `Spec => ImplementsPolicy`. The mapping calls a session open
  while `authenticate` would accept its row, and counts a row on its way to the
  handler as already decided, because time only turns acceptance into refusal.
  What the policy may accept (`InForce`, `MayEnter`) is stated on
  the row, apart from the handlers' `Live`; `AcceptedMayEnter` is where the two
  meet. One step lemma per action shows which abstract step, or none, it is.
- `ProvisioningProofs`: `ProvisioningInv` is inductive, and with it the command
  implements `Accounts`: `Commit` is `Provision`, everything else a stutter or
  hand-written SQL. That needs `FreshIsOwn`, `UncommittedRowsDiffer` and
  `Prepared` (what a command holds stays true until it commits). The lock only
  enters `LookupsStayTrue`, by `OneTransactionPerKey`.
- `LoginProofs`: `LoginInv` is inductive. A step of one tab keeps what the other
  tabs rest on (`Onward`: attempts keep expiry and browser, codes only go
  forward, sessions keep their attempt), so one lemma reduces it to that tab's
  new content, to the jars and to `TabsAreApart`: an attempt on its way to the
  provider is in one tab only, and a redeemed code in one handler only.
  `ReplacedAttemptsAreRefused` follows from it, because a jar that has an
  attempt cookie has the one it was given last.
  `LoginSpec => ImplementsSignIn` then goes action by action. The stage of an
  attempt depends on which handlers hold it, so a step in which handlers go away
  (a refusal, a restart, a failed discovery) is the policy's `GiveUp` or a
  stutter, according to whether another tab still presents the attempt; `Tick`
  may let an attempt lapse that nobody presents.
- `NotionProofs`: `SnapshotInv` is inductive: what an untouched page came to when
  the cursor passed it is what it is now, and nothing is kept of pages behind
  the cursor. `SteadyPagesAreExact` is its last state, with the number of skipped
  rows counted by `FiniteSetTheorems`. `RelationErrorsHaveACause` needs to
  know that a relation points to a page there is (`LinksExist`), that the history
  covers the read from its first request (`DanglingIsSeen`), and that a row read
  with an untouched client in the trash was dangling then (`RowsHaveClients`).
- `ServerProofs`: the safety properties of `ServerProcess` are nearly inductive
  together, and rest on each other. `AnswersAreFresh` needs `OneProbeAtATime`:
  the query that settles is the one the requests joined, because no probe is
  remembered once it has settled. `PoolOutlivesRequests` needs to know where
  requests may still be (`RequestsAreServed`), `CleanExitsAreClean` what a run
  that will exit with 0 has behind it (`GoodRunsCloseThePool`), and
  `SignedInCanSignOut` what the services were chosen from (`ServicesAreLoaded`).
- `DashboardProofs`: factors are in range and monotone, so are their terms, and
  so is rounding even where a half may fall short, because equal sums of ordered
  terms are sums of the same terms. This gives `UrgencyIsKept`, the arithmetic of
  `UrgentTasksComeFirst`, and `SumsOnlyGrow`. `ServiceIInv` carries
  `WeightsWereStored` and `FailuresHaveACause` through the awaits: the row is
  among those seen while the load is under way, and a task with usable dates
  has factors that `calculatePriority` accepts. `ListIInv` adds that a list shown
  ranks the tasks it was built from. As a sorted list has no recommendation twice
  and tasks have different ids, it is as long as the tasks are many
  (`RankedAreAsMany`) and every task has one place in it; `ServiceTypeOK`,
  `DashboardsAreExact` and `UrgentTasksComeFirst` follow.
- `WebProofs`: `WebInv` says what a page shows and waits for; `PageKnows` adds
  what it has been told. An answer "anonymous" or 204 stays true of its token,
  because a token that is handed out is known to no page and no call; and with a
  single click the call under way carries the cookie the page sent last.
  `SignedOutIsHonest` is its consequence; the two action properties follow from
  the same invariant, with `PageIsLeft` for the pages a step does not touch.

Only model-checked: the liveness properties (`EveryRequestIsAnswered`,
`EveryCommandEnds`, `EveryNavigationEnds`, `EveryPageSettles`,
`EveryReadinessRequestEnds`, `EveryShutdownEnds`), which are out of the prover's reach,
and that `SortedLists` is never empty, which would take induction over data:
TLC's deadlock check covers it, since a load without a list could not go on.
Every safety property of a passing run is a theorem.

## Not modelled

- Handlers when the database or provider is not configured (constant 503
  answers), logout without a configured origin.
- Hashing, encryption and token formats: a token is a value, a hash is
  injective, a sealed cookie cannot be forged.
- Duplicate session cookies at login and duplicate attempt cookies: refused
  before anything happens.
- A clock that goes backwards; deletion of users.
- In `NotionSnapshot`: rows reordered by Notion within a query, and requests
  the SDK retries by itself; a caller takes its result before the next edit.
- In `ServerProcess`: a signal before `listen()` has settled, what Fastify does
  inside `close()`, the checks of a single configuration value (a group of
  variables is unset, usable or refused), `GET /health` (a constant answer).
- In `WebApp`: markup and wording, and the first load that StrictMode aborts in
  development.
- The smoke and verification scripts and the test helpers: they keep no state of
  the program.

## Plan

Done, in this order: `Accounts`, `RequestGate` with `AccessPolicy`,
`IdentityProvisioning`, `LoginFlow` with `SignInPolicy`, `NotionSnapshot`,
`DashboardRanking` with `DashboardService`, `ServerProcess`, `WebApp`, and the
proofs above. No component of the program is left, and no safety property of a
run is without its theorem. What remains worth stating and proving:

1. Over two components: the step `CreateSession` of `LoginFlow` against
   `ReceiveCallback` to `InsertSession` of `RequestGate`, which is argued above and
   not checked.
2. Lemmas of wider use: `Rounded` agrees with the nearest integer wherever the
   sum is not half a point; `FindUserByIdentity` is a function of the identity.
