# RolloutCtrl in TLA+

RolloutCtrl is a feature-flag server: a NestJS API over PostgreSQL (through
Prisma), Redis as a cache and as the queue of two background workers, a React
front end, and SDK clients that fetch the configuration of one environment and
poll for changes. This directory models the parts of the system where several
requests, caches, workers, tabs or clients meet, checks the models with TLC, and
proves the most important results for every size of the system with TLAPS.

`PROJECT.json` lists the components, the runs with their configurations, the
lines of code each definition stands for, the hazards of the code, the
disagreement shown by a run, and the theorems. Paths below are relative to
`src/src/modules/` unless they start with `docs/`, `prisma/` or `frontend/`.

## Inventory

| Component | State | Operations | What makes it hard | Correct means |
|---|---|---|---|---|
| Configuration sync: `sdk/services/sdk.service.ts`, `access/access.service.ts`, `environment/environment.service.ts` | the `version` column of each environment; two Redis caches (`sdk` without a TTL, `access` with one hour); what each client holds | `getConfig` (both), `getConfigChanges`, `incrementEnvironmentVersion`, `invalidateCacheByProject`, `remove` | a handler commits, increments and invalidates in separate awaited steps, in an order that differs by handler, each of which may fail; readers fill the caches in between; Redis errors are swallowed | a version stands for a content; caches are not left stale; clients reach the last config |
| Feature flags and environments: `feature-flag/feature-flag.service.ts`, `environment/environment.service.ts` | flags, flag-environments | create (one, many), update, delete, configure per environment, archive, favourite; create and remove an environment | an environment is filled with rows after it was created, a flag with rows for environments read before | every change reaches versions and caches; every flag has a row in every environment |
| Strategies: `strategy/strategy.service.ts` | strategies of a flag-environment: priority, default mark, rules, segments, schedule | create, update (moves and copies between environments), delete, reorder, toggle, rule CRUD | checks outside the transaction, READ COMMITTED inside; priorities recomputed from what was read | one default, evaluated last; the order is total and only changed on purpose |
| Strategy variants: `strategy/strategy.service.ts`, `variant/variant.service.ts` | weight and custom mark per strategy and variant | add, add a batch, update, remove, delete the variant; redistribution after each | the sum is checked and the rest spread over rows that other transactions change | custom weights fit into 100, the rest is split equally |
| Segments: `segment/` | segments with rules | create, update, delete, rules | update of versions and caches | as for flags |
| Actions: `action/` | actions with strategies and their priorities | create, update (deletes, changes and adds strategies), delete, reorder | an update decides on strategies read before its transaction and renumbers those it finds inside | the order given by the form is the order stored |
| Organization and users: `organization/organization.service.ts`, `user/user.service.ts` | role and active mark of each user | add, change role, remove, delete own account, transfer ownership | decisions on rows read before the transaction | an active owner remains |
| Evaluation: `access/access.service.ts`, `access/access.utils.ts` | none (a pure function of a config and a context) | `can`, `evaluateFlag` | the rules are those of the published SDK package | the documented order of evaluation |
| Notifications: `notification/` | notification and delivery rows, BullMQ jobs, one unread-count stream per tab | create, notify owners, read, archive, deliver, stream | a row and a job that are not atomic, retries, counts pushed out of order, a stream that subscribes late | every notification is delivered; the last count shown is the right one |
| Metrics: `metrics/`, `sdk/services/sdk.service.ts` | one bucket per day and dimension, jobs | increment, read | find-or-create without a unique index, jobs run more than once | counts are not lost, and doubled no more than jobs are repeated |
| Sessions: `auth/auth.service.ts` | session rows | login, refresh, logout, revoke, expire, limit of five | the limit is enforced in statements of their own; accounts are deleted meanwhile | at most five sessions, none left to a deleted account |
| API keys: `project/services/api-key.service.ts`, `organization/organization.service.ts` | keys, the agent user of an organization, its memberships | create, revoke, delete; removal of the agent user | find-or-create of the agent user; keys created while it is removed | one agent user per organization; a key that lost its user is revoked |
| Projects: `project/services/project.service.ts` | projects, member rows | CRUD, members | little: single statements | |
| Connection pool: `prisma/prisma.service.ts` | ten connections, each taken by one statement or one transaction | every query | three handlers run further statements inside the callback of a transaction, each on a second connection, with row locks held | nobody waits for ever, nothing leaks |
| Access token in the browser: `frontend/src/shared/api/apiClient.ts` and its helpers | the stored token, shared by all tabs; per tab: the refresh in flight and the requests queued behind it; messages between tabs | send, 401, refresh, retry, login, logout | requests of one tab share a refresh; tabs refresh independently and tell each other late | no request is left waiting, none goes round for ever |
| Audit log, MCP tools, guards, throttler, rest of the front end | append-only rows; none; none; a Redis script; UI state | | | |

How they interact: every management handler calls `EnvironmentService` (version)
and `AccessService` (caches) after, or in three handlers during, its own
transaction; `SdkService` and `AccessService` read the same tables and fill the
caches; SDK clients compare the version they hold with the one a poll answers.
The three handlers that make those calls inside a transaction take a second
connection from the pool for each of them. Removing an organization's agent user
and removing an environment both change API keys; deleting an account ends its
sessions. Notifications and metrics go through BullMQ queues in Redis. The front
end's tabs share the stored token and a broadcast channel.

## Plan

Done, in this order: `ConfigSync`; `VariantWeights` and `StrategyOrder`, the
transactions of strategies; `Ownership`; `ConfigFeed`, the abstract promise of
configuration sync, with the refinement; `JobQueue` with `Notifications` and
`Metrics`; `UnreadStream`; `Sessions`; `ConnectionPool`; `TokenRefresh`;
`ActionOrder`; `ApiKeys`; `FlagEnvironments`; proofs for every module.

Left: the renaming of environments against the access cache, which is keyed by
the environment's name; what two overlapping creations of strategies can still be
promised (see Known disagreements), which the theorems about `StrategyOrder` leave
out with their assumption `OneCall`.

## Modules

Several runs check two modules at once: an `MC` module extends one and
instantiates the other beside it, and a behaviour moves one of them while the
other is in its initial state. They share no row that a handler reads, so nothing
is lost by not interleaving them.

### ConfigSync, ConfigFeed (MCConfigSync, ConfigSyncProofs)

State: `db[e][t]` counts the commits that changed what table group `t`
contributes to the config of environment `e`, so a config is its revisions;
`version[e]` is the column; `cache[k][e]` is a Redis key; `held[c]` is the last
config a client was served; `req[c]` is a request in flight; `run[w]` is what a
handler has left to do. `published[e]` is a history variable: the state of `e`
when its version was last incremented.

A handler is a plan, the order of its awaited steps, and what it touches:

| Plan | Handlers |
|---|---|
| commit, bump, list, delete | configureFlagForEnvironment, deleteStrategy, toggleStrategyEnable, batchAddVariantsToStrategy, updateStrategyVariant, removeVariantFromStrategy, updateFeatureFlag, variant CRUD, segment CRUD, action CRUD |
| commit, bump | createFeatureFlag, deleteFeatureFlag |
| bump, list, delete, commit | createStrategy, updateStrategy, addVariantToStrategy (the calls are inside the transaction callback, on other connections) |
| commit | createMultipleFeatureFlags, reorderStrategies, strategy and segment rule CRUD, reorderActionStrategies |

`Bump` is one call of `incrementEnvironmentVersion` (any order: the rows come
unordered), `list` and `delete` are the two halves of `invalidateCacheByProject`
(deletes are concurrent and may fail one by one), `HandlerFails` is a throw or a
stop at any await. `GetHit`, `GetMiss`, `ReadEnvironment`, `ReadTable` and
`StoreConfig` are the read-through of `getConfig`; a config is read by several
queries (Prisma loads relations separately), so it may be torn. `PollVersion`
and `PollAnswer` are `getConfigChanges`, which prefers the cached version.

`ConfigFeed` is what a client may rely on, without handlers, caches, requests or
failures: contents change, versions are published, and a client is served some
content under a version, old perhaps, but under the current version nothing older
than what that version was published with. `ConfigSync` implements it with
`content <- db` and `floor <- published`: a commit is a `Change`, an increment a
`Publish`, the end of a client's request a `Serve`, and every other step stutters.

Runs:

- `versions` (two writers, two environments, every plan, removal of an
  environment, a Redis whose calls fail at will): `VersionCoversCommits`, that
  nobody stores, holds or assembles under the current version anything older
  than what the version was given out for. This is the ground polling stands on
  and it survives every order of steps.
- `commit_first`: `CurrentVersionIsCurrentConfig`, the converse: with handlers
  that commit first, a config whose version is current is current, except while
  a handler is between its commit and its increment. And `FeedSpec`, the
  refinement.
- `access_ttl`: `AccessConverges` with every handler, failing ones included.
- `stale_early_commit`: what the code does against what docs/sdk.md says.

Bounds: `MaxWrites` handler calls in a behaviour (two; the hazards need at most
two overlapping), one client, one or two table groups (two are enough for a torn
read), one or two environments (two are enough for a handler that increments one
and not yet the other). Writers are symmetric.

Fairness (`FairSpec`): each handler that was accepted and each client keeps
running (the event loop runs what is ready; a client polls on a timer), and
TTLs elapse. Nothing makes anybody call a handler, no call of Redis is assumed
to succeed, and failing handlers are not prevented; `MaxWrites` makes changes
stop, which is what "in the end" refers to. `access_ttl` needs no other
assumption because `Expire` does not depend on the handlers.

### FlagEnvironments (MCFlags, FlagsProofs)

State: the flags and whether they are archived, the environments, the pairs that
have a row, and the creations in flight. `CreateEnvironment`, `ListFlags` and
`SyncFlags` are the three statements of creating an environment;
`CreateFeatureFlags` reads the environments, `CommitFlags` is the transaction.
`gap` is a history variable: the pairs that a step could have given a row and did
not. `MissingRowsAreKnown`: a row is missing only if its environment is still
being filled, or for one of four reasons, each at its step: the filling failed, or
named a flag deleted meanwhile (one statement for all flags: none gets a row); the
flag was archived when the environment listed the flags; the flag was created with
environments read before this one was there, and committed after it had listed the
flags.

Run `flags`: three flags (one to be there, one to be deleted, one created in
between), two environments of which one comes with the project, two creations.

### VariantWeights (MCFlags, FlagsProofs)

State: `sv[v]`, the committed row of variant `v` in one strategy, and `tx[t]`,
the transaction of request `t`: what it wrote, the redistribution it has still
to do, and which rows others removed meanwhile. Statements see what is committed
plus their own writes; `Free` is a row lock. `Check`, `Write`, `ReadRows`,
`Spread` and `Commit` are the statements of `addVariantToStrategy` and its
siblings; a batch repeats them per item.

Run `flags` (two overlapping requests, two variants, batches of two, a
`Total` of 5 so that halves leave a rounding and two given weights of 3 do not
fit): `RepairsWhenAlone`, whatever overlaps left, the next request that runs
alone splits the weights correctly, and `FitsWhenAlone`, from weights in order a
request alone leaves custom weights that fit. The second is not obvious: a
variant switched to a custom weight without giving one keeps its share
unchecked, and it still fits only because of the redistribution before it.
`Total` stands for 100: only divisibility and sums matter. What a transaction
remembers of rows that go (`gone`, `deleted`) is kept only while it can still
matter (`RowsAhead`, `InsertsAhead`), which keeps the state space small. Two
requests are enough to leave weights in any state of disorder (sums above and
below `Total`, several custom weights) before the one that runs alone.

### StrategyOrder (MCFlags, FlagsProofs)

State: `strat`, the strategies ever created (ids are never used again), and
`req[r]`, a call of `createStrategy` or `updateStrategy`: its default check, the
row it moves, the environments it has still to write, what it read of the
present one. `DeleteStrategy` and `ReorderStrategies` are one statement or one
batch, and wait for rows that a call has written; a reordering names any of the
strategies, of several environments too, as the handler does not check it. Which number
is evaluated first is for the SDK package, outside the repository: the service lists
highest first, and so says docs/strategies.md:33.

Run `order`: two environments, three strategies, one priority that a request may
give, one request of `createStrategy` or `updateStrategy` at a time next to
deletions and reorderings at any moment. `CreateKeepsOrder`: whatever ties and
gaps moves, copies, given priorities, deletions and partial reorderings left,
creating a strategy swaps no two that exist. `CreatedInPlace`: its number is above
those of all others, or below them if it is a default strategy, although it is
computed from what was read before; a reordering that commits inside
the call, or a priority given by the request, is what the two leave out. Two
overlapping creations may both get the same highest priority, so one request is
where the properties hold; the next section names what two do.

### ActionOrder (MCProject, ApiKeysProofs)

State: `row[s]`, the priority of strategy `s` of one action, and `tx[r]`, a call of
`updateAction`: what it read before its transaction, what the form gives, and the
rows as the transaction sees them. The transaction deletes, changes and adds, then
lists all strategies it sees and numbers them n-1 to 0. A request of the edit form
carries the action's own fields (`own`): Prisma then updates the action's row first, and
that row's lock serialises these transactions. A request with strategies only, which
`update-action.dto.ts` and the MCP tool `update_action` (`mcp/tools/action-mutation.tools.ts`)
allow, has an update without data, which Prisma leaves out: only the strategies it
writes are locked (`Locked`), and those that another wrote are waited for.

Run `project`: three strategies, two calls with or without the action's own fields, one
priority level that a request may give besides none, any number of new strategies, next
to reorderings of any part and the deletion of the action. `UpdateKeepsGivenOrder`: the
strategies of a request end in the order it gives them, with the action locked or not.
`UpdateLeavesCompact`: the priorities are n-1 .. 0, although the call decided on
strategies that others changed before its transaction began, unless the transaction
itself overlapped another and one of the two had not locked the action (`met`, a history
variable). That exception is real: see Known disagreements.

### Ownership (MCOwnership, OwnershipProofs)

State: `user[u]`, role and active mark, and `req[r]`, a call that decided and
will write, or that refuses. The decision and the transaction are two steps,
as in the code. `OwnerCount` is what `organization.count` computes: organizations
with this id that have an active owner, so zero or one.

Run `owners` (every handler, one call at a time): `OwnerLostOnlyByTransfer`, the
one way out being a transfer to a deactivated user. With one call at a time no role changes
between decision and write: the property is about the guards, and Known disagreements
says what two calls do. Three people and an agent: a behaviour needs two owners and one
more user.

### Sessions (MCOwnership, OwnershipProofs)

State: `newer[id]`, for each session of one user those used more recently (the order
of `lastUsedAt`, most recent first; the limit keeps those with few newer ones), which
of them were logged out or expired, whether the account is active, and the calls of `login` and
`refresh` in flight, each statement of which is a step. `DeleteUser` is the
transaction that deactivates the account and deletes its sessions.

Run `owners`: two logins, one refresh, a limit of 2 for the code's 5 (what matters
is to be at the limit, and to list more than is needed), five ids so that ids never
run out. `LimitExceededByOverlapOnly`: at most by the logins that overlap, less one.
`LeftToInactive`: after the deletion of the account at most one session for each
login in flight. Deadlock is not checked: nothing more happens to a deleted account.

### ApiKeys (MCProject, ApiKeysProofs)

State: the agent users of an organization, their memberships of one project, its
environments and keys, and the calls of `create` and `removeMember` in flight.
Creating an AGENT key looks for an agent user, creates one, upserts its membership
and inserts the key, each in a statement of its own; `removeMember` deletes
memberships, revokes keys and deletes the user in one transaction, which a
membership that was inserted meanwhile makes fail (`Kept`) and a key inserted
meanwhile does not. `late` and `overtaken` are history variables.

Run `project`: two agent users, two keys, one environment, two calls:
`SecondAgentOnlyByOvertaking` and `UnlinkedOnlyByOverlap`. Two calls are what an
overlap needs, two agents what the first property needs to fail.

### JobQueue, Notifications (MCNotifications, NotificationsProofs)

`JobQueue` holds the operators on one BullMQ job: handed out, completed, tried
again after a backoff while attempts are left, taken back when a worker stops or
loses its lock, given up after `MaxStalls` of these. BullMQ is external; the
options are those that `app.module.ts` and the producers set.

State of `Notifications`: `delivery[n][ch]`, `job[n]`, what each caller has still to
add, what each worker has still to do. A caller commits the rows of all recipients,
then adds the jobs one by one and may stop between them; a worker marks the channels
one after the other, any statement may fail, and a job that was taken back may be in
two workers at once.

Run `notifications`: one caller with two recipients, two workers, two channels (one
that is not supported and one that is, in the order that makes the first fail before
the second is sent), three attempts as configured, one stall, three faults (as many
as exhaust the attempts), two stops of workers (the caller stops whenever it likes).
`CompletedLeavesNonePending`,
`CompletedIsDelivered`, and `QueuedIsSettled`: what was queued is delivered or marked
failed, unless statements failed as often as there are attempts or workers were lost
more often than a job may stall. Fairness: workers go on, backoffs end, the check for
stalled jobs runs. Callers owe nothing: they may stop.

### UnreadStream (MCNotifications, NotificationsProofs)

State: the status of one user's notifications, the streams of the open tabs in one
process of the server, the count each shows, and the calls in flight. A call that
creates a notification commits the row, adds the jobs and only then pushes
(`JobAdded`, or `QueueFails`: the call throws and nothing is pushed); a push counts first
and emits when the query has returned. `ChangeElsewhere` is a call in another process:
its push goes to that process's streams. `StaleOnlyByOvertaking`: with no call in flight,
a tab shows a wrong number only if pushes overtook one another, a query failed, a job
could not be added, the change was made in another process, or a push came while the
stream was reading its first count, and no push after it was heard; `latest` is the
history variable that tells. Two notifications, two tabs, two calls in flight: one push
overtakes another, one tab hears what the other does not.

### Metrics (MCMetrics, MetricsProofs)

State: `bucket`, the rows; `job[v]` for each evaluation `v`; what each worker found and
is about to write; `applied[v]`, a history variable: how often `v` was counted by a
transaction that committed. One dimension of each row but the date is fixed: buckets of
others are never found by the query.

Run `metrics`: two workers, two evaluations with counts 1 and 8 (a sum tells which was
counted how often), two attempts for the code's three, two days, two faults, two stops,
and the removal of a row that the buckets refer to: project, flag, its row for the
environment, strategy or variant, each of which takes them along. `NoCountLost`: until
then what is shown is what was committed, also with two buckets for one day.
`CountedOncePerTry`: a repetition has a failure or a stall to it. `BucketPerProcess`: a
day has at most one bucket for each process.

### ConnectionPool (MCConnectionPool, ConnectionPoolProofs)

State: who has each connection, for a statement or transaction (`tx`) or for a
statement inside the callback of its transaction (`inner`), the queue of the pool, who
has the row locks of one flag's strategies, and where each request is. `Expire` is
Prisma's limit on a transaction, `TimeOut` the pool's limit on a wait, which ends the
handler, and `InvalidationGivesUp` the same limit where the handler only logs it.

Run `pool`: three requests, two connections, two inner statements: two transactions hold
both connections and wait for a second, the third waits in line behind them.
`NothingLeaks`; `StallsByInnerOnly`, that the pool stands still only with a second
connection asked for inside a transaction; `RequestsEnd`, that every request ends all
the same. Fairness: the database answers, the pool's timer fires, and a row lock is
granted in turn (strong fairness, since the lock is free and taken again in between).
Nothing is assumed of `Expire`.

### TokenRefresh (MCTokenRefresh, TokenRefreshProofs)

State: the stored token (a number: the how-manieth issued), per tab whether a refresh is
in flight, whether the page is being left and which messages wait, per request whether it
is on its way, heads a refresh, is queued behind one, or is settled. Code up to the next
`await` is one step. The server answers 401 when it likes: tokens expire. Refreshes and
logins may succeed without end: the tokens after the last of `MaxTokens` numbers look
like it.

Run `tokens`: two tabs, two requests in one and one in the other, two tokens told apart,
two messages per tab. `WaitsForOwnRefresh`, and `RequestsSettle`: a request refused again
and again, each time after a refresh that succeeded, still ends, because a retry is
marked; without the mark TLC finds the endless turn. The only fairness is that a
request is answered or times out, which the client's 30 seconds justify. The refresh
itself is sent without a timeout, so that a request settles is claimed only for
behaviours in which no tab's refresh hangs for ever.

## Known disagreements

The run `stale_early_commit` shows a place where the code does not do what a document
says (`findings` in PROJECT.json). The same models show the following too; they are not
runs of their own. To see one, check the formula with the constants given:

| What happens | Module | Check | With |
|---|---|---|---|
| createFeatureFlag and deleteFeatureFlag increment versions and leave the caches (docs/feature-flags.md:241) | ConfigSync | `CachesInvalidated` | createFeatureFlag |
| reorderStrategies, the rule handlers and createMultipleFeatureFlags invalidate nothing | ConfigSync | `CachesInvalidated` | one of these handlers |
| a config read before a change is stored after the invalidation, in the SDK cache without a TTL | ConfigSync | `CachesInvalidated` | two clients, configureFlagForEnvironment |
| two requests check the sum of the custom weights before either commits | VariantWeights | invariant `CustomsFit(sv)` | two requests |
| any number of variants of a strategy may have a custom weight (docs/variants.md:102 says one) | VariantWeights | at most one in `Customs(sv)` | one request |
| two overlapping additions each give their variant the whole rest | VariantWeights | invariant `SplitEqually(sv)` | two requests |
| two creations both pass the check for a default strategy | StrategyOrder | at most one default strategy in an environment | two requests |
| updateStrategy copies a default strategy into an environment that has one (strategy.service.ts:443; docs/strategies.md:157) | StrategyOrder | at most one default strategy in an environment | one request |
| a strategy's priority: docs/feature-flags.md:35 says lower is evaluated first, docs/strategies.md:33 and :171 highest; createStrategy numbers for the second | StrategyOrder | a new default strategy has a higher number than the others | createStrategy |
| reorderStrategies moves the default strategy above others (the comment at strategy.service.ts:122) | StrategyOrder | a default strategy has a smaller priority than the others of its environment | createStrategy, reorderStrategies |
| the count that guards the last owner counts organizations, and refuses every owner (organization.service.ts:231) | Ownership | `RefusedOnlyLastOwner` | one request |
| ownership is transferred to a deactivated user (organization.service.ts:430) | Ownership | `HasActiveOwner` | one request, deleteUser and transferOwnership |
| two owners delete their accounts at once, each counting the other | Ownership | `HasActiveOwner` | two requests, addUserToOrganization and deleteUser |
| two overlapping creations of AGENT keys make two agent users (the comment at api-key.service.ts:156 says one) | ApiKeys | `Cardinality(agent) <= 1` | two requests |
| all AGENT keys of an organization share one agent user (docs/MCP_GUIDE.md:47 and prisma/schema.prisma:94 read as if each had its own) | ApiKeys | two keys never have the same agent | one request |
| two updates of an action with strategies only give two strategies the same priority | ActionOrder | `[][\A r \in Requests : Commit(r) => Compact(row')]_vars` | two requests |
| a key created while its agent user is removed stays, unrevoked and without user (mcp-auth.guard.ts:60) | ApiKeys | a key of an agent without user is revoked | two requests |
| a flag has no row in an environment created meanwhile (docs/MCP_GUIDE.md:335) | FlagEnvironments | `row = Existing \X env` with no call in flight | two requests |
| overlapping logins leave more than the limit of sessions | Sessions | `Cardinality(Rows) <= MaxPerUser` | two logins |
| a late TOKEN_UPDATED overwrites a newer token | TokenRefresh | `stored` only grows until a logout | two tabs |

Two more were met in reading and change no state modelled here: `revokeByKeyId` of a key
whose environment was removed revokes it, then answers with an error and writes no audit
entry; and a login refused with 401 starts a refresh, whose failure, like any error of a
refresh, logs out every tab.

## Mutants

Each property of a passing run is broken by a slip written next to the
definition it replaces and marked `Slip:` in its module: a dropped reset, an
off-by-one, a swapped order, a sum that leaves out the new weight. They show
that the properties depend on the code they are about.

## What is proved

`ConfigSyncProofs`, from `ConstantsAssumption` only, for any number of
environments, clients, writers and handler calls:

- `TypeCorrect`: `Spec => []TypeOK`.
- `VersionsCoverCommits`: `Spec => []VersionCoversCommits`. The property is
  inductive together with `TypeOK`: a commit only raises `db` and not
  `published`; an increment sets `published` to `db` but leaves every stored
  or pending version behind, so that nothing carries the new one; a read takes
  the version first and the tables later, so what it reads is at least what the
  version published; the caches only ever receive what a request assembled.
- `CurrentVersionsAreCurrent`: `Spec => []CurrentVersionIsCurrentConfig`, under
  the assumption `Orderly`: handlers are among those that commit before they
  increment, and they do not fail. The strengthening, `Debts`, says that
  whenever something under the current version differs from the tables, some
  handler owes that environment an increment; a debt is created by the very
  commit that makes the difference and is paid only by the increment that makes
  the version old. Without `Orderly` it is false: `stale_early_commit`, and a
  handler that stops between the two.

- `ImplementsFeed`: `Spec => FeedSpec`, for every set of handlers, failing ones and a
  failing Redis included. One step per action of `ConfigSync` (`FeedStep`); the two that
  serve a client need `VersionCoversCommits` (`ServeStep`).

`OwnershipProofs`, for any number of users, and of the sessions of an account, from
`AccountAssumption` (a finite set of logins):

- `LostOnlyByTransfer`: if calls run one at a time (`Serial`), `Spec =>
  OwnerLostOnlyByTransfer`. The invariant `Known` adds to the types what each
  pending call knows: a role change or removal is never about an owner, because
  the count is never above one (`LastOwnerAlways`); a deletion of an owner knows
  of a second active owner; a transfer is between two users. A write that fits
  what its call knows then keeps an active owner, unless it is a transfer to a
  user that is not active (`WrittenKeepsOwner`, one case per kind of write).
- `OwnerRemains`: if moreover accounts are not deleted where ownership is
  transferred (`NotBoth`), `Spec => []HasActiveOwner`: without deletions
  everybody present is active (`PresentAreActive`), so the one way out is closed.
  The table above shows that both assumptions are needed.
- `LimitExceeded` (`LimitExceededByOverlapOnly`): a login that is about to insert its
  session has deleted all but `MaxPerUser - 1` of the rows that it listed; what came
  since came from other logins. The invariant (`WithinLimit`) counts, for every set of
  logins that have yet to delete or to insert, the rows that are left if just those
  delete what they listed.
- `LeftByLogins` (`LeftToInactive`): inductive as it stands once the rows are known to
  be finite, because `deleteUser` empties the table and each login inserts one row.
- `TypesCorrect` (`TypesOK`) for both modules. That `newer` stays a strict linear order
  (`InOrder`) is part of it.

`ApiKeysProofs`, from `AgentsAssumption`, for any number of agent users, keys and
calls: `SecondAgentByOvertaking` and `UnlinkedByOverlap`. `Known` adds to the types
and the property three facts about a call: one that found no agent user may act on
that only if there is none or it was overtaken (`FoundNone`); a removal is about an
agent user (`OfAgent`); and whatever key of that user a removal about to delete it has
not revoked was revoked before or came late (`Accounted`). Of `ActionOrder`, from
`ActionAssumption` (finitely many strategies), for any number of calls: `LeavesCompact`
(`UpdateLeavesCompact`) and `KeepsGivenOrder` (`UpdateKeepsGivenOrder`). Here the
invariant (`ActionInv`) says of a call that has begun to write: another writes beside it
only if both are marked as overlapping (`Exclusive`); when it comes to commit, its rows
are numbered without ties, and unless it is marked they are all the rows there are
(`AllNumbered`); and the strategies of its request are in the request's order, first as
given and then as numbered (`GivenIsSeen`, `GivenOrder`). `TypesCorrect` (`TypesOK`) of
both modules has a foreign key in it: a key's user, unless null, exists.

`FlagsProofs`, one module for the three kinds of rows that hang on a flag:

- `MissingRowsKnown`, from `SystemAssumption`, for any number of flags, environments
  and creations. The property is inductive once the types are and a creation of an
  environment is known to be about one (`OneEnvironment`), stated for each pair with
  the call that excuses it (`Accounted`).
- `Repairs` (`MCSpec => RepairsWhenAlone`) and `Fits` (`MCSpec => FitsWhenAlone`), from
  `WeightsAssumption`, for any finite number of variants, any `Total` and any number of
  requests. `AllProper` says of each transaction what it may count on. Of every one: a
  row that a redistribution has still to update is there or is known to be gone
  (`Sound`). Of one with no other beside it: the rows it sees become split as soon as
  its plan is carried out (`Repairing`); and, if the committed weights are in order,
  that the custom weights it sees fit and still do with the row it is about to write
  (`Fitting`). The arithmetic is in `SharesFit` and `SharesSplitEqually` (equal shares,
  rounded down, and the rest to one of them add up to what was left) and in
  `KeptWeightFits` (a weight kept unchecked is at most what the custom weights left).
  `TypesCorrect` (`MCSpec => []TypesOK`) combines `Known` and `AllProper`.
- `OrderTypeCorrect` (`OrderSpec => []OrderTypeOK`), from `OrderAssumption`, for any
  number of calls that overlap, from `Ordered`: what a call lists, changes or moves are
  strategies that were created, deleted since or not.
- `KeepsOrder` (`OrderSpec => CreateKeepsOrder`) and `InPlace` (`OrderSpec =>
  CreatedInPlace`), from `OrderAssumption`, for any number of strategies, environments
  and priorities, with calls one at a time (`OneCall`) next to deletions and
  reorderings at any moment. `AllTidy` follows a call of `createStrategy` that no
  reordering overtook: the rows it renumbered are locked, so still there, and keep
  their order (`RenumberedThere`, `OrderKept`); the new rows are one in an environment,
  below or above all others of it (`NewApart`, `NewInPlace`); and what it has read of
  the environment it is about to write still covers what is left of that, in order
  (`ReadHolds`), because without another call rows only go. With two calls both are
  false, as TLC shows on the run's instance: two creations get the same priority, and a
  strategy that another call puts in between is not among those renumbered.

`TokenRefreshProofs`, from `TokenAssumption`, for any number of tabs and requests:
`TypeCorrect`, and `NoneLeftBehind`, which is `Spec => []WaitsForOwnRefresh`: a step
leaves the waiting requests of a tab alone, adds one behind the first, or settles or
sends all of them at once with the end of the refresh.

`ConnectionPoolProofs`, from `PoolAssumption`, for a pool of any size and any number
of requests: `Leakless`, which is `Spec => []NothingLeaks`, and, for a pool that is not
empty, `StallsNeedInner`, which is `Spec => []StallsByInnerOnly`. `Known` says that a
request has one connection of each kind at most (`HeldOnce`), that who runs has one
(`HeldByRunning`), and that who waits for the row locks has its transaction's connection
and not the locks (`LockedInside`). If the pool stands still and nobody asks for a second
connection, every connection belongs to a request that waits for the locks, so their
holder is one of these: a contradiction. `TypeCorrect` (`TypeOK`): the queue holds those
who wait and nobody else, each once (`QueueFits`), whoever leaves it from the middle.

`NotificationsProofs`, from `QueueAssumption`, `BoundsAssumption` and
`ChannelsAssumption`, for any number of callers, recipients, channels, workers,
attempts, stalls and faults: `TypeCorrect` (`TypeOK`), `NonePending`
(`CompletedLeavesNonePending`) and `Delivered` (`CompletedIsDelivered`). `TypeCorrect`
rests on `Bounded`: a job that a worker holds is active and has an attempt left, and a
job is handed out again only while it has a stall left; what a worker's loop has left is
a suffix of the channels. The other two rest on `Known`: a call stores its rows once
and adds each job once (`AddedOnce`); a job that never stalled has one worker at most
(`Owned`); the channels a worker has passed are not pending, and have their own outcome
if the job never stalled (`Progress`); the same of a job that completed (`Ended`). Of
`UnreadStream`, from `UnreadAssumption` (finitely many notifications), `UnreadTypeCorrect`
(`UnreadTypeOK`) and `StaleByOvertaking` (`StaleOnlyByOvertaking`): as long as nothing
overtook anything and no change went without a push, the newest count under way or shown
is of the rows as they are, or a call has yet to count.

`MetricsProofs`, from `MetricsAssumption` (finite sets of evaluations and workers) and
`QueueAssumption`, for any number of days, attempts, stalls and faults: `TypeCorrect`
(`TypeOK`); `OncePerTry` (`CountedOncePerTry`), where every worker that may still count
an evaluation was paid for by a time its job was handed out (`Paid`); `OneEach`
(`BucketPerProcess`), where the buckets of a day and the workers about to create one are
together no more than the workers, unless it has no bucket yet (`Roomy`); and `NoneLost`
(`NoCountLost`), where a transaction adds its count to one bucket and to `applied`
alike. The library's induction theorems take operators as parameters, so induction over
numbers and over finite sets is proved here for a set of numbers (`Upward`) or of
subsets (`Growing`), and with it what a sum over a finite set is (`SumOfExists`) and how
one changed value changes it (`SumChanged`).

Only model-checked: liveness, which is beyond the prover (`AccessConverges`,
`QueuedIsSettled`, `RequestsSettle`, `RequestsEnd`). The assumptions that sets of calls,
rows or workers are finite are of a server that runs: an unlimited number of logins could
not be counted either.

## Not modelled

Evaluation itself (`can`, `evaluateFlag`): the service hands the config and the context
to the published SDK package, whose source is not in the repository. Contents of rules,
segments and payloads, audit entries and wording: no decision modelled here depends on
them. Cascaded deletions of a whole flag or environment inside `VariantWeights` and
`StrategyOrder`. `copySegmentToProject` and favourites (they reach no config). Renaming
an environment: no handler reacts to it, and the access cache, keyed by name, serves what
it holds until its TTL ends. Several organizations and projects: users do not move between
organizations except by being added again, and keys, flags and actions of projects share
nothing but the agent user. Projects, audit log, MCP tools, guards, the throttler and the
rest of the front end keep no state that several actors could bring into disorder, or keep
it in one atomic statement or script; `PROJECT.json` gives the reason for each.

Most lines of the repository are of these kinds: the generated Prisma client (tens of
thousands of lines of types), data transfer objects and controllers that pass a request
on, React components and their tests. The mapped lines are those of the services that
decide something, so their share of all lines stays small.
