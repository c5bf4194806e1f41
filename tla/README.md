# Verification of the DandanPlay API middleware

TLA+ models of the middleware in this repository, TLC runs that check them on
small instances, and TLAPS proofs for every size. The centre is the danmaku
comment service (`services/danmaku/service.go`): a read-through cache in two
stages (Redis, PostgreSQL) before a rate-limited upstream API, with singleflight
first loads and a bounded queue of background refreshes. Around it are the two
routes that cache in Redis alone, the credentials of the upstream calls, the CORS
headers, and the life of the process from its configuration over the migrations to
serving.

## 1. The system

| Component | State it keeps | Operations | What is hard about it |
|---|---|---|---|
| Comment service, `services/danmaku/service.go` | pending marks (map under a mutex), refresh queue (buffered channel), singleflight groups | `GetComments`, `firstLoad`, `enqueueRefresh`, `refreshWorker`, `refresh` | every request and worker interleaves at every call; a copy read earlier is written or judged later; marks must neither leak nor double; a flight is shared by strangers |
| Refresh policy, `policy.go` | none | `NextRefreshDecision`, `RefreshFailureRetryAt` | thresholds reached only by long histories; zero and negative configuration |
| Snapshot store, `storage/snapshots.go` | table `danmaku_snapshots` | `Get`, `Upsert`, `RecordAccess`, `MarkRefreshError` | an upsert that must not undo accesses recorded meanwhile; a write that fails after it happened |
| Snapshot cache, `cache.go` | Redis keys with a TTL | `Get`, `Set`, `Delete` | entries vanish, are damaged, are overwritten by older copies |
| Payload and variant, `payload.go`, `variant.go` | none | `ValidatePayload`, gzip, `NormalizeVariant` | error pages and empty comment lists |
| Upstream client, `services/dandanplay.go` | HTTP client without timeout | `FetchComments`, `SearchEpisodes`, `GetBangumiByBgmtvSubjectID` | never answers, answers errors with a body, redirects |
| Credential rotation, `utils/auth.go` | an atomic counter per client | `Next`, signing | concurrent calls; a client that is built before the configuration is loaded |
| Cached routes, `handlers/danmaku.go`, `utils/cache.go` | Redis keys of search and bangumi | `SearchEpisodes`, `GetBangumiByBgmtvSubjectID`, `GetCache`, `SetCache` | concurrent misses that write in any order, cached error bodies, durations that do not parse |
| Start-up, `main.go`, `storage/postgres.go`, `readonly.go`, `migrations/*.sql` | schema, account, grants | `LoadConfig`, `InitRedis`, `OpenPostgres`, `Migrate`, `EnsureReadOnlyRole` | a stop between any two statements, all of which are run again at the next start, over what any earlier version left; a port that somebody else has |
| Health checks, `handlers/health.go` | none | `Readyz` | one timeout shared by two checks |
| CORS, `utils/cors.go` | none | `CORS` | an answer that depends on the Origin, behind a cache that may ignore it; an answer to those refused that some of them match |
| Configuration, `config/config.go` | the loaded `Config` | `LoadConfig`, parsers | environment over `.env`, blanks, a list beside a single pair |


How they interact: a request goroutine calls `GetComments`, which calls Redis,
then PostgreSQL, then joins the singleflight flight of its key, whose function
looks at both stores again and calls the upstream with the context of the request
that started it. Finding a due snapshot, a request marks its key in
`refreshPending`, offers it to `refreshQueue` without blocking and answers with
the old snapshot. Workers take keys from the queue, look at the row again, call
the upstream, write PostgreSQL, then Redis, and take the mark back. The two
stores share no transaction.

The search and bangumi routes share the Redis of the comment service, not its keys,
and call the upstream through a client of their own; both clients take credentials
from the same configured list, each with its own counter. `main` reaches all of this
only after it has loaded the configuration, reached Redis and PostgreSQL, run the
scripts and prepared the read-only account; any error on the way ends the process,
and Docker starts it again.

What makes each part correct, in words:

- **Store and cache**: PostgreSQL is written first, so no copy is ever ahead of
  it; a copy that is not due is what PostgreSQL holds; a row changes only by a
  whole newer refresh or by the note of a failed one; accesses are never lost.
- **Refresh queue**: a mark exists exactly while a refresh is on its way; a key is
  queued and refreshed by one at a time; every mark is taken back; a refresh that
  was queued is carried out.
- **Answers**: a valid request fails only over PostgreSQL, a damaged entry, a client
  that left, or the upstream if nothing is stored; who is answered with an old
  snapshot leaves a refresh of it on its way, unless the queue is full.
- **First loads**: one flight per key, run by a request that is still there;
  nobody waits for a flight that is over; no 503 for a key that is stored.
- **Upstream**: called only for a key that is absent or due, once at a time.
- **Policy**: the rule is the one the table of the repository's README gives for
  the history of contents, is never due at once, and backs off.
- **Cached routes**: an answer is to the question that was asked; what the upstream
  settles on is what clients come to see.
- **Credentials**: each client uses the list evenly.
- **Start-up**: the schema only moves forward, keeps the counts of old rows and is
  complete while the process serves; so is the read-only account; a start with
  accepted settings fails only over the store that is down or the port that is taken
  at the failing step, whatever earlier starts left half done, and in the end the process comes to serve.
- **Health and CORS**: ready means that both stores answered this probe; a page reads
  an answer exactly if the settings allow its origin, opaque origins apart
  (section 5).

## 2. Modules

`Snapshot` < `RefreshPolicy` < `RefreshCadence`, and `Snapshot` < `SnapshotStore`,
`SnapshotCache`; `CommentService` extends policy, store and cache;
`CommentServiceProperties` states what makes it correct and instantiates
`UpstreamContract`. `StartUp` extends `Configuration`, `Migrations` and
`ReadOnlyRole`; `StartUpProperties` states what makes it correct and instantiates
`UpgradeContract`. `CachedRoutes` extends `CredentialRotation`, which extends
`Configuration`. `CrossOrigin` stands alone, with `CrossOriginProperties` over it. The `MC...` modules hold the instances for TLC, the
`...Proofs` modules the proofs.

| Module | Models |
|---|---|
| `Snapshot` | upstream bodies, `ValidatePayload`, the columns of a snapshot that are read |
| `RefreshPolicy` | `policy.go`: every rule, default and guard, as pure operators |
| `RefreshCadence` | one key refreshed over and over, so that the streak rules are reached by a history |
| `SnapshotStore` | the SQL statements of `storage/snapshots.go`, each one atomic step on `row` and `access` |
| `SnapshotCache` | `cache.go` and what Redis may do to an entry by itself |
| `CommentService` | `service.go`, see below |
| `UpstreamContract` | abstract: what the service owes the upstream, over three functions of the key |
| `CommentServiceProperties` | types, invariants, action properties, the refinement, liveness, and the refuted statements |
| `Configuration` | what `LoadConfig` makes of environment and `.env` file, as far as start-up, credentials and durations depend on it |
| `Migrations` | the table as a function from columns to what they hold, and the three SQL scripts over it |
| `ReadOnlyRole` | a role, its grants, and the statements of `EnsureReadOnlyRole` |
| `StartUp` | `main` from boot to serving, one call on a store per step; `/readyz`; crashes, outages, changed settings |
| `UpgradeContract` | abstract: what an upgrade owes the operator, over the level of the schema, the counts and the open service |
| `StartUpProperties` | types, the refinement, the account, the credentials, the probe, failed starts, liveness |
| `CredentialRotation` | `Next` of both providers |
| `CachedRoutes` | the search and bangumi routes over `GetCache` and `SetCache`, and the credentials that `FetchComments` takes beside them |
| `CachedRoutesProperties` | types, invariants and liveness of these |
| `CrossOrigin` | the CORS headers between browsers and a shared cache |
| `CrossOriginProperties` | which origins the settings mean to allow, and who reads the answers |

### `CommentService`

A request slot `r` is one concurrent `GetComments` call, a worker `w` one
`refreshWorker` goroutine. `pc[r]` and `wpc[w]` say which call comes next; a step
is that call with the local computation behind it. `snap[r]` is the snapshot the
request holds and `outcome[r]` first where it came from, then the `CacheStatus` of
the result (`redis`, `postgres`, `stale`, `upstream`) or the error
(`unavailable` is `ErrUpstreamUnavailable`, answered 503; `failed` any other,
answered 500). `gone[r]` is a cancelled request context.

| Step of a request | Code |
|---|---|
| `CacheGet`, `StoreGet` | the two look-ups of `GetComments` |
| `LoadDo` | `loadGroup.Do`: start the flight or wait for it |
| `LoadCacheGet`, `LoadStoreGet`, `LoadFetch`, `LoadUpsert`, `LoadCacheSet` | the function of the flight |
| `RequestRecordsAccess`, `CheckDue` | `recordAccess`, then `NextRefreshAt.After(now)`, in `GetComments` and in the flight |
| `CacheDelete`, `MarkRefreshPending`, `SendRefresh`, `CacheSet` | what follows that comparison; `enqueueRefresh` is two steps, mark and send |
| `Answer` (in every step that ends a call) | the return, and for a leader the return of all who wait |
| `Deliver` | the handler has written the response |

The worker steps (`RefreshTake` ... `ClearRefreshPending`) follow `refreshWorker` and
`refresh` in the same way: `RefreshStoreGet` reads the row and its statistics,
`RefreshCheck` compares the time of that copy with the clock. The environment advances the clock, removes or damages
Redis entries, disconnects clients and crashes the process. `Faults` chooses what
may go wrong in an instance; a failed PostgreSQL write may or may not have
happened. A cancelled context makes every later call of that request fail; a call
that was on its way when the client left may still have had its effect.

Operators under the comment *Fault variant* are plausible bugs of the definition
next to them. No action uses them; they show that a property notices the bug.

### Abstractions

- A key is the pair of episode id and variant key; `NormalizeVariant` is not
  modelled. A payload is its hash; the gzip of a stored row always decodes.
- `version`, `last_error`, `last_accessed_at`, `danmaku_count`, `created_at` and
  `updated_at` are left out: no code decides anything by them.
- The clock does not go backwards. Setting the wall clock back would break
  `FreshCopyIsCurrent`, because a copy that was due would count as fresh again.
- `REDIS_SNAPSHOT_TTL` is "an entry may vanish at any time", which includes every
  TTL, zero too.
- `refreshGroup.Do` never joins two workers, because the pending mark keeps a key
  with one worker; `OneRefreshPerKey` is what justifies leaving it out. A worker
  always finds a row (rows are never deleted and only found rows are queued), so
  the branch of `refresh` for a missing row is not reached.
- `Close` runs when `main` returns, that is at process exit: `Crash`.
- `RecordAccess` takes the window in whole seconds; the remainder is ignored.
- The bounds `MaxTime` and `MaxAccess` stop the clock and new requests; nothing
  else reads them.

### `StartUp`

`pc` is the next step of `main` and `nth` the next script or statement of it.

| Step | Code |
|---|---|
| `Boot` | Docker starts the process |
| `LoadSettings` | `LoadConfig`, its error ends the process |
| `InitRedis`, `OpenPostgres` | the two connections and their pings; a `DATABASE_URL` that does not parse |
| `Migrate`, three times | one script of `storage/migrations`, in an implicit transaction of its own |
| `RoleOptions` ... `RoleExists` | the checks and queries of `EnsureReadOnlyRole` |
| `AlterRole`, `CreateRole`, `Grant` five times | its statements, each on its own |
| `Listen` | services and routes, then `r.Run`, whose error ends the process |
| `ProbeStart`, `ProbeRedis`, `ProbePostgres` | `Readyz`; `left` is what remains of its two seconds |

`End` is `log.Fatalf` in every step that can fail; `Crash` is any other end. A
statement that was executed although its answer was lost is the statement followed
by `Crash`. PostgreSQL may be down at any statement, and another program may have the
port (`portFree`) until this one listens on it. `Reconfigure` changes the
settings of the container while no process runs.

### `CachedRoutes`

`pc[r]`, `key[r]` and `body[r]` are a request, what it asks for and the answer in its
hands; `FetchComments` is an upstream call of the comment service, as far as it takes a
credential. `CacheGet` is `GetCache`, whose every error is a miss; `Sign`
takes the next credential; `UpstreamFails` also stands for a request that cannot be
made, which takes none; `UpstreamAnswers` accepts any body, as the code does not
look at the status; `CacheSet` is `SetCache`, whose error is ignored. `used` is history: how far ahead of
the least used credential each one is. An entry counts down the ticks it has left.

### Abstractions of these modules

- A text (query, password, origin, duration) is a model value or a short sequence;
  a duration is the number of ticks it parses to, `Malformed` if it does not. That
  the parser appends an `s`, and so reads "5m" as five milliseconds, is not visible.
- A table's column holds for its old rows either what was `kept` or the `default`;
  the columns that all versions share are one. Each start finds the account either
  as an earlier start or a hand left it.
- The counter of a provider is kept modulo the number of credentials; the code's
  `uint64` wraps after 2^64 calls, which is not considered.
- A duration that is not positive makes the client of Redis set an entry without an
  expiry (`Life`). `Settles` holds only for a positive one.
- `FirstTables` of `StartUpAssumption` have a column for the counts, under its old or
  its new name: every version of the first script made one.
- A loaded read-only password is one of `Passwords`: what texts there are is a
  constant of the model.
- A database URL and a port are texts that their libraries read or refuse (`Usable`);
  what they say is not modelled.
- An opaque origin is `Null`, the text that browsers send for it and that the
  middleware answers to those it does not allow.
- The shared cache of `CrossOrigin` ignores `Vary`: it is the cache against which the
  code sends `no-store`.

## 3. Runs

Bounds shared by the runs of the service: a queue of one place, so that it is full
as soon as a second key is queued; intervals of one to four ticks
(`MCPolicy`), so that snapshots become due within the bound; `MaxTime` 1 to 3,
which allows a load, a refresh that replaces it, and a reader that still holds the
first copy; `MaxAccess` 2 accesses per key before no new request for it starts (1 in `hung_calls` and `first_loads`,
where two requests that arrive together still mark and send for both keys).
One key suffices for copies (keys share nothing but the queue and the workers, and
the queue runs have two). `MCLegacyRows` starts from a row written before the
access statistics existed, due at once. Deadlock is checked in
every run: past the bounds a request with an invalid id can still arrive. Requests
and workers are symmetric in the safety runs; the liveness runs use no symmetry.

| Run | Instance | Shows |
|---|---|---|
| `refresh_rules` | 9 refreshes, 3 payloads (one empty), 3 configurations (unset, negative, tuned) | `RuleMatchesHistory`, `DecisionInFuture`, `BacksOff`: two refreshes past the threshold of 7 |
| `refresh_queue` | 2 keys, 2 requests, 2 workers, retry interval 0, failing Redis and upstream, invalid bodies, crashes | `PendingIsLive`, `OneRefreshPerKey`, `FlightIsLive`, `AnswersFailForCause`, `StaleIsRefreshed`: a failed key is due again at once, the hardest case for the marks; PostgreSQL is reliable, so that only the upstream excuses an error |
| `snapshot_copies` | 2 requests, 2 payloads, failing and half-failing writes, crashes | `NoCopyAheadOfStore`, `FreshCopyIsCurrent`, `RowEvolves`, `AccessesAreKept`, `UpstreamPromise`: `CommentService` implements `UpstreamContract`; and `StaleIsRefreshed` where entries are due in Redis, also in a flight |
| `first_loads` | 2 requests, a row due at once or none, disconnects, failing upstream, invalid bodies, failing PostgreSQL, damaged Redis entries | `UnavailableMeansNoSnapshot`, `EveryRequestAnswered`, `PendingEnds` |
| `hung_calls` | 2 keys, one of them `Silent`, 2 requests, 2 workers, 1 place, failing Redis | `StoredKeyAnswered` for both keys; `QueuedRefreshIsCarriedOut` and `PendingEnds` for the one that is not silent, while a worker or a first load hangs on the other and sends find the queue full |
| `start_up` | 9 settings, 3 tables, 2 kinds of role, 5 troubles | `AccountIsReadOnly`, `KeysTakePrecedence`, `ReadyIsTrue`, `UpgradePromise`, `FailsOnlyForCause`, `ComesUp` |
| `cached_routes` | 2 requests, 1 text for both routes, 3 credentials, a duration that does not parse | `AnswerIsToTheQuestion`, `EvenRotation`, `Settles` |
| `cross_origin` | 7 clients, 6 configurations | `ReadByAllowedAndOpaque` |
| `abandoned_first_load`, `invalid_first_load`, `damaged_entry`, `opaque_origin` | | the statements of section 5, refuted |

The race that the repository's README mentions for Redis (an expired snapshot is
never written back) is not excluded by the code: the copy is checked before it is
written. `FreshCopyIsCurrent` says what does hold: such a copy is due by then, and
the next reader treats it as stale. `snapshot_copies` has a reliable
Redis, to stay small; for one that fails, forgets or returns damaged values, and for
every other combination of faults, the same properties are proved in
`SnapshotCopiesProofs`.

Bounds of the other runs. `start_up`: five troubles allow a start that is cut short, a
change of the settings, another start cut short, and an outage under a probe or a taken
port; scripts
and statements depend on nothing but table and role, so that more of the same finds the
same states. The settings are a list beside a pair, a changed password, no account,
half an account, an unsafe name, a malformed list, a list of commas only, a database URL
and a port that do not parse; the tables are none, that of
before the renaming and that of before the statistics; the roles none or one that an
administrator made by hand. `cached_routes`: two requests suffice for two answers
that are written in the wrong order, one text for both routes for keys that collide, three
credentials and two clients for a rotation that depends on the other one; an entry
lives one tick. `cross_origin`: a listed origin, one below a wildcard with and without
cookies, the wildcard's own host, a program without an origin, and two opaque origins, one of
which sends cookies. `hung_calls`: the queue is full at a send when two requests have
marked both keys before either sends; a full queue *behind* a hung worker would need a
third key, which is too large for liveness. The safety of that case does not depend on
the number of keys (`PendingMarksAreLive`, `StaleAnswersRefresh`).

### Fairness

`Scheduled` is weak fairness of every request and worker: Go's scheduler runs every
goroutine, a select with a default never blocks, Redis calls have the client's
timeouts, and PostgreSQL answers or drops its connections. Each step of
`RequestStep` is a call of the same goroutine and only one of them is enabled at a
time, so weak fairness of their disjunction is that of the goroutine.
`UpstreamAnswers` is kept apart because the code does not enforce it: the
`http.Client` of `dandanplay.go` has no timeout and the contexts passed to it have no
deadline. `Silent` are the keys for which nothing is assumed of it: a call for one of
them may hang for ever. `StoredKeyAnswered` holds for these keys too;
`EveryRequestAnswered`, `PendingEnds` and `QueuedRefreshIsCarriedOut` speak of the
others. The last two need more workers than silent keys, since each such key can keep one
worker for ever, and `QueuedRefreshIsCarriedOut` is checked without PostgreSQL or
upstream failures: with them the code gives the refresh up.

`StartUp` assumes that the process, once started, runs on and that Docker starts it
again when it ended (`restart: unless-stopped` in the compose files), and that Redis,
PostgreSQL and the port come back: `ComesUp` speaks of what happens when troubles are over, and
`MaxTroubles` is what makes them end. `CachedRoutes` assumes that a request's goroutine
runs on, that the upstream answers or fails, as above, and that time goes by.

## 4. Proofs

Everything here holds for every number of keys, requests and workers, every
configuration and every set of faults, under the named assumptions of the modules
(`SnapshotAssumption`, `StoreAssumption`, `CacheAssumption`, `ServiceAssumption`,
`CadenceAssumption`, `StartUpAssumption`, `RotationAssumption`, `RoutesAssumption`,
`CrossOriginAssumption`): distinct values are distinct, configured numbers are
integers, a first table is one that some version made, lists and origins are
sequences.

| Module | Theorem | Argument |
|---|---|---|
| `RefreshPolicyProofs` | `DecisionIsLater`, `StreakCounts` | every rule has a positive interval (`IntervalPositive`), from the `> 0` guards |
| `RefreshCadenceProofs` | `CadenceTyped`, `CadenceIsLater`, `RulesMatchHistories`, `RefreshesBackOff` | the streak is the number of refreshes that is read off the history, by induction over it: the set that is counted gains its last index or becomes empty |
| `CommentServiceProofs` | `TypeCorrect` | `TypeOK` is inductive; one lemma for each way a request goes on (`Goto`, `Hold`, `Answer`) and for each statement of the store |
| | `PendingMarksAreLive`, `RefreshesAreSingle` | the two hold each other up: a mark is set only when nobody holds the key, so its setter is the only holder, and whoever takes the mark back is the last one |
| | `FlightsAreLive` | a request leads the flight of its own key only, from `loadGroup.Do` to its answer, which ends the wait of all |
| `SnapshotCopiesProofs` | `NoCopyIsAhead`, `FreshCopiesAreCurrent`, `RowsEvolve`, `NoAccessIsLost` | `ServiceInvariant`, see below |
| `UpstreamPromiseProofs` | `PromiseIsKept` (the refinement of `UpstreamContract`) | a key has one caller at a time, so the end of a call takes its key out of `Calling`; every step is a step of the contract, most of them one that changes nothing |
| | `UnavailableIsTrue`, `FailuresHaveCauses`, `StaleAnswersRefresh` | whoever is answered, is answered by its own step or by that of the request that runs its flight (`RunnerAnswers`), so that the steps of one request are looked at and not those of all who wait |
| `StartUpProofs` | `StartUpTyped`, `AccountsAreReadOnly`, `ReadyIsAlwaysTrue`, `UpgradeIsSafe` (the refinement of `UpgradeContract`), `StartsFailForCause` | `StartUpInv`, see below |
| | `KeysAreServed` | the loop over the entries keeps those that are not blank, by induction over its steps, see below |
| `CachedRoutesProofs` | `RoutesTypedAlways`, `AnswersMatchQuestions`, `RotationIsEven` | `RoutesInv`: an entry answers its key, and keys differ (`KeysDiffer`); the credentials before the next one are exactly those that are one use ahead (`InTurn`) |
| `CrossOriginProofs` | `AllowedAndOpaqueRead` | `HasSuffix` finds exactly the origins below a wildcard (`SuffixIsBelow`), and the shared cache never holds an answer (`NothingStored`), so that each is the one made for the origin that asked, under the settings of that moment; the answer to those refused matches an opaque origin and no other |

`NoCopyAheadOfStore` and `FreshCopyIsCurrent` are not inductive: they do not say why
the row under a copy stays as it is while the copy is fresh. `ServiceInvariant` adds
what does. Its parts are `TypeOK`, the two queue invariants, `FlightIsLive` and
`CopyInvariant`, and the argument goes round once:

1. a row is replaced only by the one worker that has its mark
   (`OneRefreshPerKey`), which has read that very row and found it due
   (`RefreshesAreDue`), and a row that is due stays due until it is replaced;
2. every copy was made of the row or of an earlier one; a copy of an earlier row is
   due, and a copy of the row itself is due whenever the row is (`IsCopy`), so all of
   them are due by the time the row is replaced;
3. a first load writes only where no row is (`FirstLoadsAreFirst`): it is the only
   one for its key (`FlightIsLive`), and no worker has a key without a row
   (`PendingIsStored`, because marks are set for rows and rows are not deleted).

`NoAccessIsLost` needs one fact more, `CountedWithRow`: what is counted, is counted
for a row, so that the statistics inserted with a first row overwrite nothing.

`AccountIsReadOnly` and `UpgradePromise` speak of a process that serves; `StartUpInv`
says what is done at each step on the way there. The scripts before the next one have
left the columns the later ones need (`SchemaSoFar`), and the statements before the
next one their grants (`GrantedBefore`), with `create` gone after the third
(`AccountSoFar`). Both count from the first script and the first statement of this
life, whatever the table and the role were then, because every start begins there
again. That is why nothing has to be known of earlier lives, and why each script must
leave a complete table as it is and each statement must be one that can be repeated.
The refinement then needs only that every script adds exactly its level, or nothing.
`StartsFailForCause` needs from the same invariant that no script fails on a table of
any version, and `RoleSeen`: what `RoleExists` read of the account is still so when
the account is altered or made, because nobody else does either. It is the safety half of `ComesUp`:
there is no state of table and account from which a start fails although what the
failing step calls is there.

`FailuresHaveCauses` rests on `CacheIsSound`: without the fault `corrupt` an entry of
Redis decodes, so that a hit never fails a request; the other errors of Redis end in
the next look-up. In a flight the error goes to everybody who waits, and the cause is
that of the request that runs it; that is why the property names `Runner(r)`, and why
a client that leaves (section 5) is one of the causes. `StaleAnswersRefresh` has
`PendingIsLive` at the send: a request that is about to offer its key to the queue still has
the mark, so that only a full queue makes it take the mark back.

`KeysAreServed` is an induction over data. `Given` is a recursive function over the
positions of the list, `LoopExists` shows that there is such a function, and
`SetInduction` does the induction: the positions at which the loop is right are a set,
and a position that is not in it would have a least one, since `<` on the naturals is
well-founded.

Only model-checked is liveness under fairness, out of the prover's reach as
`ENABLED` is: `EveryRequestAnswered`, `StoredKeyAnswered`, `PendingEnds`,
`QueuedRefreshIsCarriedOut`, `ComesUp` and `Settles`. Every invariant
and every action property of the passing runs is a theorem.

## 5. Where the code and its documents disagree

- `abandoned_first_load`: the function of a flight uses the context of the request
  that started it (`service.go:161,192`). When that client leaves, every request
  waiting for the flight is answered 503 although the upstream works.
- `invalid_first_load`: `FetchComments` does not look at the HTTP status, so an
  upstream error page on a first load is answered 500 where the README says 503.
- `damaged_entry`: an envelope that decodes around a damaged payload fails the
  request, and keeps failing it until the entry expires; the design document asks
  to ignore it and use PostgreSQL.
- `opaque_origin`: to an origin that is not allowed `CORS` answers "null", which the
  comment (`cors.go:43-44`) says no browser matches with its own origin. The origin of a
  sandboxed frame or a local file is opaque and sent as "null": such a page, if it sends
  no cookies, reads what a list that does not name it should keep from it.
- A flight that finds a due entry in Redis (`service.go:169`) answers it as `stale` and
  queues no refresh, where the README (line 236) says that an old snapshot is answered
  and a background refresh then tried. It takes a row that is written, and due again,
  between the request's first look-ups and its flight; the next reader makes up for it.
  `StaleIsRefreshed` names it as its last exception, and the instance of
  `snapshot_copies` reaches it: without that exception the property is refuted there.

## 6. Not modelled

- Logging, wording, response headers other than those of CORS; `GetCacheTTL`, which
  only feeds the log.
- The SHA-256 signature and `MaskCredentialAppID`: pure functions with nothing to
  relate them to. The connection strings.
- `GetRelated` and `Healthz` answer constants. The comment route without a service is
  never taken, because `main` always sets one.
- `NormalizeVariant` and the parsing of episode ids: a key of the model stands for
  what they return. `chConvert` is a constant of every upstream URL.
- The fields of the configuration that are constants of the other modules
  (queue size, intervals): they are read in the ways `Configuration` models.
- Rights to write that somebody gave an existing role on a table, and the login of the
  account of an earlier `DATABASE_READONLY_USER`: no statement deals with them. A
  read-only account that is the owner of the database itself.
- `.env` over environment: the repository's README says that the program reads `.env`
  first; `godotenv.Load` leaves alone what the environment sets, and so does the model.
- A wall clock that is set back.

What remains to be done: liveness under faults that stop only one of the stores, and
`NormalizeVariant` over all forms of its two parameters.
