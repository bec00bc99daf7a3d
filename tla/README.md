# TLA+ models of Corvus

Corvus is an HTTP server in C++ (Drogon) that manages resources stored in
PostgreSQL and cached in Redis. This directory holds TLA+ models of the parts
where threads, failures and time meet, TLC runs that check them on small
instances, and TLAPS proofs that carry the main results to every instance.
Source paths below are relative to the repository's root, `src/` in
`PROJECT.json`.

## The system

| Component | State | Operations | What is hard |
|---|---|---|---|
| `db/pg_pool` | `idle_`, `total_`, `mutex_`, `cv_` | `acquire`, `return_connection` | wake-ups and timeouts racing for the same connection; connections that die in the queue or in a caller's hand |
| `db/cache_aside` + `resources/resource_service` | the row in PostgreSQL; entry and version key in Redis; connection and backoff | `get`, `update`, `remove` | fills racing writes; evictions that fail, run late or are never sent; keys that expire, are evicted or go with a restart of Redis |
| `auth/api_key_validator` + `pg_api_key_lookup` | the key's row; a Redis hash with a TTL | `validate` | two commands to store an entry; revocation racing a lookup; whole-second TTLs from a clock that was read earlier |
| `gateway/rate_limiter` | buckets per client, `last_cleanup_` | `allow`, `retry_after` | the clock is read before the lock; buckets are forgotten and re-created |
| `db/migration_runner` | `schema_migrations`, the schema | `migrate` | two transactions per file; several instances; crashes |
| `db/redis_connection` with its owners | one hiredis context per connection; the cache's backoff; the validator's `idle_` | `reconnect` with AUTH and SELECT, commands, `acquire`, `release` | handshakes that stop half-way; sessions that died unnoticed; constructors that throw |
| `auth/authenticator`, `auth/middleware`, `auth/jwt_validator` | the attribute `client_id` of a request | `authenticate` | which of two credentials decides what |
| `resources/resource_repository::list` | rows ordered by `(updated_at, id)` | `list` | rows that move between two pages |
| `gateway/*`, `resources/resource_handler` | the request and its response | advices, routes, handlers | the order of the advices; one answer on every path; ids with several spellings |
| `main`, `gateway/health_probe` | the listener; the probe's socket and deadline | start-up, `--health-check` | instances that die and restart under a probe; partial sends and reads |

Drogon runs four worker threads (`main.cpp:176`). A request passes the request
id, size limit and rate limit advices, then the auth advice, then a handler,
all on its worker thread. The auth advice calls `ApiKeyValidator`, which asks
Redis and, through `PgPool`, PostgreSQL. A resource handler calls
`ResourceService`, which asks `CacheAside` (one Redis connection, one mutex for
all threads) and `ResourceRepository`, which borrows a connection from
`PgPool` for the length of one transaction. So the components share the pool
and the Redis server and have no other state in common. `Gateway` and `StartUp`
put components together; every module models the neighbours it does not
contain by what they can answer.

What makes each part correct:

- the pool: `total_` is exact whatever failed, nobody sleeps next to a free
  connection unless it is on its way to be told, every `acquire` ends;
- the cache: no read goes back behind a write that was carried through, no
  stale entry stays without somebody who owes its eviction (both until Redis
  loses a version key under a fill), and every mistake heals;
- API keys: a valid key is never refused, an invalid one is forgotten within
  the promised time;
- the limiter: no client gets more than its rate, and one that waits as told is
  served;
- listing: a client that walks through the pages misses no row that keeps still,
  sees none twice without reason, and stops at the right page;
- migrations and start-up: the record is truthful, files run in order, a server
  serves only on a whole schema, a healthy verdict is never wrong, every probe
  ends and every instance comes up;
- Redis connections: no command goes out on a session that is not logged in, no
  context is lost, dead idle sessions cost no request its cache, attempts to
  reconnect go on, and those that fail are spaced;
- the pipeline: rows are shown to and changed by their owners alone, large
  bodies reach no handler, probes are served, every request is answered.

## Modules

| Module | Models | Proofs |
|---|---|---|
| `PgPool` | the connection pool | `PgPoolProofs` |
| `FreshReads` | abstract contract of reads of one resource | |
| `ResourceCache` | `ResourceService` over `CacheAside`, Redis and the row | `ResourceCacheProofs` |
| `ApiKeyCache` | `ApiKeyValidator::validate` for one key | `ApiKeyCacheProofs` |
| `RateLimiter` | the limiter and its middleware | `RateLimiterProofs` |
| `Listing` | paging through a client's resources while they are written | `ListingProofs` |
| `CursorCodec` | `encode_cursor` / `decode_cursor` and their base64 | `ListingProofs` |
| `MigrationRunner` | `migrate` by several instances | `StartUpProofs` |
| `StartUp` | extends `MigrationRunner` by the rest of `main` and the health probe | `StartUpProofs` |
| `RedisSession` | `RedisConnection` and the three kinds of its owners | `RedisSessionProofs` |
| `Gateway` | advices, `authenticate`, routes, handlers over a row and its cache | `GatewayProofs` |
| `MC...` | requests, credentials and symmetry sets for TLC | |

Definitions named `X_Something` are deliberately wrong versions of `X`. Each
property of each run has one (`mutants` in `PROJECT.json`) that TLC must reject
with it; no specification refers to them.

### PgPool

`idle` is `idle_` (each connection `"ok"` or `"severed"`), `total` is `total_`,
`mutex` the owner of `mutex_`. A thread goes `out`, `enter` (blocked on the
mutex), `loop` (one action per way through the body of the loop), `waiting` /
`waking` (inside `wait_until`), `holding`, and `notify` (after the inner block of
`return_connection`, before `notify_one`). `make_connection` succeeds exactly
when the server is up; it runs under the mutex, so each of its two uses is part
of one action. `is_open()` may say TRUE or FALSE of a severed connection. A
waiter may wake spuriously, and one that was notified in time may still report
a timeout, because the clock is compared after the mutex is held again.

`swallowed` is history: a notified thread left by an exception. `token` marks a
notified thread until it leaves the loop or sleeps again.

### ResourceCache and FreshReads

One resource. Rows are numbered by the commit that wrote them, which is all the
properties need to know of their content; `gone` marks a deletion. `entry`,
`ver` and `verTtl` are what Redis holds; the two Lua scripts are `RunPut` and
`RunEvict`, each atomic as in Redis. Each call of `CacheAside` is one action
under `mutex_`, except `get`, whose GET and EXISTS are two (`"exists"` holds the
mutex). A call is answered, finds Redis unreachable (with the reconnect
backoff), fails without effect, or goes unanswered: then its command is in
`late` and runs at any later time or never. A commit may be in doubt: the write
took place, `commit()` threw, nobody evicts. A restart empties all threads.

Redis runs without persistence, under a memory limit with `allkeys-lru`, and is
restarted on failure (`docker-compose.yml:96-108`). So it may evict the entry or
the version key at any time (`RedisEvictsEntry`, `RedisEvictsVersion`), and a
server that dies takes both with it and leaves a connection that `is_connected`
still takes for good (`RedisDies`, link `"stale"`): the next command on it fails.
`RedisDown` is a network that fails or a server that hangs, which keeps what it
holds.

History: `fence` is the row when an eviction last ran; `floor` its value when a
get began; `missed` says an eviction was given up since; `lapsed` says that the
version key was lost while a fill was under way, whether it expired, was evicted
or went with its server. Then versions stop protecting fills: the next eviction
counts from 1 again, or no version looks like the "0" that the fill has read.
`FreshReads` promises only: a read answers with a row not older than its floor,
unless such a lapse happened.

### ApiKeyCache

One key, time in half seconds so that a key may expire between two whole
seconds and `::bigint` may round `expires_at` up. `entry` is the Redis hash with
its marker (`pg`, or `other` for one seeded by hand) and TTL. The steps of
`validate` are the cache read, the lookup (whose `WHERE` is `Valid`), HMSET, the
reading of the clock in `cache_ttl_for` and EXPIRE. Any time may pass between two
of them. Each command may fail, and HMSET and EXPIRE may fail after having taken
effect. `LoseEntry` is the hash that Redis evicts or loses with a restart. `lag`
is history: how old the reading of the clock was when EXPIRE gave the entry its
TTL. The clocks of the server and of PostgreSQL are taken to agree. A command
that takes effect after its caller gave up, up to `command_timeout_ms` later, is
taken to do so at once; `ResourceCache` has late commands.

### RateLimiter

A tick is the time in which a bucket gains one unit, a token is `Cost` units.
`Arrive` reads the clock (`stamp`), `Grant` / `Deny` are the rest of `allow` under
`mutex_`, `Refuse` is `retry_after` with the 429 response. `MaxLag` bounds the time
between the two. Doubles are modelled as exact units; the ratio
`TicksPerSecond / Cost` is `refill_rate`. `/health` and `/ready` bypass the
limiter and are left out; a client key is a member of `Clients`.

The reference is the `ideal` bucket: capacity `max_tokens` plus `MaxLag` units,
refilled by the real clock, never forgotten. It never goes below zero exactly
when in every window of time a client gets at most burst + refill + lag.

### Listing and CursorCodec

`rows` is one client's part of the table `resources`, `at` its `updated_at`. A
transaction takes its time when it begins (`began`, PostgreSQL's `now()`) and
becomes visible when it commits, so commits may carry times out of order; row
locks make two updates of one row commit one after the other, in either order. A
page is one SELECT on one snapshot: `Selected` is the WHERE clause, `First` the
ORDER BY and LIMIT, `NextCursor` the cursor, which is really encoded and decoded
by `CursorCodec`. There the bits that the code's loops shift through `val` are
addressed directly, and `Digits` passes over what is not in `kBase64Chars`. The
texts of times and ids are constants, `TimeText` and `IdText`: PostgreSQL writes
them and reads them again, and `TextAssumption` says that no two times and no
two ids share a text and that a timestamp has no bar in it, which is why the
first bar is the separator. `MCListing` takes two digits and a letter. `still`
and `overtaken` are history. A UUID is never used again. An answer other than
200 ends the walk.

### MigrationRunner

`applied` are the versions whose effects are in the schema, `recorded` the rows
of `schema_migrations`. A file is one transaction; it records itself (as 0001
does with its own INSERT) or may run again (as 0002), and `FilesAssumption` says
every file is one of the two. A file that neither recorded itself nor may run
again would stop every later start once the process died between its two
transactions; the assumption is what future migrations must keep.

### StartUp

`main` after `migrate` has returned: Redis is connected, advices and routes are
registered, and only then the instance listens (`Serve`). `Die` is every return of
1 and every crash; it closes or resets the probe's connection. The probe is the
one of `health_probe.cpp`: a non-blocking connect, a request that `send` takes in
pieces, a status line that arrives and is read in pieces, and one deadline for
all of it, `left`. A status line is known by how much of it there is: nothing,
a part that ends before its twelfth character, at least twelve, all of it. The
server may answer, keep silent or close at any time. EINTR and EAGAIN send the
loops round and change nothing.

### RedisSession

A connection is its context (`null`, `ok` or with `err` set), whether the server
still has the session, and whether it is logged in and on the configured
database. `Reconnect` is the set of outcomes of `reconnect()`: done; the context
freed because the connect failed; or thrown out of `authenticate` or `select_db`
with the context kept, broken if there was no reply and unharmed if the reply
was an error. `Command` is the set of outcomes of a command. What the commands
do is in `ResourceCache` and `ApiKeyCache`. `CacheAside` holds its mutex over a
whole call, so a call is one action; a validating thread takes one step per
`acquire`, constructor, command and `release`, twice when it stores. `open` counts
the contexts allocated, `leaked` those whose owner's constructor threw: nothing
can free them. `kept`, `began` and `trouble` are history; `began` is the
time since the last attempt that failed began, since only such an attempt starts
the backoff: a session that connects and breaks at once may be followed by the
next attempt at once.

### Gateway

The advices in the order `main` registers them, then the route, then the handler,
by threads that share one row and its cache entries, one per client and
spelling of the id. `Authenticate` is the whole decision of `authenticate()`,
given the verdicts on key and token; the verdicts, the limiter's and the
backends' answers are free choices, because the modules above are about them.
The handlers of one resource are as many steps as they make calls: a get is its
lookup (`Get`), `ReadVersion`, `FindRow` and `PutIfVersion`, an update or removal is
its transaction and `Evict`; other threads run and Redis loses keys
(`RedisLoses`) between any two. `local` is the version and the row a handler has
at hand. `create` and `list` are one transaction and one action each. A command to
Redis takes effect when it is called, or not at all, or without an answer; late
commands, timing and the connection are in `ResourceCache`, which also says when
a stale fill is possible. `passed`, `evicted` and `floor` are history. Which requests arrive
is a constant; `MCGateway` takes every combination of credentials that
`authenticate` tells apart, every way to announce a large body, every route, and
the reads and writes of two clients in both spellings. `RespelledRequests` are a
create, a read in one spelling and an update in the other.

## Runs

All in `PROJECT.json`; each cfg names its constants.

| Run | Instance | Checks |
|---|---|---|
| `pool` | 3 threads, 1 connection | accounting, no lost wake-up, sleeping only when all connections are held, every `acquire` ends |
| `cache` | 2 threads, 1 write, 1 late command, TTLs 2 and 3 | staleness is accounted for, only late commands come between GET and EXISTS, refinement of `FreshReads`, the cache ends up right for good, all while Redis may lose any key |
| `cache_aba` | 2 threads, 2 writes | *violation*: a version that was lost and counts again lets an old fill through |
| `apikey` | 2 threads, TTL 2 s, life up to 3 s | no wrong refusal, TTL bounds, a bounded overrun of the key's expiry, an invalid key is forgotten |
| `apikey_immortal` | 1 thread | *violation*: a failed EXPIRE leaves a revoked key valid for ever |
| `limiter` | 2 threads, 2 clients, 8 ticks | no overgrant, Retry-After suffices |
| `listing` | 3 rows, 2 transactions, 2 times, pages of 1 and 2 | types, still rows are listed, repeats only when a time was set back, pages descend, `has_more` is exact |
| `start_up` | 2 instances, 3 files, 2 stops, a probe with 2 pieces and 1 tick | truthful record, order, what a healthy verdict means, every probe ends, everyone serves |
| `redis_session` | 2 validating threads, 1 idle place, password and database | types, ready sessions, contexts accounted for, stale sessions replaced, failed attempts spaced, recovery |
| `redis_resumes` | the cache alone, with a password | *violation*: after a refused AUTH the cache never reconnects |
| `gateway` | 2 threads, 2 clients, 2 spellings, 2 writes, 28 requests | types, owners, scopes, body sizes, probes, an answer for every request |
| `gateway_respelled` | the same, with 3 requests | *violation*: a read in the other spelling serves the body from before an update |

Type invariants that are proved, and invariants that exist for the sake of a
proof, are not run again.

Bounds. Three threads on one connection are the fewest with a holder or
returner, a notified thread and a sleeper at once. In `cache` a write may meet a
fill, a late command and a restart; TTLs of two and three ticks keep the version
key alive longer than the entry, as in the code (`version_ttl_seconds` 600
against a resource TTL of 300), and let both expire. More writes, threads and
larger TTLs are covered by `ResourceCacheProofs`. A key's life of three seconds
reaches above and below the TTL of two; a second thread stores, times or is slow
to time the entry of the first. Three rows fill a page of two and leave
one; two times let rows share one and let a time be set back. Eight ticks are
enough to fill, spend, evict and re-create a bucket. Two stops allow a crash of
the one instance that was restarted after a crash. Two validating threads and
one idle place make a connection come back to a full `idle_`; a connect timeout
above the backoff lets the backoff be over when an attempt ends. One leaked
context tells a leak from none. Two writes of the row are a create and an update
or a removal; a second client is enough to be the wrong one. Thread
sets are symmetric; symmetry is used only in runs without liveness or
refinement. `limiter` switches deadlock checking off because its bounded clock
runs out; the other runs check it.

Fairness. Pool: threads inside the pool run on, handlers return what they
borrowed, deadlines pass, and a thread that finds the mutex free again and again
gets it (strong fairness, because a mutex may be taken by others in between,
for bounded times). Cache: requests run on, a late command is run or lost in the
end, time passes. API keys: validations run on, time passes. Start-up: an
orchestrator restarts what is down, crashes are finitely many, time passes and
a probe does what it can do; no instance has to answer. Redis sessions: requests
keep calling the cache, and time passes; that the server stays well in the end is
a premise of the two properties, not of the specification. Elsewhere nothing is
assumed of arriving requests, server outages, Redis coming back or Redis losing
keys.

## What the violations show

- `cache_aba`: `INCR` on a version key that is gone yields 1 again
  (`cache_aside.cpp:38-39`). The fill has to straddle the loss of the key: its TTL
  of 600 s ends between the fill's reading of the version and its put, Redis
  evicts the key then, or Redis restarts then. `resource_service.cpp:36` promises
  detection.
- `apikey_immortal`: HMSET and EXPIRE are two commands and errors are dropped
  (`api_key_validator.cpp:175-183`); ADR 0004 promises expiry without cleanup.
- `redis_resumes`: `reconnect()` throws when AUTH or SELECT is refused and keeps
  the context, which looks connected (`redis_connection.cpp:98`); the cache does
  not try again, and `test_resilience.py:180` says that caching must resume. A
  timeout in the same place is harmless, because it sets `err`:
  `CacheRecoversUnlessHalfOpen` shows that nothing else keeps the cache down.
- `gateway_respelled`: the cache key holds the id as the path spells it
  (`resource_service.cpp:15`), PostgreSQL compares UUIDs whatever their case. A
  write evicts its own spelling; `test_resources.py:311` has one spelling only.

ADR 0004, line 49, also promises that a hit is cached "never past the key's own
expiry". The code does not keep that: `cache_ttl_for` says at least one second
(`api_key_validator.cpp:52`), so a key in its last second stays in the cache after
its expiry, and so does one whose `expires_at` was rounded up or whose EXPIRE ran
some time after the clock was read. No run of its own shows this;
`ExpiryOverrunBounded` says by how much, which is less than a second and the time
from the clock to EXPIRE.

Other things the models show and no document contradicts: an `acquire` whose
deadline passes while it waits for `mutex_` throws `DbPoolExhausted` although a
connection lies in `idle_`, and takes a notification with it (the exception in
`NoLostWakeUp`); an entry whose EXPIRE was lost stays until Redis evicts it or
restarts; the reconnect backoff counts from before the
attempt, so that one that timed out may be followed by the next at once, and an
attempt that succeeds starts no backoff at all; a
`RedisConnection` whose constructor throws after the connect leaks its context.

## Proofs

All theorems are for arbitrary constants that satisfy the named assumptions.

- `PgPoolProofs` (from `ThreadsFinite`, `ConfigAccepted`): `Inv` is types, mutex
  discipline and accounting together, since what a step does to `total_` is right
  only if the stepping thread holds the mutex and does or does not hold a
  connection as its place says. It yields `AccountingCorrect`,
  `SleepsOnlyWhenAllAreHeld` and, with a second induction on top,
  `NoWaitWhenAmple` (the four workers and the ten connections of `main.cpp` never
  see `DbPoolExhausted`) and `WakeUpsCoverAvailability`, where each action either
  frees a connection together with a notification or uses both up.
- `ResourceCacheProofs` (from `TtlAssumption`, `BoundAssumption`): the invariant
  says that nothing is newer than the row, that fills hold no version ahead of
  the key's and, if they hold the current one, a row not older than `fence`
  (`FillsAreGuarded`), and that the entry is not older than `fence`, all until a
  lapse; and that a row newer than `fence` has an eviction pending or missed. The
  lapse is what the losses of Redis come down to: losing the entry harms nothing,
  and losing the version key without a fill under way leaves no version in any
  hand that could match again, except those of late commands, which count as
  fills. From a lapse on, the two properties promise nothing any more;
  `EventuallyCoherent` still does.
  `FreshAnswers`, `NoUnaccountedStaleness` and `Refinement` follow; the refinement
  maps reads by their place and needs `FloorInvariant` besides. `LookupAtomic`
  takes from the invariant that the thread between GET and EXISTS holds `mutex_`,
  so that an entry can appear (`EntryAppears`) only by a command in `late`.
- `RateLimiterProofs` (from `UnitsAssumption`, `TtlAssumption`): the ideal bucket
  covers what the real one would hold now (`IdealCoversBucket`), and regains a
  unit per tick since the last access, so that it is full when a bucket is
  forgotten (`IdealCoversEviction`); this needs `entry_ttl` to be longer than a
  full refill plus twice the lag, which the defaults (600 s against 10 s) meet.
  `RetryAfterSuffices` rests on `PromiseCovered`: the bucket's tokens, refilled up
  to the promised time, are a whole token. A
  denied request moves units and refill time together, a bucket that is capped or
  new is never denied (`DeniedBucket`), and rounding up to seconds never falls
  short (`CeilDivCovers`), although other threads may have touched the bucket
  between the denial and the header (`HeaderCovers`).
- `StartUpProofs` (from `FilesAssumption`, `ProbeAssumption`). For `MigrationRunner`:
  every version the loop has passed is recorded, snapshots are still in the table,
  and the version about to be recorded has taken effect (`MigrationInvariant`).
  Every step of the system is a step of `MigrationRunner` or leaves its variables
  alone (`StartUpMigrates`), so that those theorems carry over. `ProbeInv` adds that
  only instances whose `migrate` has returned listen, that the probe waits for an
  answer only after its whole request, and that an answer comes from a migrated
  database; what a healthy verdict means follows.
- `ApiKeyCacheProofs` (from `LifeAssumption`): `CacheTtlForBounds` says what
  `cache_ttl_for` computes. `TtlCovers` and `ExpiryCovers` say that the TTL of an
  entry and the time since the key became invalid add up to at most `kCacheTtl`,
  and, after the key's own expiry, to at most one tick and `lag`, because each tick
  moves one unit from the first to the second, and a reading of the clock is ahead
  of the life that is left by the ticks since then; the bounds follow.
- `GatewayProofs` (from `RequestsAssumption`, `CredentialsAssumption`,
  `WritesAssumption`): a request that is given to a resource handler with a client
  has had all its credentials checked, and each names that client and grants the
  scope of the method (`HandlersAreEntitled`); cache entries belong to the client
  in their key (`EntriesAreOwned`). Who sees and who changes a row follows, for any
  requests, clients and credentials, because a row at hand between two calls of a
  handler is that of the request's client too (`HandsAreClean`). The first part
  also says that a handler that parses a body has a small one.
  `ProbesServed` follows a GET of `/health` or `/ready` through every advice: none
  may answer it, and its route leads to its own handler (`ProbesAreRouted`).
- `RedisSessionProofs` (from `ConfigAssumption`, `BoundAssumption`,
  `ThreadsAssumption`): `ReconnectCases` and `CommandCases` say how a handshake and
  a command may end. The invariant adds to the properties where a thread may hold
  a context (`PlacesFit`), that a validation nothing disturbed meets a server that
  is well and retries on a live session (`UndisturbedIsWell`), and that the backoff
  left and the time since the last failed attempt began add up to the whole
  backoff (`CacheInv`). The count of contexts is kept by one lemma for all steps of a
  thread (`ThreadMoves`).
- `ListingProofs` (from `TextAssumption`, `IdAssumption`, `TimeAssumption`,
  `LimitAssumption`). First the codec: three bytes go through four digits and back
  (`GroupOfThree`, by quotients and remainders), `Digits` drops exactly the
  padding (`DigitsBeforePads`), so base64 undoes itself for a text of any length
  (`Base64RoundTrip`) and a cursor is its position again, whatever the widths of
  its texts (`CursorRoundTrip`). Then the order: `Newer` is strict and total,
  finite sets of rows have a newest and an oldest, `First(n, S)` is an upper part
  of `S` (`FirstIsAPrefix`), and `First(n + 1, S)` has more than `n` rows exactly
  when one is left out (`OneMoreRow`). The invariant adds two parts to the
  properties. `CursorBehind`: what was listed is at or before the cursor, because
  an invariant about pages alone says nothing of the next. `TimesKept`: a listed
  row that was not overtaken has a time no earlier than it was listed with, since
  a row that appears twice has to have moved back. `HasMoreExact` needs of the
  invariant only the types, among them that cursors were made by `encode_cursor`.

### What liveness rests on

The six liveness properties are checked by TLC and are not theorems: their last
step is an induction over a number of ticks, connections, files or threads, on
formulas that are temporal themselves, and no installed prover makes that
induction. What the induction is over is proved, in three kinds of theorems.

- *Steps that can be taken.* ENABLED is an atom for the provers: nothing shows it
  true. `RequestsCanGoOn`, `AcquiresCanGoOn`, `ProbesCanGoOn`, `InstancesCanGoOn`,
  `CacheCanGoOn`, `StoresCanGoOn` and `CallsCanGoOn` prove what it stands for
  without the word: under the guard, the next state written out (`Onward(t)`,
  `GaveUp(t)`, ...) is reached by a step of the action that changes something. Each
  theorem of the next two kinds has ENABLED of that action under that guard as a
  hypothesis, and nothing else about what is enabled.
- *Rungs*, for every number `n` and one thread or instance: from `n` comes, at last,
  less than `n` or the goal. The fairness used is the part of the specification's
  that names the action.
- *The rest of the way*, from the end of the ladder to the property, with the end
  of the ladder as a hypothesis.

| Property | Rungs | The rest of the way |
|---|---|---|
| `AcquireEnds` | `LockIsGivenUp`: the owner of `mutex_` gives it up or drops a dead connection | `AcquireEndsEventually`: with `mutex_` free again and again, `acquire` ends. Strong fairness is needed: with the weak one the step does not hold |
| `ProbesEnd` | `DeadlineRunsDown`: a tick less, or a verdict | `DeadlineEndsProbe` |
| `EveryoneServes` | `VersionsPass`: the next version, or a race lost to an instance that recorded it; `RestartsSeeRecords`: the same race is not lost again | `MigratedInstancesServe`, for instances that no failure stops any more (`Quiet`) |
| `CacheRecoversUnlessHalfOpen` | `BackoffRunsOut`: a tick less | `WellServersAreReached`, `CacheRecovers`: all other ways end in a usable session, or stay half-open |
| `InvalidKeyForgotten` | `StoresEnd`: for each thread; `EntryRunsOut`: a tick less of the TTL, which nothing renews, or no entry | `InvalidKeysAreForgotten` |
| `EventuallyCoherent` | `LockIsReleased`, `StaleFillsEnd`: for each thread; `LastLateCommandEnds`; `StaleEntryRunsOut`: a tick less of the TTL, which nothing renews, or no entry | `CoherenceLasts`, `CoherentAtLast`, from the last commit on |

`NoFileBlocksStartUp` is the safety property behind `VersionsPass`: a file that
cannot run twice and has taken effect is recorded, so a restart does not fail on
it. `LookupsExclusive` is the one behind `LockIsReleased`: between GET and EXISTS a
lookup has a connection that is up, and is alone there. `LastLateCommandEnds` is
about one late command at a time, which is what the run has; with more of them
weak fairness of `Late` may always pick another.

`NoRequestIsStuck` is model-checked too, because its statement is ENABLED itself.
`RequestsCanGoOn` is its content, and `RequestsEnd` concludes that a request whose
thread is kept scheduled is answered.

## Not modelled

- Formatting and parsing without state: JSON envelopes, responses and field
  validation (`api/*`, `resources/resource.cpp`), `parse_scopes`, hashing, request
  ids. They decide which of the outcomes that the models leave open is taken.
- The inside of libraries: jwt-cpp's checks of a token are one verdict, Drogon's
  routing of a wrong method one of two outcomes.
- Operations without a caller in the server: `CacheAside::put`, `get_or_fetch`,
  `invalidate`, `invalidate_prefix`, `exists`; `RedisConnection::set`, `del`, `hset`,
  `hget`, `hdel`; accessors that only read.
- A start with `CORVUS_RUN_MIGRATIONS=false`, where the operator answers for the
  schema, and configurations that `main` rejects.
- The event bus, policy engine and Python layer of the repository's README have
  no code.

## What is left

Every safety property and every action property of the runs is a theorem but
`NoRequestIsStuck`; every liveness property has its rungs and its last part
proved and the induction between them model-checked. The instances that TLC
checks are where that induction is seen to go through: the fairness, the bounds
and the premises of the runs are those of the theorems.

A change of the code that a model should follow first: a TTL for entries whose
EXPIRE failed, versions that never repeat (drawn at random, or from PostgreSQL)
with a lost one told from version 0, a cache key made from the parsed id, and a
context that is freed when AUTH or SELECT is refused. Each one turns a run that
expects a violation into one that should pass.
