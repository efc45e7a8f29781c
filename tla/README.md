# rates-service in TLA+

A verification project for rates-service, a Go service that keeps the last known
price of currency pairs: `POST /quotes` stores an update request and answers with its
id at once, a pool of workers calls an external provider and writes the price, clients
read the request and the quote. TLC model-checks the modules on small instances, TLAPS
proves theorems about them for every instance. Paths are relative to the repository;
`file.go:n` names a file by its last component.

## 1. Inventory

| component | state it keeps | operations | what makes it correct |
|---|---|---|---|
| request and quote storage (`internal/storage/postgres`) | the tables `update_requests` and `quotes`, two unique indexes | create, list pending, complete, fail, upsert, two reads | one open request per pair, one row per key, a settled request is final |
| creation of requests (`Storage.CreateUpdateRequest`, `POST /quotes`) | per handler: where it is among up to five statements | lookup by key, by pair, INSERT, two lookups after a unique violation | the same key gets the same request; concurrent calls do not fail each other |
| update service (`internal/service`) | the channel, the workers, two resyncers, the contexts of Shutdown | enqueue, process, resync, New, Shutdown | every accepted request is settled; the quote is out before the request is completed; nothing sends on the closed channel |
| process life cycle (`cmd/server`) | where `run` is; the shutdown deadline; the connection pool | load, migrate, wire, listen, signal, drain, exit | a shutdown ends and loses nothing it can keep; nothing is served before the schema is there |
| provider cache (`internal/rates/cached`) | a map of entries under a mutex | Rate | within a TTL only overlapping calls pay; a quote is not much older than it says |
| limiter and retries (`internal/rates/resilient`) | `nextAllowed` under a mutex | Rate: gate, attempts, backoff | spacing of the calls, number of attempts, Retry-After |
| fallback (`internal/rates/fallback`) | none | Rate | the secondary is asked after the primary has failed |
| HTTP providers (`frankfurter`, `exchangeratesapi`, `cross.go`) | none | Rate, CrossPrice | which errors are transient; the price of a cross pair |
| HTTP API and middleware (`internal/httpapi`) | none | routes, request id, log, recovery | status codes; what a panic leaves behind |
| domain parsing (`internal/domain`) | none | ParsePair, ValidRequestID | accept exactly the documented forms |
| configuration (`internal/config`) | none | Load | whatever the environment says, the service gets usable options |
| metrics (`internal/metrics`) | counters, a float sum in a CAS loop | Observe*, the text format | no lost increments |
| migrations (`migrate.go`) | `schema_migrations` | Migrate | each applied once and in order, also with two instances of two builds |

How they interact. A handler calls the storage and, for a created request, sends it to
the channel. A worker receives it, calls cache → fallback → one limiter per source →
HTTP provider under one context of `RATES_PROVIDER_TIMEOUT`, then writes the quote and
the status in two statements under a second context of 5 s. The resync loop and `New`
read pending rows and send them to the channel again. Workers, handlers and resyncers
share only the tables and the channel; workers share the cache and the limiters.

Every goroutine counts in the metrics. Before any of it `run` loads the configuration
and migrates the database, which other instances may be doing too.

What is hard: five statements of one POST interleaving with other POSTs and with workers;
one request handed out to several workers; statements given up by their caller that PostgreSQL still executes, perhaps much later; a
queue that drops silently and is lost in a crash; the order in which main stops listening,
cancels, closes and drains, with a deadline running, and then waits for the connections; goroutines that run late after their
timer; one deadline for a whole chain of retries; counters that are registered and
incremented without a common lock; migrations run by two instances at once.
`PROJECT.json` lists each hazard at its line with the properties aimed at it.

## 2. Modules

| module | models |
|---|---|
| `RequestStore` | the tables and the effect of each statement; how a call can end |
| `UpdateLedger` | abstract specification of the two tables: create, publish, complete, fail |
| `CreateRequest` (extends `RequestStore`) | `Storage.CreateUpdateRequest`, one action per statement, any number of handlers |
| `Idempotency` (extends `CreateRequest`) | history variables and the promises to clients of POST |
| `RatesService` (extends `CreateRequest`) | channel, workers, resyncers, handlers, life cycle of the process; implements `UpdateLedger` |
| `ServicePromises` (extends `RatesService`, `Idempotency`) | the promises to clients of POST in the whole service: the history variables watch every step of it |
| `RateCache` | the TTL cache under concurrent callers |
| `CachedUpdates` (extends `RateCache`) | the workers over the cache, up to the quote they publish; implements `RateCache` |
| `ProviderAnswer` | pure operators: what a reply of either API comes to, Retry-After, the cross price |
| `ProviderChain` (extends `ProviderAnswer`) | two limiters with retries, the fallback over them, one deadline, discrete time |
| `Metrics` | every observation step by step: registration, atomic add, CAS loop |
| `HttpApi` (extends `Metrics`) | the nest of middlewares, the routes and their statuses, panics, workers counting beside |
| `Startup` | configuration, migrations by several instances, options, wiring |
| `MC*` | the instances for TLC: symmetry sets, reference rates, environments |
| `*_proofs` | theorems about the module of that name; `CreateRequest_proofs` holds the lemmas that `RatesService_proofs` and `Idempotency_proofs` share, and the latter goes on to `ServicePromises`; `CachedUpdates_proofs` begins with the theorems about `RateCache` |
| `FiniteInduction` | lemmas: minimal members of families of finite sets and of sets of numbers, sums over finite sets |

Operators whose comment begins with "Mutant:" are variants of the definition that
follows them, each with a plausible bug; nothing uses them in the specifications. Replacing
the definition by its mutant makes the named property fail (`mutants` in
`PROJECT.json`), which shows that the property can see that bug.

### RequestStore and CreateRequest

`requests` is the sequence of rows in `created_at` order; the id of a row is its position.
A UUID is only compared and `created_at` only orders the list of resync; the order of
`created_at` is taken to be the order of the commits. `price` and
`updated_at` of a settled row are the field `result`; the error text is left out. `faults`
counts failed calls up to `MaxFaults`. A write is executed and answered (`Succeeds`), or
its caller gives it up (`Abandons`): the call times out, the connection breaks, the process
dies. Nobody tells PostgreSQL in time, so the statement stays behind in `late` and is
executed (`Lands`) at any later moment, or never: at once, which is a lost reply, after
later statements of the same worker, after a restart. A read
that fails has no effect. Every statement of the code is autocommit, hence one action.
The unique violation of the INSERT is `Conflict`, which stands for both indexes of
`0001_init.sql`. After a violation an error of a lookup counts as "not found", as
`ferr == nil && found` does in storage.go:68-76.

`CreateNext` closes the component with `SettledByWorker`: any pending row may be settled
at any time, and `LateLands`. `RatesService` drops that environment and has the real workers instead.
`Idempotency` adds, per handler, the row that held its key and the rows that were settled
when its call began. `ServicePromises` puts these variables beside the whole service:
`Watch` only says how they change with a step of `ServiceNext`, which it never restricts
(theorem `WatchedIsService`). It is there to be proved about and has no run of its own:
the runs `idempotency` and `service` check its two halves.

### RatesService

| code | model |
|---|---|
| `s.queue` | `queue`, `closed`; `Offer` is the non-blocking send of `enqueue` |
| a worker in `process` | `work[w].at`: `wait`, `rate`, `upsert`, `complete`, `fail`, `exited` |
| `resync` in `New` and in `resyncLoop` | `resync["boot"]`, `resync["loop"]` |
| `run` in main.go | `phase`: `down`, `boot`, `serving`, `draining` (srv.Shutdown), `cancelled` (resyncWG.Wait), `closing` (workersWG.Wait), `disconnecting` (the deferred pool.Close) |
| a connection of the pool that `Close` waits for | `acquired` |
| `shCtx` | `expired` |
| `time.Now().UTC()` | `clock`, up to `MaxClock`: a wall clock, which `TimePasses` may set back |

`Signal` is the SIGTERM; between `CancelResync` and `CloseQueue` the loop may take one
more tick, because `select` chooses at random when both channels are ready. A handler
that reaches `enqueue` after `CloseQueue` panics (`EnqueuePanics`) and the recovery
middleware answers. After Shutdown (`ShutdownReturns`), or without it when
`ListenAndServe` fails (`ListenFails`), `run` returns and its deferred `pool.Close()`
waits for the connections in use (`ClosesPool`, `Exit`): any of the goroutines that are
at a statement may hold one. Those that come later are refused (`RepoRefused`,
`WriteRefused`, `ListRefused`). A handler's statement runs under `r.Context()`, which has no
deadline and which `srv.Shutdown` does not cancel, so `Close` may wait for ever (`Hung`).
A handler may still arrive while `draining`, on a connection accepted just before. `Crash`
is a killed process. `Dies` clears everything but tables, clock and the count of starts.
The provider is an environment that returns any price or an error, at any time:
`CachedUpdates` and `ProviderChain` look behind it. `Upsert` keeps the case that the
shared 5 s context is over, in which `FailUpdateRequest` does nothing. The deadline may
pass the moment `draining` begins (`DeadlinePasses`): `SHUTDOWN_TIMEOUT` is not clamped,
and zero or less is over from the start.

### RateCache, CachedUpdates

The clock ticks at any moment. A caller that missed goes through `inner` and `store`, the
second critical section; `paid` records when each caller paid, i.e. when its store ended.
A rate is its `FetchedAt`. `CachedUpdates` adds what `process` does with the rate: it is
held (`update[w].at = "stamp"`), stamped with `time.Now()`, and upserted. How old the
data of a quote can be depends on how late a goroutine may run, so there `Lag` bounds
the time over code that waits for nothing (from the answer to the store, from the return
of `Rate` to the stamp); calls of the provider and of the database take any time.

### ProviderAnswer, ProviderChain

`Worth` is the table of reference rates of the day. An honest body quotes it against
some base, the one asked for or another one it names; rates may be missing or zero, the
body may not parse, carry an error or no success. `Answers` is everything `Rate` of an API
may return to the layer above. Prices are fractions, so rounding plays no part. A
`time.Duration` is an integer in `-Half .. Half - 1`, and `Wrap` is its overflow, in
the seconds of `Retry-After` and in the shift of the backoff; the date form of
`Retry-After` is a difference of two times, which saturates. `AskedFor` is what the
provider means, whatever the code makes of it, and `FitsDuration` tells the seconds whose
product with `time.Second` does not overflow.

In `ProviderChain` a caller goes through gate, slot, inner call, sleep and fallback, for
primary and secondary; `select` on an expired context and a fired timer takes either. A
timer never fires early, a goroutine runs arbitrarily late. `slots`, `started` and `seen`
are history.

### Metrics, HttpApi

A counter is looked up or created under the mutex (`Register`) and incremented outside it
(`Add`); the seconds of a provider call go through `LoadSum` and `Swap`, which starts over
when another goroutine was faster. `HttpApi` runs connections through the handlers as
`New` nests them: recovery outside, then log and metrics (`Observe`, `Log`), the request
id (`SetId`), the routes (`Route`). `RouteCodes` derives from parsing, validation and the
error table which statuses each pattern can answer with; the service and the database
behind it are an environment. A request may have any of `Methods`, as the method label is
`r.Method`, which the client chooses; the route label is one of `Labels`. What `ServeMux`
answers itself (`MuxCodes`: 405, 404, redirects to a cleaned path, 400) is external, as
are the statuses of pprof. A panic (`RoutePanics`) unwinds to `Recover`. Routes that
never call `WriteHeader` are `ImplicitRoutes`, answered with the implied 200; so is a page
below `/swagger/`, under the label `unmatched`. Workers
count provider calls and plain counters at the same time.

### Startup

Each instance loads its configuration, runs every statement of `Migrate` and wires the
service. A migration is its place among the sorted names; `Shipped` says how many the
build of an instance embeds, so an old and a new build can start together. Row and body
are one transaction: `exec`, `insert`, `commit`. `CREATE TABLE IF NOT EXISTS` looks for
the table (`Ensure`) before it creates it (`Create`): the loser of a race fails on an index
of the catalog. `Insert` waits for an uncommitted twin and
fails on a committed one. `Breaks` is any failed statement or crash, at a commit also one
whose effect stays. `Load` (all counts and durations of the configuration, in
milliseconds), `Options` (what `service.New` and `resilient.New` clamp) and `SourceChain`
are pure operators.

## 3. Runs

| run | instance | shows |
|---|---|---|
| `idempotency` | 3 handlers, 2 pairs, 1 key, 3 rows, 1 fault | a key stored before the call wins (`StoredKeyWins`), no answer is stale (`AnswerIsFresh`), a healthy call fails only if a row of its pair was settled meanwhile (`HealthyErrorNeedsSettle`) |
| `idempotency_key` | 2 handlers, no faults | **violated** `KeyAnswersAgree` |
| `idempotency_race` | 2 handlers, no faults | **violated** `NoHealthyError` |
| `service` | 1 handler, 2 workers, no keys, queue 1, 2 rows and a late one, 1 fault, 2 starts | the service implements the ledger; settled rows are final; quote before status; order of shutdown. Deadlock is checked |
| `service_one_worker` | 1 worker, 2 rows and a late one, 3 clock values, 1 fault, 2 starts, steady clock | with one worker the quote goes back (`QuoteNeverOlder`), or fails to cover a completed request (`QuoteCoversCompleted`), only where an upsert given up earlier lands |
| `service_quote_race` | 2 workers, 1 row, steady clock, no faults | **violated** `QuoteNeverOlder` |
| `service_panic` | 1 handler, 1 worker, 1 row | **violated** `NoEnqueueAfterClose` |
| `service_live` | 2 pairs, queue 1, resync limit 1, 1 row and a late one, 1 fault, 2 starts, fairness | unless pool.Close() hangs on a handler for ever, every request is settled in the end and a shutdown ends |
| `cached_updates` | 2 workers, 1 pair, TTL 2, lag 1, time to 5 | who pays twice (`CallerPaysOncePerTTL`, `PaidAgainOnlyByOverlap`), how far back a store goes (`EntryHardlyRegresses`), how old the data of a quote is (`QuoteDataIsYoung`) |
| `provider_chain` | 2 callers, 3 currencies, 2 sources, 2 attempts, deadline 3, spacing 2, Retry-After of 0, 3 and 17 with durations of 4 bits, time to 4 | spacing and quota, attempts before the fallback, Retry-After, when the secondary is skipped, the price, the backoff |
| `http_api` | 2 connections, 2 workers, 4 methods, pprof on; 2 requests, or 2 worker calls, or one of each and a call | every reply is counted once and carries its id, no second of a provider call is lost, counters only grow |
| `startup` | 2 instances of the new build, 1 of the old, 3 environments each, 2 faults, fairness | migrations once, in order, recorded when applied; nobody serves before; usable options; everybody comes up |

What the violated runs found, each in a few steps and each against a sentence of the
repository (quoted in `PROJECT.json`):

1. *Key not kept.* A POST with key k while a request of the pair is pending gets that
   request, but k is not stored on it. Repeated after the request is settled, k creates
   another one.
2. *500 on a race.* INSERT hits the pending index, a worker settles that row, the two
   lookups find nothing: the client gets the unique violation as an internal error.
3. *Quote goes back.* Resync hands one request to two workers; the one that stamped its
   quote first writes last. The UPDATE of the status is guarded, the upsert is not.
4. *Send on a closed channel.* srv.Shutdown gives up at its deadline with a handler in
   its INSERT; svc.Shutdown closes the channel; the handler sends. The row stays pending
   and is picked up at the next start, the client gets a 500.

`service_one_worker` and `service_quote_race` assume a `Steady` wall
clock, one that is not set back: the second violation is one that a sound clock does not prevent.

Where a sentence of the repository says more than the code keeps and a weaker statement
is true, the true one is checked, and proved, instead:

- cached.go:2-3 and README.md:203-204 promise one paid call for N requests in a TTL. Two
  workers that miss together both pay. `PaidAgainOnlyByOverlap`: only calls that overlap
  do; whoever looks the pair up after another's store does not pay again within TTL.
- README.md:208-211 and main.go:84-86 say the secondary is asked when the primary has
  failed. Both share one deadline of 5 s; with the defaults one long attempt or one
  Retry-After uses it up. `SecondarySkippedOnlyLate`: nothing but the deadline keeps it
  from being asked.
- resilient.go's limiter promises a minimum interval. Slots keep it (`SlotsSpaced`), and so
  does the number of calls up to any moment (`QuotaHeld`); two single calls may be closer
  when the goroutine of the earlier slot runs late.
- README.md:172-173 puts `request_id` into the logs. withRequestLog wraps withRequestID
  (server.go:79), so its own line never has one, and a request whose handler panics is
  neither logged by it nor counted (middleware.go:75 says every request). `HttpApi` has
  both behaviours; `EveryReplyCarriesId` states what holds of the header, and
  `CountsMatchAnswers` counts the replies of the routes, not of the recovery.
- resilient.go:145-157 waits at least as long as Retry-After says, up to `MaxDelay`. The
  seconds are multiplied without a check (errors.go:55), so a number that does not fit a
  Duration may wrap to a short positive wait: 17 becomes 1 with the four bits of the run.
  `RetryNotBeforeAsked` is claimed of the waits that fit; of all of them `BackoffGrows`
  says that there is a pause, and none longer than `MaxDelay`.
- 0001_init.sql:1 calls a quote the last known value. Even with one worker an upsert that
  was given up after 5 s may still be executed over a newer one, as storage.go:158-163
  does not compare `updated_at`. `QuoteNeverOlder` and `QuoteCoversCompleted` say that
  this is the only way, with one worker, one instance and a steady clock.
- service.go:154-155 lets Shutdown wait within its context. It does, and then the
  deferred `pool.Close()` (main.go:55) may wait without one: `ShutdownEnds` is claimed
  where no statement of a handler hangs for ever.
- A quote's `updated_at` is the time of its writing, not of its data. `QuoteDataIsYoung`
  bounds the difference by TTL and two lags.

Bounds. `MaxRequests`, `MaxFaults`, `MaxStarts`, `MaxClock`, `MaxTime`, `MaxCalls` and
`MaxLoad` only cap counters. One handler at a time in the `service` runs, as several
handlers race in `idempotency`, and the theorems hold for any number. A queue of one and a resync limit of one make the full
queue and the cut list ordinary cases; two workers suffice for every conflict over one
row, as each conflict has two parties; a second start is what makes the restart after a
crash or a shutdown visible, and `Signal` and `Crash` are possible only before the last
start, so that the last process keeps running and deadlock and liveness mean something.
In `provider_chain` delays are one or two ticks, so jitter, a fifth of the delay, is zero
at that scale; a duration has four bits, so that a Retry-After of 17 wraps to 1 and the
shift wraps at the fourth attempt (`BackoffGrows` looks beyond it); the time lets a caller
begin at 0 or 1 and reaches both deadlines, so a secondary may use both its attempts. The two sources
are one API each, and the three currencies have rates that no two quotients share. In
`cached_updates` the time allows two TTLs and a lag; `startup` has every pair of
builds. A request weighs two worker calls in `MaxLoad`: two requests overlap, or two
calls, or a request and two calls, which is every conflict of the CAS loop and of the
registration. `PUT` stands for every method that no pattern has. Symmetry is used for safety only, over
interchangeable handlers, workers, callers, connections, keys and pairs, where no
definition orders them. Deadlock is off where the bounded run really ends (the clock has
stopped, all requests are used, everybody serves or has been refused); in the `service`
runs it is on.

Fairness. `FairServiceSpec`: weak fairness of each worker, each resyncer and each step of
`run`, since the Go scheduler runs every goroutine, and each call they wait in has a
timeout (5 s at the database, the provider's deadline). Of a handler only its own steps are
fair (`OwnStep`): its statements have no timeout and may never end. The ticker keeps
ticking and the process is started again. Strong fairness only for `LoopExits`: when
ticker and cancelled context are ready together, `select` picks at random, and in between
the loop is busy. Nothing is assumed of clients, signals, crashes or late writes. Both liveness properties
of the service are claimed of the runs in which `Hung` is not for ever. `EventuallySettled`
counts on `MaxFaults` being finite: the database works again in the end. `FairSpec` of
`Startup`: main's goroutine runs on, and whoever operates the service starts a process
again that ended with an error (docker-compose.yml names no restart policy for it); with
finitely many faults everybody then serves, or is refused for its configuration.

## 4. Proofs

All theorems rest on the named assumptions on the constants, two of them on `OneWorker`
besides. Each is an inductive invariant, a lemma per actor or action, frame lemmas for
what an actor leaves alone, and a last temporal step.

**FiniteInduction.** The provers cannot instantiate the library's induction theorems, as
those take an operator. `MinimalSubset` and `LeastNatural` say the same of the set of
counterexamples: a nonempty set of subsets of a finite set, or of numbers, has a minimal
member. Sums over a finite set follow (`TotalWith`, `TotalWithout`, `TotalSame`), for the
fold of the community modules (`TotalIsSum`) as it is used in `Metrics`.

**RatesService_proofs** (with the lemmas of `CreateRequest_proofs` for the handlers).
`ServiceInvariant`: `IInv` always holds. It is inductive where the single properties are
not. `CompletedHasQuote` needs `PublishedFirst` (a worker about to complete has a quote
out), which needs `IdsKnown` (ids in memory name rows) because rows are read through
those ids, and `LateKnown` (so do the statements given up, and a completion among them has
its quote out); `ResyncNeverPanics` needs `LifeCycle` (the channel is closed only in phase
`closing` or `disconnecting`, when both resyncers have exited), and `DrainedBeforeExit` needs it to know that
after the close nothing is enqueued. Crash keeps it since empty memory satisfies it.
`TypeCorrect`, `CompletedHasQuoteAlways`, `ResyncNeverPanicsAlways` and
`DrainedBeforeExitAlways` follow; `SettledIsFinalAlways` is the action property.
`Refinement`: `ServiceSpec => ImplementsLedger`. Lemma `NextTableStep` first shows
that whatever the step, the tables change by one of the four writes or not at all,
and a completion has its quote out; then each write is a step of `UpdateLedger`.
`QuoteNeverOlderAlways` and `QuoteCoversCompletedAlways` assume `OneWorker` and
`Steady`. `Stamped` adds
to the invariant that no stamp is ahead of the clock, that a quote about to be written is
no older than the published ones, and that a published one is no older than what a worker is
about to complete, unless it was left by a late upsert. Only the step `Upsert` needs the
first assumption, no other worker holding a stamp that would now be older, and only
`TimePasses` the second. The run `service_quote_race` is the case of two workers.
`LedgerUnambiguous` is a theorem about the abstract specification alone: a pair never has
two open requests, a key never two rows. `ServiceUnambiguous` is `Refinement` put to use:
what holds of the ledger holds of the service.

**Idempotency_proofs.** `PromisesKept`: keys are unique, and each handler is `Good`: the
row that held its key at arrival still holds it, what was settled then still is, and at
each statement the handler has passed the lookups that come before it; a handler after a
conflict knows a pending row of its pair that is still open or was settled since.
`CreateTypeCorrect`, `StoredKeyWinsAlways`, `AnswerIsFreshAlways`,
`HealthyErrorNeedsSettleAlways` follow, for any number of handlers, keys and pairs. The
second half is about `ServicePromises`. `PromisesKeptInService`: `Good` of every handler
together with the invariant of the service is inductive over `ServiceNext` too. What a
worker, a resync, the shutdown or a crash does to a waiting handler comes down to what
`NextTableStep` of the refinement allows: rows are only created and settled, and failed
calls are never forgotten (`FaultsKept`). `ServiceStoredKeyWins`, `ServiceAnswerIsFresh`
and `ServiceHealthyErrorNeedsSettle` follow, the last while the pool is open: a handler
that outlives the deadline also fails when the pool is closed under it.

**CachedUpdates_proofs.** First of `RateCache`: `CallerPaysOnce`, `OverlapOnly`. The
strengthening is `EntryOutlivesPayments`: the entry of a pair expires no earlier than TTL
after any payment for it, as later stores only move the expiry on.
`UsesTheCache`: `UpdatesSpec => Spec`, every step of the composition
is a step of the cache or a stutter, so that `WorkersPayByOverlap` is the cache's theorem
carried over. `TypeCorrect`, `QuoteDataIsYoungAlways` and `EntryHardlyRegressesAlways` need
an invariant that bounds, at each place, how far now may be ahead of the data a worker holds.

**ProviderChain_proofs.** `IInv` says of each caller where it stands and what its Rate went
through (`Good`), and of each source that its slots are spaced and behind `nextAllowed`.
`QuotaHeldAlways` needs that every call started has used up a slot of its own that was
not in the future: then the calls are no more than the slots up to now. `TypeCorrect`,
`SlotsSpacedAlways`, `RetriesBeforeFallbackAlways`, `RetryNotBeforeAskedAlways` (of the
waits that fit a Duration), `SecondarySkippedOnlyLateAlways`, and `PriceIsTheQuotientAlways` for all
currencies and rates: every body an honest API sends leads to the quotient or to an error.
`BackoffGrowsAlways` covers every attempt up to `Half + 2`, far beyond the width of a
duration: every pause is in `1 .. MaxDelay`, without an assumption on the delays. That
it grows is claimed while `BaseDelay << (n - 1)` fits a Duration, and for all n where
`BaseDelay * MaxDelay < Half`: `Half` is a power of two, so a value that wrapped around is
still a multiple of what `BaseDelay` was multiplied by, which is above `MaxDelay` then, and
`d <= 0 || d > MaxDelay` catches it. The product fits for the default delays in
nanoseconds; `PROVIDER_RETRY_MAX_DELAY=60s` already exceeds it, and nothing in config.go or
resilient.go prevents that. Even then the shift has to pass the width of a
duration, which takes 35 doublings of the default delay.

**HttpApi_proofs.** `InvariantHolds`: for each label set the value of its counter, the
goroutines about to add to it and the connections not yet observed make up the replies
(`Accounted`); a goroutine about to add has its label set registered; the recorded status
is the one written. `CountsMatchAnswersAlways`, `EveryReplyCarriesIdAlways`,
`CountersOnlyGrowAlways`. `TypeCorrect`: a series has a route that `routeLabel` knows and a
code of 200 to 503, under whatever method the client sent; the method is the one label
that is not bounded. `ProviderTotalsAgreeAlways`: `SummaryInv` says that the seconds spent
are the sum plus what each goroutine in a provider call still owes to it, and that the two
result counters are the count plus the calls between counter and count. Only the swap that
wins pays its debt; one that loses starts over and owes as before.

**Startup_proofs.** `VersionIffAppliedAlways` and `AppliedInOrderAlways`: the invariant
adds that whoever is at name n has the names before n applied (`BehindApplied`), that
an uncommitted row has no committed or second uncommitted twin (`RowExclusive`), and that
rows presuppose the table (`TableFirst`). `TypeCorrect`, `ServesMigratedAlways`.
`OptionsUsableAlways`: whoever serves has loaded an environment without error, and every
such environment, whatever its strings and numbers, leads to usable counts, timeouts,
intervals and retry delays. The shutdown timeout, the TTL and the HTTP timeouts are not
among them: nothing clamps those.

Only model-checked: liveness (`EventuallySettled`, `ShutdownEnds`, `EventuallyServes`),
which the prover does not handle. Every invariant and action property of the passing runs
has a theorem. The violated properties of section 3 have none, being false.

## 5. Assumptions and what is not modelled

Assumed:

- PostgreSQL rolls the open transaction of a dead instance back at once; the
  loser of a race for a migration gets an error and its process exits (main.go:63-66).
- One instance of the service per database, but for the migrations of `Startup`. Two
  instances share the rows and hand the same requests out by resync, so with `WORKERS=1`
  each they are two workers to `OneWorker`, and a quote may go back as in
  `service_quote_race`.
- For `QuoteNeverOlder` and `QuoteCoversCompleted` only: the wall clock (service.go:226) is
  never set back, neither in a process nor between two (`Steady`). All else
  is proved of the service with a clock that jumps either way (the run `service` lets it
  stand, as nothing it checks reads a stamp).
- The order of `created_at` is the order of commits.
- A duration is a machine integer (`Half` is a power of two).
- An API that answers with rates answers with rates of the day.

Not modelled: the choice of the logger and the wording of log lines, error texts, JSON
bodies, the text format of `/metrics`, swagger and openapi pages, what `/debug/pprof` shows (net/http's),
the rounding of NUMERIC(20,10), and strings of the configuration nothing branches on
(addresses, URLs, log format). In `Startup` a failing ping of the database counts as the
failure of the first statement. A request with an invalid or unsupported
pair is a status in `HttpApi` and no action of `RatesService`, as it changes nothing. So are
the GET handlers and `/healthz`: they only read. They too hold a connection under
`r.Context()`, so `Hung` may be their doing as well; one kind of handler is enough for it.

## 6. Plan

Done: every component of section 1, the two refinements, a proof for each module with
state, the ledger's own safety carried over to the service, the promises of POST in the
whole service. What is left: the cache over the chain under the service as one
composition, with `Rate` of `ProviderChain` in place of the environment of `RateCache`.
