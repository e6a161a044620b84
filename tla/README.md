# Verification of platform-ts

This directory holds a TLA+ development beside the packages of platform-ts: models of the parts
whose correctness depends on interleavings, failures, crashes and time, TLC runs that check them on
small instances, and TLAPS proofs of what matters most for every value of the constants.

`tlc -config X.cfg M.tla` repeats a run and `tlapm M.tla` a proof. `PROJECT.json` lists the runs,
the mutants each property is tested with, the source lines behind every definition, the findings
and the hazards.

## 1. The system

The repository is a workspace of 38 packages under `src/packages`. Each is a small interface with
interchangeable providers; an application composes them. There is one process model throughout, an
event loop: code between two awaits is atomic, everything else interleaves, with itself, with
subscribers' callbacks, with timers and with other processes that share a store.

| Package | State it keeps | Operations | What makes it hard | What makes it correct |
|---|---|---|---|---|
| idempotency | one record per key in a `Cache`, one lease per key in a `DistributedLock` | `run` | concurrent runs, expiry, crashes, failed writes that land, mixed builds | work runs at most once at a time and not again behind its result; replays are faithful; every run is answered; claims end |
| distributedlock | a row or key per lock, with its expiry | `acquire`, `refresh`, `release` | lapsed leases, lost answers, re-sent commands, three stores that differ at the boundary | holders exclude each other; a lease ends; callers are told the truth |
| circuitbreaking | state, failure count, probe count, two timestamps per partition | `canProceed`, `succeeded`, `failed` | calls that report after the circuit has changed, or never | probes bounded; opens on consecutive failures; never shut for ever |
| database | connection pools, pinned connections, async context | `query`, `withTransaction` | a statement that fails may have taken effect, or ended its transaction; pooled connections carry state over | resolved work lands, undone work does not, connections come back clean, callers end |
| eventstream | state, one socket or source, heartbeat and reconnect timers | `connect`, `close`, subscriptions | subscribers that call back in the middle of a handler, timers that fire late | one connection; nothing after close; dropped connections heal |
| eventcapture | ring buffer, promise chain, aggregation cells, pending lines, rotated files | `record`, `flush`, `close`, sink and aggregator calls | recording while the chain awaits file operations, failures and crashes inside a rotation | no uncounted loss, order, a complete close, windows reported once |
| messagequeue | subscriptions, promise tail, per-topic cache, offsets | `publish`, `consume`, `close` | at-least-once delivery, abort while a handler runs, reuse after stop | nothing acknowledged before it was handled; consumption ends when told |
| cache | a `Map`, redis keys or web storage, with expiry | `get`, `set`, `delete`, batches | eviction at the cap, quota, healing of corrupt entries, lost answers | what is read was live during the call; what is lost was lost for a reason |
| ratelimiting | a window per key | `limit`, `reset` | eviction, window boundaries, the script sent twice, a counter without expiry | never more than the limit in a window; a denied caller can rely on `resetAt` |
| secrets | cache and in-flight map | `get`, `getRequired` | shared upstream calls, rotation, a failing cache | bounded staleness, one call for all who wait |
| uploads | objects and sidecars in a bucket | `save`, `open`, `attributes`, `delete`, `exists`, `list` | a save of several file operations, crashes, pages | objects are whole; answers were true during the call |
| retry, httpclient, email, llm | an attempt counter, signals, instruments | `run`, `request`, `send`, `complete`, `completeStream`, `ping` | aborts and timeouts racing answers; requests the server ran although no answer came | only what may be replayed is; abort is final; answers and counters are earned; timed calls end |
| healthcheck | checkers by name | `register`, `check` | hanging components, three deadlines racing | a report is as bad as its worst component, no worse, and ends |
| analytics | a reporter per source, the vendors' buffers | `track`, `flush`, `shutdown` | background delivery that fails, unknown and broken sources | every event is accounted for; a flush ends |
| authorization | a policy and a memo | resolve roles, test permissions | inheritance, cycles, a memo by set of names | agreement with a reference definition |
| cookies | a request's cookies and those pending | `get`, `set`, `delete` | encoding, foreign values, refusals in the middle of a request | what a handler leaves is what the next request reads |
| filtering | none | read and write filters, page results | boundaries of the limit and the cursor | walking a list sees every row once |
| authentication, encoding, files | none | TOTP, hashes, bounded bodies, lines, paths | boundaries, pieces cut anywhere | agreement with a reference definition, limits |
| notifications, featureflags, search, others | none of their own | one vendor request each | the vendor's behaviour | request shaping |

How they interact: idempotency calls cache and distributedlock; uploads and search ask the circuit
breaker before each downstream call and report after it; httpclient runs requests under retry;
the email and LLM transports retry in the same way; secrets memoizes in a cache; everything reports to observability, on which nothing depends.

## 2. Plan

Order of work, most important behaviour first.

| Step | Modules | Status |
|---|---|---|
| 1 | `AtMostOnce` (abstract), `Idempotency`, `IdempotencyProofs` | done |
| 2 | `LeaseLock` (abstract), `LockProviders`, `LockProvidersProofs` | done |
| 3 | `CircuitBreaker` with its users | done |
| 4 | `Transactions`, `TransactionsProofs` | done |
| 5 | `EventStreams`, `EventStreamsProofs` | done |
| 6 | `JsonlSink`, `EventRecorder` (which composes it with the aggregator) | done |
| 7 | `MessageQueue`: the publishers and consumers of redis, kafka, sqs, Pub/Sub and memory over their brokers | done |
| 8 | stores: `Caches`, `Secrets`, `Buckets`, composed by `Stores`, under `MCStores` | done |
| 9 | outgoing requests: `HttpRequests` (retry, HTTP client, email, LLM), `HealthChecks`, `Analytics`, composed by `Outgoing`, under `MCRequests` | done |
| 10 | incoming requests: `RateLimits`, `Cookies`, `Filtering`, composed by `Serving`; `Authorization`, `Credentials`, `TextStreams`; all under `MCServing` | done |
| 11 | proofs of the refinements of `AtMostOnce` and `LeaseLock`, and of the safety properties of steps 1 to 5 and of `Caches`, `RateLimits` and `HttpRequests` | done |
| 12 | `MessageQueueProofs`, `EventRecorderProofs`, and proofs of `Secrets`, `Buckets` (`StoresProofs`, with `Caches`), `HealthChecks` and `Analytics` (`ResilienceProofs`, with `HttpRequests`, `CircuitBreaker`, `RateLimits`) | done |
| 13 | proof of `EventRecorder.EventsAreAccounted`: every event counted once, every record traced, files in order (`EventRecorderProofs`) | done |
| 14 | proofs of `Cookies` and `Filtering` (`ResilienceProofs`, through `Serving`) | done |

## 3. The models

Every module follows the same conventions. A call to something remote is one action that takes it
and one per way it can turn out; what the code does between two awaits belongs to the action of
the first. Time is kept as remaining lifetimes or capped ages, so it never runs out and needs no
absolute bound. Names are the source's where TLA+ allows. An operator commented "Mutant of" is not
part of a specification; it is a plausible bug the properties are tested with. There are more of
them than `PROJECT.json` lists: where a property is a conjunction over several parts, each part has
one of its own.

`Stores`, `Outgoing` and `Serving` each hold several components that share nothing. Each extends one
component (`Caches`, `HttpRequests`, `RateLimits`), instances the others and leaves every constant
open: they are what `StoresProofs` and `ResilienceProofs` prove about. `MCStores`, `MCRequests` and
`MCServing` extend them with values, so that the runs check the very definitions the theorems name.
A behaviour of `Stores`, `Outgoing` or `MCServing` chooses one component at the start (`part`), and the
others stay as they began, so that the state space is the sum of theirs. `Serving`, and so its theorems,
interleaves its three; `MCServing` chooses among these and the three packages that compute. The components state their assumption on the constants as a definition (`CachesAssumption` and so on),
which the composing module assumes.

### Idempotency (`Idempotency`, abstract `AtMostOnce`)

One key. `record` is the cache entry with its remaining life, `lease` the claim lock, and each
request has a `pc` for the stage of `manager.node.ts` it is in:

| Code | Actions |
|---|---|
| pre-read in `run` | `PreReadHit`, `PreReadMiss`, `PreReadFails` |
| `withLock` | `Acquire`, `AcquireRefused`, `AcquireFails`, `RetryAcquire`, `GiveUp`, `Unlock` |
| `#claim` | `ReReadHit`, `ReReadMiss`, `ReReadFails`, `WriteClaim`, `WriteClaimFails` |
| the callback | `WorkReturns`, `WorkUnrecordable`, `WorkThrows` |
| `#stillOurs`, `#commit`, `#release` | `ConfirmOurs`, `ConfirmLost`, `Commit`, `Release` |
| everything else | `Tick`, `Crash` |

A failed remote call lands or does not, and has done so by the time it fails. The documented rules
of deployment are two constants: `PromptWork`, no execution outruns its claim (the
package README's rule on `inFlightTtlMs`), and `PromptLock`, no claim section outruns its lease. With
`FailOpen` off and one record version they make up `Guarded`, under which the safety properties
are claimed. The store keeps entries for their ttl; a cache that evicts live entries
(`Caches`) takes a claim or a result with them, and this model with it: it speaks of caches with room.

`AtMostOnce` says what callers are promised without stores, locks or time: a key is free, held by
one execution, or settled, and an answer never contradicts that. `KeepsPromise` is the refinement.

### Locks (`LockProviders`, abstract `LeaseLock`)

One key, one provider chosen at the start. A call is asked, served by the store and answered in
three steps, so a lease may lapse between any two; an answer may be lost while the command lands,
and ioredis may send a command again (`Resends`, its `maxRetriesPerRequest`). A row's life runs to
-1, so that "expires now" and "expired" differ as they do in the SQL. `sure` is what a holder may
rely on, counted from when it asked. Assumptions: each Lock has one refresh outstanding at a time,
and the memory provider serves within the call. `close()`, `ping()` and the noop provider are
left out.

### Circuit breaker (`CircuitBreaker`)

One partition and its callers, the `Client`s, that admit, run and report in separate steps. `Unpaired` callers
leave without reporting, as `Uploader.list` and the search of an empty query do. Instants are kept
as ages up to `OpenDuration`, which is all the code compares. `recent` is the history that bounds a
flood: how many probes were let through in the last 1, 2, ... ticks of a stretch of `openDurationMs`.

### Transactions (`Transactions`)

`withTransaction` calls, one of them nested, and pool-level writes over the postgres, mysql and
sqlite adapters. A callback makes up to `Writes[t]` writes one after the other; `made` and `failed`
are what it was told of each. Any statement may fail, with or without effect, those of the callback
included, which then rethrows (`Throws`) or goes on (`Write`, `Resolves`).

| Code | Actions |
|---|---|
| `withTransaction` up to BEGIN | `Call`, `CallNested`, `Checkout`, `ConnectFails`, `Begin`, `BeginFails` |
| the callback | `Write`, `WriteFails`, `Resolves`, `Throws` |
| COMMIT, `#rollback`, `#release` | `Commit`, `CommitFails`, `Rollback`, `RollbackFails`, `Release` |
| `query` through the pool | `PoolQuery` |

What databases make of a statement is external (`Execute`, `ExecuteFails`, `Opens`, `Lands`,
`Discards`, `StaysOpen`). A failed statement may end its transaction: postgres aborts it, refuses
what follows and answers the COMMIT with a rollback; mysql (a deadlock) and sqlite (a full disk) roll it
back at once, so that later writes commit by themselves. `open` therefore keeps a status beside the
work of each connection. `withTransaction` knows nothing of this: it resolves when COMMIT is answered.
`loose` is the history of the calls one of whose statements was taken when their transaction was over.
Releasing never fails, as the adapters guarantee. Not modelled: `isReady`, `close`, read pools, and
use of a transaction handle after its end.

### Event streams (`EventStreams`)

The emitter with its SSE and WebSocket transports. `stream` holds their fields and the sockets,
`todo` the rest of the handler that is running: subscribers run in the middle of a handler, may call
`close()` and `connect()` there, and the handler then goes on. Delays are abstracted: a pending
timer may fire at any time. `MaxDepth` bounds how deep such calls nest.

### Event capture (`JsonlSink`, `EventRecorder`)

`JsonlSink` is the sink: `io` is the flush under way, which goes through the file operations
`open`, `close`, `rename`, `reopen`, `prune` and `write`. Each in `Faulty` may fail; a failed write
may have written a part, which `#writtenBytes` does not count. Sizes are counted in lines, lines are
whole, and rotated files are in the order of rotation; a file that was removed leaves its place in
that order empty. A write that succeeds is complete.

`EventRecorder` composes it with the recorder and an aggregator wired as the package README does.
The promise chain is kept flat, as the sequence of steps to run; callers record, flush and close
and the timer ticks while a step awaits the sink. `Skipped` are the events whose transform yields no
record or throws. `Crash` restarts the process on the same files. The metrics are left out except
the overflow count, whose report resets it. `due` and `fate` are history: the records given to the
sink, and where this process has counted each event. Also left out: the abort signal of `close()`, which
only rejects its promise, and `rawRecords: false`.

### Message queue (`MessageQueue`)

One topic under each provider: `publish` calls, what the broker keeps (`log`, `settled`, `out`), and
one process' cached consumer, whose `consume()` may be called more than once. Deliveries wait in
lanes, each running one handler at a time:

| Provider | Lane | Settled by |
|---|---|---|
| memory | one per publish: its fan-out to the subscribers of the moment | nothing; a failed handler's message is gone |
| redis | one per consumer: the promise chain `#tail` | nothing |
| kafka | one per consumer: the reader's current message | `SettleSucceeds`: the commit, which passes all before it |
| sqs | one per `consume()`: the batch of the loop | `SettleSucceeds`: the deletion |
| Pub/Sub | one per delivery | the ack, sent without waiting |

| Code | Actions |
|---|---|
| `publish` | `Publish`, `PublishLands`, `PublishFails` |
| `consume` up to its subscription | `Consume`, `ConsumeAborted`, `SetupSucceeds`, `SetupFails` |
| the abort listener, `#stop` | `Abort`, `Disconnected`, `LoopEnds` |
| the CRASH event | `ReaderCrashes` |
| receiving | `Fetch`, `Receive`, `ReceiveFails`, `Push`, `Lapse` |
| `#deliver`, `eachMessage` | `HandlerReturns`, `HandlerThrows`, `SettleSucceeds`, `SettleFails` |
| the provider's `close` | `Close`, `Drained`, `Closed` |

What the brokers and kafkajs do is external. Two of its assumptions are constants: `FreshGroup`, the
kafka group has committed nothing yet, and `LateStart`, kafkajs goes on with a setup whose reader
was disconnected; both are off in the run. With the first on, a restarting reader skips what failed
(a finding); with the second on, a signal aborted during the setup leaves a reader running. `sole`
records the calls whose consumer has served no other, of which alone the shutdown property holds.
Left out: the publishers' own shutdown, `ping`, `TopicCache` (its builds never await, so the race
it guards against cannot occur), kafka rebalances, messages without a body, and the noop provider.

### Stores (`Caches`, `Secrets`, `Buckets`)

`Caches`: one cache under the memory, redis, web-storage or noop provider. A call works through its
keys (`todo`). A local store answers a key per turn of the event loop (`MemoryGet`, `MemorySet`,
`LocalDelete`, `WebGet`, `WebSet`, `NoopCall`): a batch awaits single calls one after another, which
makes a turn per key. A redis command is sent, served and answered apart: an MGET at one instant
(`Reads`), the commands of a pipeline one by one (`Writes`). `Heal` is the second command with which
a reader deletes what it found corrupt, whatever is there by then. `RedisFails` rejects a call whose
commands may still be on their way: `StrayMoves` serves what is left of them one by one, or they never
land. `Scribble` is a text that is not JSON, from another program. `written` and `seen` are histories: what the last write to reach a key left there, and what
was live at any moment of each running call. A `Map` keeps the order in which keys came into it;
`order` is that relation, the pairs of a key and a later one, since the code asks no more of it than
which is the oldest. `MapIsSound` says that it is a total order of what is there, within the cap.

`Secrets`: the six sources; the remote ones behind a `CachingSecretSource` or not. `LookUp`,
`CacheFails`, the call (`SsmAnswers`, `GcpAnswers`, `KubectlAnswers`, `RemoteFails`) and `Store` are
the awaits of a cached read, `inflight` the reader whose call the others of a key share, `Settle`
what they all get. `Rotate` changes a secret at its vendor; `was` is the history of what each secret
was at each instant.

`Buckets`: the calls of two users. The filesystem bucket goes one file operation at a time: the
temporary file of a save, its rename, its sidecar (`SaveBegins`, `BodyEnds`, `BodyFails`, `Rename`,
`Cleanup`, `SaveAttrs`, `FillAttrs`), and the walk of a `list`. The services put, delete and read whole
objects and list a page at a time (`NextPage`); a request may land without an answer, and one that was
accepted outlives the call that made it, and its process (`strays`, `Outlives`). `SaveBegins` checks the size of a body that is
there as a whole, except under the noop manager, which checks nothing; a stream is cut off at the limit
(`Admitted`, `BodyFails`). `Breakdown` ends every call and leaves temporary files (`litter`) and requests
on their way.

### Requests (`HttpRequests`, `HealthChecks`, `Analytics`)

`HttpRequests` is one call that goes out over fetch, whatever its API (`request.api`): the HTTP
client's `request`, `send` of the REST transports and of postmark's SDK, the LLM vendors' `complete`
and `completeStream`, `ping`. `Call` asserts and starts it; `Attempt` makes the attempt's signal
(`SignalOf`) and puts it on the wire; `Serves` runs it at the server, `Arrives` and `Lost` are what
becomes of its answer, `StrayRuns` is a server that runs what its client has given up. `AttemptFails` and
`Sleep` are the retry policy. `HttpAnswered`, `Sends`, `Completes`, `Streams`, `Pings` and their
variants are what each vendor's code does with an answer, down to the instruments it tells (`tally`).
Postmark's `ping`, a call of its SDK without
a signal, is left out. `Abort` is the caller's signal, at any moment; `AttemptEnded` and `Cut` are an attempt whose own signal
ends it, before its answer and while its body is read; `Broken` is a body that breaks off. A
back-off is a wait of any length.

`HealthChecks`: `Register` replaces the checker of a name; `Check` starts every checker at once;
`Answers`, `Throws`, `OwnTimeout` (the checker's deadline), `Deadline` (the registry's) and `Halt` (the
caller's abort, whose reason need not be an `AbortError`) race; `Collect` makes the report. `own` is
the history of what components answered in time.

`Analytics`: `Report` routes an event to the reporter of its source and stamps the source; `Deliver`
and `Fails` are the SDK's background delivery of a batch; `FlushAll` starts a flush or a shutdown,
which the vendor ends (`WorkEnds`), or the reporter's own deadline (`Abandon`).

### Incoming requests (`RateLimits`, `Authorization`, `Cookies`, `Filtering`, `Credentials`, `TextStreams`)

`RateLimits`: the `Map` of the memory limiter (`MemoryLimit`, with its sweep and eviction, its order
kept as in `Caches`) and the script of the redis limiter (`ScriptRuns`, then `Answered`, which decides
and reckons `resetAt` when the answer arrives). `SentAgain` is ioredis sending a command twice,
`RedisError` a rejection under `FailOpen` or not, whose command may still run later (`late`: `Sent`, `Run`), `Persist` an operator or a restore that takes a
counter's expiry away, which the script repairs. `ledger` is the history of what was asked of a
window and granted from it.

The other five compute rather than coordinate. Their operators are those of the source; a behaviour
chooses an input, or makes a few calls in sequence, and the properties compare what comes out with
a definition written independently of the algorithm.

| Module | Code | Compared with |
|---|---|---|
| `Authorization` | `ValidateRoles`, `DetectCycles`, `ExpandInheritance`, the resolver's memo, grants over the wire | `Ancestry`: the roles reached over any number of steps; a refusal has its cause |
| `Cookies` | `HeaderSet`, `HeaderDelete`, `Respond`, the page's store, `ParseCookieHeader` | a handler's last word on a name against what the next request reads |
| `Filtering` | the filter to and from URL parameters, `NewQueryFilteredResult`, a client that follows the cursors | all rows, in order, once |
| `Credentials` | TOTP with its window and base32, scrypt hashes with the bounds of `verify` | the steps a code is good for; the password hashed |
| `TextStreams` | the SSE reader, lines whole and streamed, chunks and slices, bounded bodies, names below a directory | `Payloads` of the uncut text; both ways to read a file; the length of a body; how often a name goes up and down |

`Serving` composes `RateLimits` with `Cookies` and `Filtering`, which keep state from one step to the
next; the other three are instanced by `MCServing` only.

`MemoKey` is the source's: the role names sorted and joined with a NUL. Names are words over a small
alphabet, and of those with a NUL in them, which `validateRoles` lets pass and whose keys can coincide,
`AuthorityIsExact` says nothing. A TOTP secret is typed with spaces in front, in the middle, before its
padding or behind it (`Typed`); the code refuses the last (a finding), and the property says so.

HMAC, scrypt, codecs, browsers and the SQL query that reads a page are external: they are modelled
by what the code relies on (different inputs, different codes; a jar that keeps what it is sent).
`Authorization` and `TextStreams` declare RECURSIVE operators, as the code recurses, so they are for
TLC only.

## 4. The runs

| Run | Instance | Shows |
|---|---|---|
| `idempotency_safety` | 3 requests, 2 fingerprints, every call faulty, guarded | work excludes work (`AtMostOneExecution`) and does not run behind a result; only owners settle; `AtMostOnce` implemented |
| `idempotency_liveness` | 3 requests over 2 builds, used store, fail-open, no timing rule | replays faithful; runs answered and claims end (`RunsAndClaimsEnd`) |
| `lock_providers` | 2 acquirers, 3 providers, ttls 1 and 2, 1 re-send | holders exclude each other; `LeaseLock` implemented; leases end |
| `circuit_breaker` | 4 callers, threshold 2, 2 probes | probes bounded; consecutive failures counted; never wedged |
| `transactions` | 3 transactions of 2, 1 and 0 writes, one nested, 1 pool write, 2 connections, 3 drivers, every statement failing | work lands as its caller was told, and whole (`WorkLandsAsTold`); connections clean; commits land only their own work; calls end |
| `transactions_rollback` | postgres | **violated**: rejected work lands after a failed ROLLBACK |
| `event_streams` | 3 sockets, both transports, depth 2 | one connection; quiet after close; nobody stranded; drops heal |
| `event_capture` | 3 events, 2 keys, buffer 2, 1-line files, 1 kept, all operations faulty | events accounted for, in order (`EventsAreAccounted`); complete close; windows once; close ends |
| `message_queue` | 2 messages, 2 `consume()` calls, 5 brokers, 1 crash | nothing settled unhandled; failed messages come again; calls end, connections closed |
| `stores` | 2 clients of each; cache of 3 keys, cap 2; 1 secret by 2 keys, 1 rotation; 2 objects, 1 crash | answers live, losses justified (`ReadsAreLive`, `LossIsJustified`); secrets fresh and objects whole (`StoresAreTruthful`) |
| `requests` | one call of every kind with every mix of method, policy, deadline, signal; 2 components; 2 sources, 2 events | only idempotent calls replayed; abort is final; answers and counters earned; reports true; every bounded wait ends (`WaitsEnd`) |
| `serving` | limit 2 with 2 of 3 windows kept, 2 callers; 3 roles with up to 2 parents; 2 cookies, 5 steps; 4 rows; 15 instants; texts of 4 tokens | no window grants too much, and callers can rely on what they are told (`WindowHolds`); cookies and filters arrive as written (`WritesAreReadBack`); walks cover the list (`PagesCoverTheList`); the other agreements of the table above (`AuthorityIsExact`, `DecodingIsExact`) |

Several properties are conjunctions whose parts, named in their modules, say one thing each:
one run of a property covers them together, and the conjunct of types is the type invariant.

Bounds, and why they are enough:

- Requests, acquirers and callers: races are between two, a third meets what two have left. TLC's
  symmetry is used only for the two requests that send the same thing, and never with liveness.
- Lifetimes of 1 and 2 ticks: every order of expiry against every step occurs, and 2 lets a claim
  and a lease end at different times.
- `FailureThreshold`, `HalfOpenMaxAttempts` and `OpenDuration` of 2: the smallest at which a
  count can be partial; with 4 callers a late report meets a full quota.
- Two connections and three transactions: one has to queue, and a connection is used again. Two
  writes in a callback (`Writes`): the second meets what a failure of the first has left, and makes work
  that could land in part.
- Three sockets: the current one, one being replaced, one a subscriber opens in between.
  `MaxDepth` 2: a notification inside a notification.
- Event capture: the third line already finds a file rotated and a rotated file to prune.
  `MaxEvents`, `MaxNow` (windows) and `MaxChain` (chain length at which no further flush or tick
  joins) are the bounds.

- Message queue: a commit can pass a failed message only when there is a second; a second `consume()`
  is what meets a consumer that has been stopped. `MaxCrashes` is the bound, and a crash comes
  during a delivery, where it makes a difference.
- Stores: three keys in two places make an eviction, in the cache and in the limiter; calls of two clients and three calls in
  all put a write between a reader's two commands, or a rotation and an expiry into a shared call. `MaxCalls`,
  `MaxChecks`, `MaxReads` and `MaxJobs` count calls, `MaxFaults`, `MaxRotations` and `MaxBreakdowns` what
  happens to the stores, the horizons the clock. A page of one key lets a listing meet changes
  between pages. The two clients, and the limiter's two callers, are symmetric;
  those runs have no liveness property.
- Requests: three attempts are the first with one before and one after it. Of the methods one may be
  replayed and one may not. Two components, one of which decides the aggregate.
- Incoming requests: three roles make every shape of diamond and cycle; five steps are a request, two changes, its
  response and the next request; the limits surround both ceilings; instants reach two steps beyond
  the widest window; four tokens hold two lines with their ends cut in between.

`CHECK_DEADLOCK FALSE` is set where a finite number of calls can all be done. The breaker and
the passing stream run are checked for deadlock.

Fairness. `Idempotency`: the clock goes on, and a run that has been called is resumed when its
remote call returns. `LockProviders` and `CircuitBreaker`: only that time passes; nobody has to
call, answer or report. `Transactions`: each call takes its next step, as every statement settles;
sqlite's queue and the pools' are first come, first served. `EventStreams`: the running handler
goes on, reconnect timers fire, and a connection that is tried again and again opens at some time
(strong fairness: a server that is reachable in the end); nothing is assumed of messages or
subscribers. `EventRecorder`: the chain takes its next step and file operations answer, either way. `MessageQueue`: handlers, brokers and connections
answer, either way; hidden messages reappear; and a broker that is asked again and again hands out
each message it has in the end (strong fairness, as a batch keeps the sqs loop from asking). `Outgoing`: what the process itself
does next happens, timers and signals included (`Moves` of each module); nothing is assumed of
servers, networks, components or vendors, so that what ends does so without them. The stores and the
packages of `MCServing` have no liveness property: their calls wait for nobody but their store.

## 5. What is proved

Each theorem holds for every value of the constants that satisfies the module's assumption: any
number of callers, keys, connections and sockets, any lifetimes, caps and thresholds, any faults.
The assumptions are those the code makes of its configuration (positive durations, caps and attempts)
that `None` is none of the values it stands beside, and that there is a key and a value at all. None of the theorems uses fairness. A
property is proved as `Init => IInv`, `IInv /\ [Next]_vars => IInv'` and `IInv => Property`, with a
lemma per action or group of actions; an action property follows from `IInv` at each step.

| Module | Theorems (property) | Condition |
|---|---|---|
| `IdempotencyProofs` | `TypeCorrect`; `ReplaysAreFaithful` (`ReplayIsFaithful`) | none |
| | `ExecutionsExclude` (`AtMostOneExecution`), `ResultsEndExecutions` (`NoExecutionBehindResult`), `ClaimsLandOnFreeKeys`, `OwnersSettle` (`OnlyOwnerSettles`) | `Guarded`: the documented deployment rules |
| | `PromiseKept` (`KeepsPromise`: refines `AtMostOnce`) | `Guarded`, `FreshStore` |
| `LockProvidersProofs` | `TypeCorrect`; `HoldersAreExclusive` (`HoldersExclude`); `LeasePromiseKept` (`KeepsLeasePromise`: refines `LeaseLock`) | none |
| `TransactionsProofs` | `ToldAsItIs` (`WorkLandsAsTold`); `ConnectionsComeBackClean` (`ReturnsClean`); `CommitsAreOwn` (`CommitsOnlyOwn`) | none |
| `EventStreamsProofs` | `ConnectionsAreSingle` (`OneConnection`); `CloseIsFinal` (`ClosedIsQuiet`); `StreamsGoOn` (`NeverStranded`) | `ErrorsAreOnlyHeard` |
| `EventRecorderProofs` | `ClosedIsComplete` (`CloseIsComplete`); `WindowsAreReportedOnce` (`WindowsStayClosed`); `EventsStayAccounted` (`EventsAreAccounted`) | none |
| `MessageQueueProofs` | `NothingIsLost` (`HandledBeforeSettled`) | `~FreshGroup` |
| `StoresProofs` | `AnswersWereLive` (`ReadsAreLive`); `LossesAreJustified` (`LossIsJustified`); `StoresTellTheTruth` (`StoresAreTruthful`) | none |
| `ResilienceProofs` | `FloodsAreBounded` (`FloodBounded`); `FailuresAreConsecutive` (`CountsConsecutive`) | none |
| | `LimitsAreKept` (`WindowHolds`); `WritesReachTheReader` (`WritesAreReadBack`); `WalksCoverTheList` (`PagesCoverTheList`) | none |
| | `ReplaysAreAllowed` (`ReplaysOnlyIdempotent`); `OutcomesAreEarned` (`AnswersAreEarned`); `AbortsAreFinal` (`AbortIsFinal`); `ReportsStayTrue` (`ReportsAreTrue`) | none |

Where a property includes `TypeOK`, so does its theorem. The arguments:

- **Idempotency.** Mutual exclusion is not inductive, since nothing in it says why a run about to
  write its claim may do so. `IInv == TypeOK /\ LockHeld /\ ReReadHolds /\ ClaimHeld`: a run inside the
  locked section owns the lease; what it re-read is still so, since only an owner of the lease
  writes claims; and a run executes only behind its own in-flight record. `Tick` is where the
  deployment rules enter: without `PromptWork` it would end a claim under its execution. Faithful
  replays need none of this but the evidence in `HInv`: the stage a run is in tells what it has
  claimed and produced, a record tells of the run that wrote it, an answer of the record it came
  from. The refinement joins both (`PInv`) and needs a store in which an earlier build has left
  nothing these builds would take for their own (`FreshStore`): a leftover result answers for an
  execution the promise has never seen. The run checks `KeepsPromise` on such a store.
- **Locks.** `IInv == TypeOK /\ LeasesBacked /\ CallsInOrder /\ AnswersBounded`: what a holder relies on
  never exceeds the life of its own row, calls of a token come in the order its caller can make
  them, and no answer promises more than the row has left. The refinement adds (`PInv`) that only a
  served call is answered ok, that redis drops a row the moment it expires, while SQL keeps it, and
  that a caller who went away has no refresh under way; the abstract owner is the token of a live row.
- **Breaker.** `ProbesBounded` is not inductive when the circuit leaves `open` or a stalled half-open
  state. `QuietSinceOpened` (while open, nothing was let through since it opened) and `ProbesCounted`
  (the probes of the last stretch are among those counted since it went half-open) carry it.
- **Transactions.** `IInv == TypeOK /\ Promises`: connections are pinned to one call each
  (`PinnedAlone`), one that no failed BEGIN, COMMIT or ROLLBACK has left open is outside any transaction when nobody
  works on it (`ReturnsClean`), and `CallFits` follows a call's writes: those answered are with its own
  connection alone while its transaction is open, in the database whole once it has resolved, nowhere
  once a ROLLBACK is confirmed. What a statement does to its connection is said once for all calls
  (`Executed`, `ExecutionFailed`, `Opened`, `EndedOpen`) and leaves the others as they are
  (`ElsewhereKeeps`, `StatementKeeps`). The promises except the calls in `loose`. That is what the code
  earns: a callback that catches a failed statement and goes on has its COMMIT answered although
  nothing, or not everything, of its work landed (a finding). What is proved for these calls too: outside
  sqlite their callback was told of a failure (`LooseIsTold`), and in postgres their work still lands
  whole or not at all (`LandsWhole`). `RejectedNeverLands` is what fails once a ROLLBACK has. Lemmas
  on the queue (`AppendToQueue`, `TailOfQueue`, `RemoveFromQueue`) carry its order.
- **Event streams.** `todo` is a stack of callbacks of any depth. `Consistent` relates the current
  socket, those open or listened to, the timers and the state, also in the middle of a handler, and
  `Agenda` says what a handler may still have to do there. `ErrorsAreOnlyHeard` assumes that
  subscribers to errors do not call `close()` or `connect()`: with one that does, the code breaks all
  three properties (section 6), so that the hypothesis cannot be dropped. Subscribers to opens,
  messages and closes do what they like.
- **Event capture.** Where the close is on the chain carries everything (`ClosesOnce`): as soon as
  `close()` is called its three steps stand in this order, once, a drain, the emission of all windows,
  the closing of the sink, however many drains and flushes stand before, between or behind. After that
  drain nothing waits in the buffer and nothing is observed (`NothingWaits`), so the emission leaves
  no cell (`RolledUpIsOver`), and the last flush no line (`SinkRests`). Before it, only windows whose
  end the clock has passed are rolled up, and `observe` counts by the clock, so a window rolled up is
  never counted in again. `HeadRuns` and `InHand` say that only the head of the chain is under way
  and owns what is being written.
  That every event is accounted for has an invariant of its own, `AInv`. Which count an event is in is
  the history variable `fate`, so that a count is the size of a set of events and a step that moves an
  event adds one to one set (`Moves`, `Placed`): no sum over the cells is needed. The sink has a
  flush under way exactly while the recorder waits for one (`Paced`), a flush holds the lines it took
  until its write settles, and none are buffered meanwhile (`OneChunk`), so that no operation forgets a
  line or makes one up (`Kept`). For their order, the live file, the flush and the buffer are read as
  one tape behind the rotated files (`InOrder`); what is appended is younger than all of it, since a
  drain writes one event at a time (`DrainWrites`), and the events in the buffer are in order
  (`Queued`) and younger than those the sink has (`Behind`).
- **Message queue.** For sqs and Pub/Sub a message is settled by the delivery that has handled it
  (`SettlingIsHandled`). A kafka commit settles everything before it, which is sound because offsets
  are passed in order: `OneAtTheOffset` says that the one handler that runs has the message at the
  reader's offset, and nobody moves that offset meanwhile, and `OffsetsAreHandled` that all before it
  were handled. `~FreshGroup` assumes a group that has committed an offset before. With a fresh one a
  reader that joins again starts at the end of the log, past a message whose handler failed
  (`fromBeginning: false`, a finding), and the property is false.
- **Caches.** `HoldsTheLast` (what a store holds is what the last write left) makes answers live, with
  the clock as the only other thing that ends a value. The order and the cap of the `Map` are
  `MapInv`. A write evicts the oldest key: that a finite, totally ordered set has one is shown by its
  keys' ranks and the well-founded order of the naturals (`OldestOf`), as induction is out of reach.
  `LossIsJustified` also needs that only writes are served after they were given up (`StraysWrite`).
- **Secrets.** What is kept was its secret at an instant of the call that found it, at most `Latency`
  before it was stored (`KeptFits`), and what a call carries was its secret since it asked (`ReadFits`);
  with the lifetime of the cache that bounds how old an answer is. `OwnsKey`: a key with readers has
  one that makes the call, which is the one `inflight` names, and the others wait for it.
- **Buckets.** `JobFits` says of each step of a call what it has already established: a save past its
  stream is within the limit, one past its rename has been seen under its key, an unlinked key was
  absent, an opened stream is of a version seen. `ListFits`: a listing has yielded every key up to its
  cursor that had an object all along, or, on the filesystem, still has it before it.
- **Rate limits.** `CountsGrants`: a window has counted whatever it granted, however often the script
  ran. `ServedIsSound` speaks of an answer on its way: the window it tells of ends within the ttl it
  carries, whatever has happened to the key since. Evicting the oldest is enough since a sound `Map` is
  at most at its cap, one key more than leaves room for a new one (`MapInv`, `RoomIsMade`).
- **Cookies.** While a handler runs, `Foretold` says of every name it was not warned of that the last
  Set-Cookie gathered for it leaves the browser with what the handler reads, or that there is none and the
  handler still reads what came with the request. `HeaderSet` changes the map before it serializes, so
  that a throw in between leaves the two apart; that this is always told is what makes it hold.
- **Lists.** `WalkFits`: the rows seen are those of the list up to the cursor, each once, and the filter
  the client keeps has the last row seen as its cursor. A page then is the part of the list behind
  it, cut at the limit (`PageIsNext`, `FilterIsRead`). That a finite set of numbers can be put in
  ascending order, in one way, needs no induction: a row's place is its rank, the number of rows not above it (`Rank`).
- **Requests.** `Accounted` (what was put on the wire has been run, may still be run, or never will be)
  and `LoopBounded` (attempts that remain against those that failed) bound replays; `TallyFits` and
  `OkWasRun` tie counters and results to what the server did.
- **Health checks.** A result is what its component said of itself, or a failure the report may
  rest on (`Earned`); a component is cancelled only after the caller's abort (`Cancelled`); and a report
  that has ended is the aggregate of its results, none of them missing (`Aggregated`).
- **Analytics.** Events held and delivered carry the source of their reporter (`Labelled`), and for each
  source what was sent is what is held, delivered or lost (`AddsUp`).

Only model-checked:

- `Credentials`: its properties compare computed sequences and numbers; what a fold or a recursive
  function computes for every input needs induction over data, which the provers cannot do.
- `Authorization` and `TextStreams`, whose RECURSIVE operators the prover cannot use.
- All liveness, since fairness and ENABLED are outside the prover's reach: `RunsAndClaimsEnd`,
  `AbandonedLeaseEnds`, `NeverWedges`, `EveryCallEnds`, `DropsHeal`, `CloseEnds`, `FailedIsRedelivered`,
  `CallsEndClean`, `WaitsEnd`.

## 6. Where the code and its words differ

`transactions_rollback` shows one: rejected work that a later COMMIT lands. `findings` in
`PROJECT.json` lists it and the others, which were noticed while reading and no run shows. Some of these
the models hold nevertheless, and a property here refutes what the code's words say once the assumption
that keeps it out is dropped: `ReleaseTellsTruth` with postgres (the release of an expired lease answers
true), `OnlyOwnerSettles` without `PromptWork` and `PromptLock` (a run that outlived its claim settles another's),
`ClosedIsQuiet` with subscribers that react to errors, not only to drops (a stream closed from its error
goes live), and `ResolvedLands` ("Resolving commits", database.ts:104) without its exception for `loose`:
a callback that goes on behind a failed statement resolves with its work rolled back.

Some hazards are within a model but permitted by its properties, as the code permits them: a claim
that ends under a slow execution (with `PromptWork` off nothing excludes the second one), a late report
that closes a breaker, lines lost with the flush that failed, entries evicted or healed away while they
are live, a limiter's window evicted with what it had granted. The notes of the hazards say which.

## 7. What is not modelled

- notifications, featureflags, and the engines of search: one vendor request per call and no state
  between calls; what search reports to the breaker is in `CircuitBreaker`. What a request looks like is data.
- compression, cryptography, random, identifiers, qrcodes, and the codecs of encoding: wrappers over
  libraries whose correctness is the library's.
- numbers: floating-point arithmetic. bitmask: one operator of the platform per function, which would
  be its own reference.
- observability: left out of every model, except the counters that tell of losses.
- errors, fake, version, and the tooling that builds and releases: no state, or no part of a running system.
- Of the modelled packages, what the notes of the components in `PROJECT.json` name: signed tokens, the
  client half of idempotency, signed URLs, the publishers' shutdown, read pools, transport adapters, and
  the like.
