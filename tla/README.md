# OpenFlare edge proxy: TLA+ models and proofs

OpenFlare (`src/edge-proxy-poc/proxy`) is a reverse proxy in Go: it normalises a
request, runs it through a WAF and a rate limiter, answers it from an in-memory
cache or fetches it from an origin, and has an admin API that purges the cache.
Paths below are relative to `src/edge-proxy-poc/proxy/internal/`.

## 1. Inventory

| Component | State | Operations | What is hard | What makes it correct |
|---|---|---|---|---|
| Cache backend, `cache/cache.go` | map, recency list, `sizeBytes`, counters, one mutex | Get, Set, Delete, DeleteByPrefix, DeleteByPath, Purge, Stats, IncrementBypasses | two structures and a hand-kept sum; an eviction loop with two limits | they agree after every call; limits hold; the least recently used entry goes first; calls end |
| Request flow, `proxy/handler.go` (`handleWithCache`) | the singleflight group; per request: where it is | lookup, join, double check, fetch, decide, store, answer | concurrent misses, purges and updates in the middle of a fetch, failures of the leader | one fetch per key, nobody waits for ever, only storable answers are stored, no answer goes back in time, purges hold |
| Cache policy, `cache/policy.go` | none after construction | IsRequestCacheable, IsResponseStorable, DetermineTTL | rule order, header parsing, overflow | nothing forbidden is stored; TTL as the origin states it |
| Rate limiter, `ratelimit/limiter.go` | map of token buckets, RWMutex | Allow, getLimiter, cleanup | three critical sections per lookup; a goroutine that deletes buckets; rules with one identifier share buckets | no key is granted more, or less, than the burst and rate of the rules that share it |
| Admin API, `admin/handler.go` | none | stats, purge, purge-prefix, purge-all | runs against everything above | a purge has the last word |
| Pipeline, `proxy/handler.go` (`ServeHTTP`) | none | the order of the stages | body consumed by the inspection | blocked requests go no further |
| WAF, `waf/engine.go` | compiled rules | Evaluate, ReadBodyForInspection | first match, modes, truncated bodies | a block rule blocks |
| Normalisation, `normalize/normalize.go` | none | Path, Query, AcceptEncoding, CacheKey | several layers of decoding; a key made and taken apart again | one key for every order of the same parameters and encodings, different keys for different resources; no dot segment gets through; purges hit what they name |
| Configuration, `config/config.go` | none | Load, applyDefaults, validate | what validation lets through | a process that serves is configured for it |
| Lifecycle, `app/app.go`, `server/server.go`, `cmd/edgeproxy/main.go` | two servers, error channel, signal channel, deadline | start, shutdown | one server failing, a signal at any time, a shared deadline | the process ends, and status 0 means it drained |
| Middleware, `middleware/*.go`; `security/headers.go` | statusWriter, header fields | RequestID, AccessLog, Recovery, SetForwardedHeaders | panics half way through a response, and after it in the access log; several statuses for one response | log, client and origin are told the truth |
| Metrics, transport | the gauges | - | gauges set outside the lock | gauges are current |

Components meet in four places: `handleWithCache` calls the backend and the
policy; all requests for a key share a singleflight call; admin purges change the
backend under running requests; `Allow` and `cleanup` share the bucket map. All
of them run on concurrent goroutines. Around them, `Run` and the two servers
share channels and a deadline, and each request passes the middleware twice.

## 2. Modules

| Module | Models |
|---|---|
| `CacheStore` | what `cache.Backend` promises: a bounded partial map, each operation one step |
| `MemoryBackend` | `cache.go`: map, list, byte count, counters, mutex; a call that loops holds the mutex over several steps |
| `CachedHandler` | `handleWithCache`: requests as goroutines, singleflight, the cache (`INSTANCE CacheStore`), origin, purges |
| `CachePolicy` | `policy.go` as operators, and the order in which the handler asks |
| `Pipeline` | `ServeHTTP` with the WAF engine, and the forwarding of bodies |
| `Normalize` | `normalize.go` and `splitCacheKey` as operators |
| `KeyedCache` | built on `Normalize`: from a request line to the cache key and the origin's URL; the admin API |
| `Lifecycle` | `app.go`, `config.go`, the servers: from the files to the end of the process |
| `Exchange` | the middleware, the header fields and the reverse proxy around one request |
| `RateLimiter` | `limiter.go`: the three critical sections, buckets as pointers, cleanup, time |
| `MC*` | constants for TLC |
| `*Proofs` | inductive invariants and theorems |

`MemoryBackend` implements `CacheStore` (`ImplementsCacheStore`, with the map that
a running call has left so far hidden behind the one it found), and
`CachedHandler` is built on `CacheStore` alone: what is shown of the flow holds for
any backend that keeps the promise.

**MemoryBackend.** `items`, `evictList` (front first), `sizeBytes` and the counters
are the fields of the struct. `mu` is the mutex together with the local state of
the call that holds it: `Set` is `SetBegin` (drop the old entry), `SetEvict` (one
turn of the loop), `SetEnd`; the two purges that collect first are `DeleteBegin`,
`DeleteStep`, `DeleteEnd`. The other methods are one step, since nobody sees the
inside of a critical section. Entries keep `size`, `ttl` and `storedAt`. Cache keys
are model values; `PathOf` and `PrefixesOf` say what `splitCacheKey` and
`containsPrefix` would find in them. `touched` is a history variable: when a key
was last used.

**CachedHandler.** A request is at a `pc`; a step is what its goroutine does between
two points at which another can come in. `LookupHit/LookupMiss` is the first
`Get`, `Join` is `sfGroup.Do`, `CheckHit/CheckMiss` the second `Get`, `Fetch` the
origin's answer, `FetchFails` an error of `RoundTrip` or of reading the body
(origin down, timeout, client of the leader gone), `Decide` the storable test and
the stamping, `SetEntry`, `ReadStats`, `SetGauge` the store and the gauges (the two
gauges are set alike; one is kept), `Finish` the end of the call, which under the
group's lock frees the key and wakes the waiters, `Respond` the answer. A resource
is a version number that `Update` increases. `floor`, `raced` and `seen` are history
variables: the version at the last purge, whether that purge overtook an answer on
its way to the cache, the newest version answered. singleflight and the origin are
external and modelled from their use.

**CachePolicy.** The test of a rule on paths is the set of paths it accepts; a
regexp that does not compile is no test, as `NewPolicy` drops the error.
`Cache-Control` is a sequence of lines of directives; `ext` marks a directive that
merely contains the word looked for. Digits are read as the code reads them, with
wrap-around: an `int` and a `Duration` lie between `-Limit` and `Limit - 1`, and `Second`
is a second in a `Duration`'s units. The proofs are for every `Limit`, 2^63 included.

**RateLimiter.** `limiters` maps a key to an index of `heap`, as the Go map holds
pointers: a deleted bucket stays in the hands of who found it. `Find` is the read
under RLock, `Touch` and `Create` the sections under Lock, `Take` the token
(x/time/rate, external). A key is made of a rule's identifier, the kind of key, the
client and, for `ip_path`, the prefix (`buildKey`; identifiers are taken to hold no
colon). `validate` does not ask for unique identifiers, so rules may share a bucket
(`Sharers`), which has the burst and the rate of the rule that came first to make it; a
negative burst or rate acts as 0. `strict` and `loose` are history variables: what one
bucket per key, never deleted, would hold with the smallest and the largest of these
values; `discarded` and `given` are the buckets cleanup deleted and the tokens that gave
away. A path is the set of prefixes it has, so that a prefix is tested as the code does;
whether a request is exempt is a free choice; disabled rules are not in the list.

**Pipeline.** One request after the other goes through the stages of `ServeHTTP`; the
engine does not change between them, so concurrent requests would only interleave.
A body is a sequence of bytes, a pattern a mark that is or is not among the bytes
(or in the field) looked at; `Evaluate` is stepped rule by rule (`NextRule`, `at`).
A disabled rule stays in `rules` and is passed over, where the code drops it in
`NewEngine`. The marks are those of the normalised request. What the limiter, the
policy and the cache answer is a free choice. `TooShort` is net/http's refusal to
send a body shorter than its `ContentLength` (external).

**Normalize and KeyedCache.** A character is a pair of the character and the number of
percent-encodings on top of it, so that `/`, `%2F` and `%252F` are different and
decoding is a step down; a query is a sequence of parameters with their place in the
alphabet; an encoding has a weight. `Alphabet` is the set of strings that characters
are made of. `Split` is defined by the cuts, `Sorted` by the rank of each item, `Clean`
by the output after each segment, as `path.Clean` builds it. `Path` decodes if it can, cleans and puts back
the trailing slash; it is applied by `ServeHTTP` to what net/http has decoded already,
and once more by `CacheKey`. `OriginURL` is what `ResolveReference` and `URL.String`
make of it: the raw path if it still is an encoding of the path. ServeMux (which
redirects targets that are not clean), `path.Clean` and the escapes of net/url are
external. The entry keeps the request it was made for, the URL and query the origin
was asked for and the encoding it chose. The admin handlers are whole actions, with
authentication; requests are one at a time, because `CachedHandler` interleaves them.

**Lifecycle.** `Run` is one process, its `pc` the next step; each server is a goroutine
(`srv`) with `active` requests. `Load` applies defaults and validates, `LoadRules` reads
the three optional files, `NewEngine` and `NewHandler` may fail the start. From
`StartPublic` on the servers run beside `Run`: they can fail to listen, stop accepting,
or end because they are in `closing`; `Report` sends to `errCh`, of which only the
sender matters. `Signal` needs `signal.Notify`; before it the default action kills the
process (`Killed`). `Shutdown` is split into closing the listeners and `Drained`, since
requests end and the deadline (`ctx`) expires in between.

**Exchange.** `Mux` is the mux of `NewPublicServer`: `/metrics`, redirects to a cleaner
path and the request `*` end there (`path = "mux"`), the rest goes to the chain. `depth` is
the place in `Chain`; `Call` goes inwards, `Return` outwards, `panic` unwinds up to
`Recovery`. `AccessLog` logs and then counts (`counted`), and `WithLabelValues` panics for
a path that is not valid UTF-8 (`path = "bytes"`): outside `Recovery`, so net/http closes the
connection and what it still buffers is lost (`Abort`). `sw` is the statusWriter, `conn` what net/http has put
on the wire: the first final status, the declared length, the body by who wrote it, and
whether the client sees a complete response. `writeEntry` answers from the cache or a
fetch, `proxyToOrigin` goes through the reverse proxy, which relays informational
responses, the header and the body unit by unit, and panics when the origin breaks off.
`fetchFromOrigin` is no reverse proxy: it returns 101 as an answer, which `writeEntry`
relays. With 101, 204 and 304 (`Bodiless`) net/http refuses a body. A rule's `status_code`
is any natural number (`GetBlockStatusCode` has 403 for the others); an origin's codes
are in 200..999, or 101 and informational where said; codes below 100 from an origin,
requests by HEAD and HTTP/1.0 are left out.

## 3. Runs

| Run | Shows | Bounds |
|---|---|---|
| `lru` | map, list, sum, limits, recency; only the oldest entry is evicted; the backend implements `CacheStore`; every lock is released (weak fairness of the loop) | 4 calls on 3 keys (two share a path), sizes 0, 1 and 3 (over the limit), 2 entries, 2 bytes, one tick |
| `flow` | coalescing, provenance, monotonic answers | 3 requests, 1 key, 1 update, 1 tick with TTL 0, any purges |
| `flow_two_keys` | no redundant fetch; when a purge can fail; every request is answered (weak fairness) | 2 requests, 2 keys in a cache of one entry: evictions; 1 update, 1 tick |
| `policy` | storing and TTL against a reference reading of the header line; which rule the TTL comes from | 2 rules, 2 directives in one or two lines; 12-bit integers (`Limit = 2048`) with 4 units per second, so that numbers of the header, of a rule and of the configuration wrap around |
| `pipeline` | what of bodies and responses gets through; who is blocked, and with which status | 2 rules (identifiers may repeat), bodies up to 2 bytes over a limit of 1, a usable and a negative pair of limits |
| `keys` | no answer to another path or query; the order of parameters and encodings, and the escapes a client writes, make no second entry; no dot segments at the origin; encodings; purges remove exactly what they name | 27 requests whose paths hold dots, slashes and bars under up to three layers of encoding, queries that parse or do not, 4 Accept-Encoding headers; 2 entries; purges by key, path and prefix |
| `lifecycle` | a process that serves is configured for it; status 0 means drained; nobody blocks on `errCh`; signals and failures end the process (weak fairness) | 11 main files (3 upstreams of 2 names, each reason for refusal), all states of the other files, 2 requests per server |
| `exchange` | one log line and one count per request of the chain, with the status sent, and what there is when counting panics; a cut response is seen to be cut; the request's own identifier comes first; no made-up addresses | bodies up to 3 units of which an entry keeps 1, up to 2 informational responses, statuses 42, 103, 204 and 403 for rules, 200, 304 and 101 of the origin, requests for the mux, paths that are UTF-8 or not, 4 forms of `X-Forwarded-For` |
| `ratelimit` | a bucket never holds less than its rules allow; a key is granted no more than its rules allow and cleanup gives away | 3 requests, 3 rules of which two share an identifier (burst 1, 3, 1; rate 0, 1, 1), 2 addresses with the same API key, 2 paths, 2 ticks, interval 1 |

The bounds let every case happen: an entry too large, an entry of size 0, an
eviction of several entries, an expired entry met by either lookup, a purge at any
point of a fetch, a follower joining at any point of a call, a cleanup between any
two sections of `getLimiter`, a failure or a signal at any point of the start and the
shutdown, a break-off after any unit. `MaxOps`, `MaxTime`, `MaxVersion`, `MaxActive`, `MaxUnits`, `MaxInfo` and the numbers of
requests bound the state space only; the proofs do without these values. Requests
are symmetric; `flow_two_keys` checks liveness and does not use that.

Runs that end in a counterexample, each against a sentence of the repository
(quoted in `PROJECT.json`, "findings"):

| Run | What happens |
|---|---|
| `flow_head` | a GET is answered with the stored answer to a HEAD |
| `flow_private` | a follower is handed a private answer made for the leader |
| `pipeline_body_cut` | a body of unknown length over the inspection limit reaches the origin cut |

The models show more than these runs pick out:

- a purge between the origin's answer and `Set` is undone by `Set`, and later requests are
  hits of the purged version (`PurgeHoldsUnlessRaced` says that this is the only way);
- a cleanup between the read and the touch of `getLimiter` leaves a key with two buckets
  and more than its burst, and deleting a bucket that has not filled up yet gives away what
  it lacks (`GrantsAreBounded` says that this is all);
- two rate limit rules with one identifier share buckets, which have the values of
  whichever rule came first (ratelimit/limiter.go:142): a client is denied what the looser
  rule allows, or granted what the stricter one does not (`NeverOverThrottled` and
  `GrantsAreBounded` therefore speak of the least and the largest values);
- the cache key keeps repeated parameters (`p1` and `p1&p1` are two entries), the case of
  letters in paths and each list of encodings, where docs/03-cache-strategy.md:31-33 has
  duplicates dropped, paths in lower case and encodings in categories
  (`OrderMakesNoDifference` is only about orders and escapes);
- `Evaluate` stops at the first match, so a log rule lets pass what a later block rule
  would stop, where the design says "Log + continue" (docs/04-waf-strategy.md:128;
  `BlocksUnlessOvertaken`);
- a path still escaped after two decodings, an escaped slash or a bar in a path make
  different resources share a key, or a purge miss its entry (`Awkward` in `KeyedCache`
  names the three cases, each of them needed; docs/04-waf-strategy.md:150 says that paths
  are decoded once);
- `gzip;q=0` shares its key with `gzip` (`EncodingAcceptable`);
- a negative `graceful_shutdown_timeout_ms` drains nothing; a signal before `Notify` kills
  the process; when a failure and a signal meet the exit status may be 0;
- the access log shows 103 for an answer after early hints, and 42 for a rule whose
  `status_code` is 42, where the client gets 500 (`LoggedIsSent`);
- `GET /%ff` is logged with 200 and not counted: `WithLabelValues` panics outside `Recovery`,
  the connection is closed and a buffered answer is never sent (`LoggedIsSent`,
  `EveryRequestLogged`); what the mux answers is neither logged nor counted;
- `Recovery` swallows `http.ErrAbortHandler`: a response of unknown length that the origin
  breaks off ends in the error text and looks complete (`CutIsMarked`); an entry cut by
  `max_request_body_bytes` that declares no length looks complete, too;
- switching protocols is answered with 502 on the reverse proxy's path, since statusWriter
  is no `http.Hijacker`; a cacheable GET gets the origin's 101 as its answer;
- an entry larger than `max_bytes` empties the cache and is stored alone
  (`BytesBounded` says so);
- with `max_entries` below 0, which `validate` accepts, `Set` loops for ever under the
  mutex; with `max_body_inspect_bytes` below 0 every request with a body is a 500;
- only the first `Cache-Control` line is heeded, and `max-age=0` counts as absent, so
  the default TTL applies, where docs/03-cache-strategy.md:52-53 makes no exception for 0
  (`ForbiddenNotStored`, `StatedTTLApplies`);
- a WAF file that does not load is logged and the proxy serves without a WAF, where
  docs/00-cahier-des-charges.md:162 wants it to fail (`ServesAsConfigured` exempts it);
- purges and expiry leave the gauge of entries at its old value;
- `max_request_body_bytes` is never applied to requests, only to fetched responses.

A property that exempts one of these cases says only that there is no other way to go
wrong; "hazards" in `PROJECT.json` has a note wherever a hazard is exempted like this.

**Fairness.** `MemoryBackend`: the goroutine inside a critical section is scheduled
(`WF(Loop)`). `CachedHandler`: every request that arrived takes its steps
(`WF(Step(r))`), which includes that the origin answers or fails: the transport has
a dial and a response header timeout if they are configured (they have no defaults);
that a body once begun also ends is assumed of the origin. `Lifecycle`: `Run` and the
server goroutines are scheduled and the deadline expires in the end; none for requests,
which may never finish, for signals or for failures. No fairness is assumed of clients,
purges, updates or, elsewhere, of time.

## 4. Proofs

TLAPS checks the following for every set of keys, requests, clients and rules, and
all limits, under the assumptions named in the modules (types of the constants;
at least one client). The type invariants, `StoresAccounted` (counters) and
`WaitersHaveLeader` are proved (`TypeCorrect` in each module, `RecencyAndCounters`,
`MissesCoalesce`) and not repeated in the runs. Every invariant of a passing run is a theorem, and so are
the action properties and the refinement.

Induction over data is done with sets: the library's induction theorems take a predicate,
which the provers cannot instantiate, but `WFMin` is about a set. From it come `Least`
(a set of numbers has a least element) and `SetInduction` (a set with 0 that is closed
under + 1 is `Nat`), and a fact about all sums, digits or segments is shown to hold on a
set of numbers that is then all of them. Recursive functions are first shown to exist in
the same way.

**MemoryBackendProofs.** `TypeOK` and `ListMatchesMap` are not inductive alone: that
a removal leaves the byte count right needs the sum of the list, and that the loop
of `Set` ends with room needs what the call knows. `IInv` adds `Agree` (the list is
a duplicate-free enumeration of the map, ordered by `touched`, with a running total
that ends in `sizeBytes`) and `CallInv` (during `Set` the key is in neither; during
a purge the collected keys are still there). `RemoveAgrees` and `PushAgrees` show
once that unlinking and pushing preserve `Agree`; each action cites them. From
`IInv`: `TypeOK`, `ListMatchesMap`, `SizeAccounted`, `EntriesBounded`,
`BytesBounded`, `LRUOrder`, `StoresAccounted`, and the action property
`EvictsOldest`.

`ImplementsInterface` is the refinement: under the mapping of `MemoryBackend` every step
is a step of `CacheStore` or a stutter. The last step of a `Set` must be one `Write`: some
entries are gone, the others are as they were, and for one of those gone there would have
been no room. That needs `SetInv` (the map of a running `Set` is a part of the one it
found, and if something was evicted, then one of it did not fit) next to `IInv`, and that
`CacheStore`'s sum over a set is the running total of the list: `Additive` characterises
sums over finite sets, `AdditiveExists` and `FoldIsAdditive` show that the fold is one,
`ListCounts` that the list adds up to it.

**CachedHandlerProofs.** `MonotonicReads` speaks of answers given; it is inductive
only with the order of all versions in the system: seen <= in the cache <= at the
origin; what a call has in hand is not older than what was seen, and equals what is
in the cache if the key is there; what an ended call handed out is not newer than
what has entered the cache since or than what the next call has. These rest on
`Coalesced` (one leader per key) and `Absent` (between double check and `Set` the
key is not in the cache). `Purged` extends the purge property to answers on their
way. The cache is used only through three lemmas (`EraseEffect`, `ReadEffect`,
`WriteEffect`). Theorems: `MissesCoalesce`, `NoRedundantFetch`, `CacheIsStorable`,
`AnswersAreMonotonic`, `PurgeHolds`.

**RateLimiterProofs.** The two properties are not inductive. Buckets are compared by what they
lack to be full (`Lacks`), which taking and regaining change alike for all buckets of a key,
whatever their bursts. `IInv` says that a request holds a bucket of its own key (`Holding`),
that the heap is made up of the buckets in the map and of those discarded, so that a key has
at most one that is not (`Mapped`), that no bucket lacks more than `strict` does (`Filled`),
and that what `loose` lacks is lacking in the bucket of the map or was given away
(`Granted`). `Extremes` and `KeyFacts` give the least and the largest values of the rules
that share a key. Theorems: `NoOverThrottling`, `BurstIsKept`, for all lists of rules,
identifiers that repeat and negative values included.

**PipelineProofs.** `BodyIntact` speaks of a body that has left, the WAF properties of
rules already passed; `IInv` adds what each stage holds: `Body` (what is left of
`r.Body` is the request's body or its first limit + 1 bytes), `Shown` (what the WAF saw
is a prefix of the request's body; `LimitTwice` is why cutting twice does no harm),
`Skipped` (no rule before `at` decides: the loop invariant of `Evaluate`) and `Judged`
(the verdict still stands when the request is past the WAF). Theorems:
`OriginGetsBody`, `ClientGetsResponse`, `BlockRulesAreReached`, `BlockedForCause`,
`StatusOfItsRule`.

**LifecycleProofs.** The properties speak of a server that serves or a process that has
ended; what they rest on was established many steps earlier. `IInv` adds `Built` (at
each step of `Run`, what has been loaded, validated and made of which files, and that
both loops for the upstream stopped at the same one), `Configured` (a server that was
started was started after all of this, also when `Run` has ended since), `Draining` (how
far the shutdown is, and that a server past its drain has no request left or an expired
deadline) and `Reported` (a server whose error is in the channel has ended, so the
channel has room for every server that is failing). Theorems: `TypeCorrect`, `ServesAsConfiguredHolds`,
`ExitZeroIsGracefulHolds`, `NobodyBlocksHolds`, for every set of configurations.

**ExchangeProofs.** Client and log meet only at the end, so `IInv` follows the response on
its way: `Nested` (who runs, and from when there is a log line and a count: `Logged`), `Remembered` (statusWriter
has a status from the first one that went out on, and how it relates to the client's: `Told`),
`Copied` (how much of the body is out; a handler returns with a whole response, one that
ends in the error text, a cut entry or one that is visibly short: `Fits`, `Short`), `Identified` (the
request's identifier comes first from `RequestID` on, in the header that went out too).
Each operation on the connection has its lemma (`SendHeaderEffect`, ..., `FinishEffect`, `AbortEffect`),
and `MuxEffect` and `UnwindEffect` are about what is around the chain.
Theorems: `RequestsAreLogged`, `LogTellsTheStatus`, `CutsAreMarked`,
`OwnIdentifierComesFirst`, `AddressesAreNotSpoofed`, for bodies of any length and any
number of informational responses.

**CachePolicyProofs.** The state is one decision (`Decided`); the work is in the operators.
The first matching rule is characterised by `FirstOf`. `NumberEffect` and
`AccumulateEffect` compare the parsing loop, which wraps around at every digit, with the value
of the number, which does not; `ParseEffect` concludes that a directive whose number fits
is read as stated. Theorems: `ForbiddenIsNotStored`,
`TTLIsPositive`, `TTLIsOfDecidingRule`, `TTLIsAsStated`, for numbers of any length.

**KeyedCacheProofs.** `KeyedInv`: an entry was made by a request whose key it is stored
under, with that request's URL, query and an encoding it accepts, and the last answer was
too. It is inductive at once; what the properties need beyond it is what normalisation
computes, for texts of any length:

- sorting (`SortedProperties`, `SortedUnique`): the ranks are a bijection, so `Sorted` is a
  rearrangement in order, and there is only one if items of the same place are equal. So
  `Query` is idempotent and one key stands for all orders (`OrderIsIgnored`);
- `Clean` (`CleanEffect`): after each segment the output is `Tidy`, without dot segments
  and empty ones, and ends with a segment; going back to the parent keeps that. `Path`
  only adds a slash at the end, and what is sent to the origin decodes to that path
  (`RequestFacts`), so `NoDotSegmentsReachOrigin`;
- keys (`KeyParts`): encodings have no bar, so the last bar of a key ends the query; a path
  without a bar ends at the first bar after the host's. Equal keys have equal parts:
  `ClientsGetTheirOwnAnswer`, `EncodingsAreAcceptable`;
- splitting (`SplitEffect`, `ThirdPart`): the cuts before the path are three, so
  `splitCacheKey` finds in third place what `CacheKey` has put there: `PurgesAreExact`,
  which needs no assumption on the query, not even that it parses. Without escaped slashes
  splitting and decoding commute (`SegmentsDecoded`).

**Only model-checked:** liveness (`LockReleased`, `EveryRequestAnswered`,
`SignalEndsProcess`, `FailureEndsProcess`: fairness is out of the prover's reach), and the
three runs that end in a counterexample.

## 5. Not modelled, and the plan

Contents of bodies beyond marks, header fields other than those named, regular
expressions, YAML and JSON, the wording of logs, metrics other than the gauge of entries
and the request counter, several hosts, several `Accept-Encoding` lines (`Get` reads the
first), the dot segments `ResolveReference` would remove (none are left by then), a path
in `base_url`. The test site and the end-to-end tests are not part of the proxy. In order
of importance:

1. Composition: the limiter and the cached flow under one `ServeHTTP`, so that tokens,
   bypass counts and cache statistics can be related.
2. Several hosts in `KeyedCache`, and proofs for what they add.
