# Verification of shared-go

TLA+ models of `shared-go`, a Go library of building blocks for API services,
with the TLC runs that check them on small instances and the TLAPS proofs that
hold for every instance. `PROJECT.json` maps each definition to the source lines
it models, gives every checked property a mutation of the code that breaks it,
and lists the hazards the properties are there for.

## 1. The system

| Part | Source | State | Operations |
|---|---|---|---|
| PARC handler | `authz/engine.go` | none of its own | `Handle`: read the cache, else the repository and fill the cache, then decide |
| Permission repository | `authz/repository.go` | rules by principal | `GetPermissions`, `GrantPermission`, `RevokeAll` |
| Two-tier permission cache | `authz/cache/tiered.go` | L1, L2, listener goroutine | `Get`, `Set`, `Delete`, `PublishRevocation`, `Close` |
| In-memory cache and bus | `authz/cache/memory.go` | entries, subscriber channels | cache calls, publish, subscribe, `Close` |
| Redis cache and bus | `authz/cache/redis.go` | entries in Redis, pub/sub | the same over the network |
| PARC rules | `authz/parc.go` | none | deny-overrides evaluation, glob matching |
| Policy engine, service, middleware, guards | `authz/engine.go`, `policy.go`, `builder.go`, `middleware.go`, `guard.go` | policies and handlers by name | configure, register, authorize, answer a request |
| Authentication pipeline | `authn/authenticator.go`, `extractor.go`, `middleware.go`, `guards.go`, `principal.go` | principal of a request | extract, validate, transform, guard |
| Token validators | `authn/jwt_validator.go`, `oidc_validator.go`, `normalizer.go` | keys | validate, normalise claims |
| API key store | `authn/apikey_validator.go` | records by hash and by id | create, revoke, look up, validate |
| OAuth provider | `authn/oauthprovider/provider.go` | codes, device codes, clients | PKCE, client credentials and device flows |
| Generic cache | `cache/` | entries, purge goroutine | `Set`, `Get`, `Delete`, `Dispose` |
| Health | `health/` | registered checks | `Register`, `Run` |
| Identity accessor | `identity/identity.go` | none | read request values |
| API versioning | `versioning/` | routes and their versions | register, look up, rewrite and dispatch |
| Search | `search/` | configuration | validate, compile, count, page |

How they interact: a request passes authentication, then the authz middleware,
which asks the service, which runs the handlers of a policy's requirements. The
PARC handler is the one with shared state behind it: a cache in each process, a
cache shared by all, a repository, and a broadcast that connects them. The
OAuth provider signs the tokens that the token validators read. Versioning,
search, health and the generic cache stand on their own.

What is hard about it: a request makes several calls, and grants, revocations,
broadcasts, expiry, other requests and crashes happen between any two of them.
Times to live add up across tiers. Goroutines (listeners, forwarders, janitors,
the two queries of a search, the checks of a health run) share channels,
contexts and maps with callers that may give up or come twice. The versioning
middleware dispatches a request through itself.

## 2. Modules

| Module | Contents |
|---|---|
| `PermissionCache` | the permission path: handler, tiers, repository, revocation, listeners, faults, time |
| `PermissionCacheProofs` | its type correctness, the bound on staleness, the effect of a revocation |
| `RevocationBus` | the in-process bus and the life of the providers that listen on it |
| `RevocationStream`, `RedisBus` | what a subscription promises, and the subscription over Redis |
| `RevocationBusProofs` | the proofs about both buses |
| `CacheContract`, `MemoryStore`, `RedisStores`, `MemoryStoreProofs` | what a generic cache promises, the caches in memory and over Redis, and that they keep it |
| `PARCRules`, `PARCEvaluate` | matching of rules; the evaluation loop |
| `Requirements`, `Authorization` | requirements; builder, engine, middleware, guards and the requests along a route |
| `AuthorizationProofs` | the proofs about the loop and about requests along a route |
| `Lists` | lists, and a list without some of its elements |
| `TokenClaims`, `IssuedClaims` | claim normalisation; the tokens it is applied to, and what it makes of them |
| `Authentication` | the request through the authentication middleware, with the key store |
| `OAuthProvider`, `OAuthTokens` | the provider; its tokens as the validator sees them |
| `AuthenticationProofs` | the proofs about requests, keys and the provider |
| `Versioning` | the middleware, its registry and the redispatch |
| `Pagination`, `SearchPages`, `SearchCompile`, `Wildcards`, `Searcher` | page arithmetic, a client that pages, validation and compilation, LIKE patterns, a search over PostgreSQL |
| `HealthChecker` | runs of the checks |
| `EndpointProofs` | the proofs about health, versioning, a search and its pages |
| `RequestProofs` | the proofs about lists, the roles of a token and compiled requests |
| `WildcardProofs` | the proof about terms and their patterns |
| `MC...` | the small instances, and the composition of parts that share a run |

### The permission path: `PermissionCache`

A bundle of permissions is abstracted to the *version* of the principal's record
it was read from. `GrantPermission` and `RevokeAll` make the next version. An
entry of L1 or L2 is a version and the ticks it has left; a tick ages all entries
and all requests in flight. Each call of `Handle` into a cache tier or the
repository is one step, so everything else can happen between two calls:

| Steps | Code |
|---|---|
| `TieredL1Get`, `TieredL2Get`, `TieredL1Fill` | `TieredCacheProvider.Get` |
| `RepoGet` | `GetPermissions`; an error ends the request denied |
| `TieredL1Set`, `TieredL2Set` | `TieredCacheProvider.Set`; its error is ignored by `Handle` |
| `Decide` | the evaluation of the bundle in hand |
| `RevokeAll`, `AdminL1Delete`, `AdminL2Delete`, `Publish` | `RevokeAll`, then `PublishRevocation`; the order the repository's tests use |
| `StartDelete`, `AdminL1Delete`, `AdminL2Delete` | `TieredCacheProvider.Delete` |
| `Listen` | one turn of the listener: receive and evict |
| `L1Evict`, `L2Evict`, `Restart`, `Tick` | the environment |

With `Faults`, L2 and repository calls fail, broadcasts are lost for any set of
nodes and nodes restart with what they were doing forgotten. A full channel loses
a broadcast with or without `Faults`.

Three history variables state the properties and are read by no guard:
`superseded` (ticks since a version was replaced), `lastRevoke` (the version the
latest `RevokeAll` made) and `disturbed` (principals whose latest revocation met
a failed L2 delete, a lost broadcast, a crash of the revoking node, or a request
about to store a revoked bundle at the moment L2 was purged).

`MaxRequestTime` is an assumption on the environment: nothing in the code bounds
how long a request may take between its calls, and the bound on staleness
depends on it.

### The buses

`RevocationBus`: each provider subscribes, starts its listener, and is closed.
The goroutine of `SubscribeRevocations` (`Reap`), the listener,
`PublishRevocation` and the bus's own `Close` run concurrently; what runs under
`subMu` is one step. A channel is the number of principals in it. `panicked`
records a second close or a send on a closed channel, the two things Go punishes
with a panic. `BusIsL2` selects the configuration in which the providers' `Close`
also closes the bus.

`RedisBus`: one subscription with go-redis's channel, the message in the
forwarder's hands and the channel the subscriber reads. Each case of the two
nested selects is an action. Redis drops a message for a subscriber that is
disconnected or whose channel is full. The subscriber may be slow, stop reading,
or cancel. `RevocationStream` is what remains for the subscriber: messages in
order, each at most once, some lost, the newest given up at the end.

### The caches

`CacheContract` is a map whose values are visible until they are overwritten,
deleted or expired. A call that fails had its own effect, whole, or none.
`MemoryStore` keeps expired entries until the janitor purges them, and runs
concurrent calls of `Dispose` through `sync.Once` step by step; its refinement
mapping hides the expired entries. `RedisStores` is the generic store and the
authz provider over a Redis that loses commands and replies; go-redis's reading
of a negative expiration is in `SetExp`.

### Authorization

`PARCEvaluate` is `Evaluate`'s loop, one rule per step, against the declarative
`DenyOverrides` of `PARCRules`. `path.Match` is a table, including patterns it
rejects. `Authorization` starts with the application calling the builder's methods
in any order, then `Build`, `UseAuthorization` and registrations; requests then
run the handlers of their route in order, and each requirement is evaluated in a
step of its own while rules are granted and revoked and the cached bundle
expires. A user or a rule is a record of what the handlers look at.

### Authentication

A step of `Authentication` is what a request does between two accesses to shared
state. `Lookup` hands out a shared record under the read lock; `ValidateKey` reads
it again after the lock was released. An authenticator has a JWT validator, an OIDC
validator or none, and an API key validator or none. Tokens are records of what the
JWT and OIDC libraries decide on: signature, times, issuer and audience. What a
`ClaimsTransformer` may return for a principal is a parameter (`Transformed`), another
principal, none or an error included; `given` records what it was given. `TokenClaims` has both normalizers; a claim is a string or a
list of words, or missing. In `IssuedClaims` an issuer puts any claims of a menu into
a token.

### The OAuth provider

A critical section of the provider's mutex is one step. `ExchangeAuthCode` takes
a code out of the map under the mutex (`TakeCode`) and checks it afterwards
(`CheckCode`). Authorization and device codes are random enough never to be
handed out twice; a user code has 32 bits, and the model lets two devices receive
the same one. `OAuthTokens` passes the signed claims to `TokenClaims.Normalize`.

### Versioning

Paths and patterns are sequences of segments; regular expressions are tables. A
redispatch puts the middleware's pass on a stack (`depth`), and `ReturnFromPass`
unwinds it. A configuration has the order of the version readers, the default version and
whether a missing one is assumed to be it, whether the supported versions are
reported, and whether there is a registry. Go's order of map iteration is a choice among
the most specific patterns, made again by each look-up.

### Search

`Pagination` computes on integers of a given width, with Go's wrap-around.
`SearchCompile` represents the SQL by a list of conditions with their placeholder
numbers. `Wildcards` gives the semantics of LIKE and of a term separately, and
compares them: LIKE keeps the set of places in the text that the pattern so far may
have come to (`Reach`), a term is laid over the text as a whole (`LaidOver`). `Searcher` runs the count and the page query as goroutines of an
errgroup, with the group's context, the exact count's deadline below it, the
caller's own context, a table that changes, and a connection that cannot run two
queries when the querier is a transaction.

### Health

A check is its kind, a service has a state, and a probe of one that hangs returns
when its context ends. A probe whose context is done may report that instead of the
answer of a service that works (`Seen`). `Run` copies the checks under the read lock; each goroutine
probes, then records under the run's mutex.

## 3. Runs

| Run | Module | Properties |
|---|---|---|
| `staleness` | `MCPermissionCache` | `StaleServeBound`, `EventuallyCurrent` |
| `revocation` | `MCPermissionCache` | `TypeOK`, `RevocationEffective` |
| `instant_revocation` | `MCPermissionCache` | `InstantRevocation` is violated |
| `grant_window` | `MCPermissionCache` | `GrantWindow` is violated |
| `buses` | `MCRevocationBus` | in memory `NoPanic`, `DeafOnlyAfterBusClose`, `AcceptedHandled`, `CloseReturns`, `SubscriptionReclaimed`; over Redis `NothingLost`, `ImplementsStream`, `ForwarderEnds` |
| `caches` | `MCCaches` | `KeepsContract`, `RedisKeepsContract`, `DisposeOnce` |
| `authorization` | `MCAuthorization` | `EvaluateIsDenyOverrides`, `RefusedForReason`, `AllowedHeld` |
| `authentication` | `MCAuthentication` | `HandledByItsCredential`, `RevokedKeyRefused`, `RolesMatchReference`, `UserNeedsEvidence` |
| `oauth` | `OAuthTokens` | `OneTokenPerCode`, `DeviceTokenStands`, `WaitingApprovable`, `FlowRecognised`, `CodeSpentForGood`, `ApprovedGetsToken` |
| `versioning` | `MCVersioning` | `RightHandlerOnce`, `SupportDecided` |
| `search` | `MCSearch` | `ErrorHasCause`, `TotalWasTrue`, `SearchEnds`, `PlaceholdersNumberArgs`, `QueryAsRequested`, `ValidateAgrees`, `PagesTile`, `TranslationMatches` |
| `health` | `HealthChecker` | `ResponseRight`, `RunEndsWithContext` |

Some runs cover several parts that share no state. The MC module then has a
variable (`part`, `service`) that is chosen at the start and never changes; the
part it names runs and the others rest in their initial states. So each part's
state space is searched as it would be alone, and a property about one part is
stated for the behaviours in which it runs. `MCAuthentication` does the same with
claims: a token's claims are collected only while no request has arrived.

### What the properties say

* **`StaleServeBound`**: no decision uses a bundle replaced more than
  `MaxStale = GrantTTL + L1TTL + 3 * MaxRequestTime - 2` ticks before; the bound is reached in this
  instance. **`EventuallyCurrent`**: after the last change all copies become
  current, with every broadcast lost if need be.
* **`RevocationEffective`**: an undisturbed revocation leaves no revoked bundle in
  L2, nor in an L1 whose listener has caught up.
* **Buses**: no interleaving of reaper, publisher and the two kinds of `Close`
  closes a channel twice or sends on a closed one; a listener ends only for a
  cause; accepted broadcasts are handled; `Close` returns; subscriptions are taken
  back. The Redis subscription reorders, repeats and invents nothing, loses
  nothing that reached the client while it lasts, and its goroutine ends with the
  context although nobody reads.
* **Caches**: all three implementations keep the contract. The provider over Redis
  does for every time to live but -1, which go-redis takes for "keep".
* **`AllowedHeld`**: a request reaches its endpoint only if each requirement of
  each policy on the route held at some moment since it arrived.
  **`RefusedForReason`** is the converse for 403.
* **`HandledByItsCredential`**: a handled request carried one credential in its headers,
  the transformer was given that credential's principal, and the handler sees what the
  transformer returned, which is a principal and meets the guard.
  **`RevokedKeyRefused`**: a key revoked before a request arrived does not get it
  handled.
* **OAuth**: one token per code however many exchanges and polls race; a presented
  code is used up; approvals do not reach a token that was signed; a waiting
  device stays reachable unless another was handed its user code and has it still or
  got its token with it; an approved
  device that polls gets its token or expires; each token is classified as the
  flow that issued it, also when users and clients share names.
* **`RightHandlerOnce`**: whatever the redispatches, one handler at most, once, of
  the version that was asked for, and the passes end. **`SupportDecided`**: in
  whatever order maps are walked, a version that all the best patterns have is not
  refused, nor one that gin would route to the only best pattern; one that none of
  them has is not let through; and the reported versions are those of a best pattern.
* **Search**: the error returned is a cause, not the cancellation the group itself
  makes; a total not marked as estimated was true at some moment; an adaptive
  search ends although `COUNT(*)` never answers; placeholders number the
  arguments; a compiled query is the one asked for, within its tenant, and a JSON
  number is bound to an integer field as the integer it is or refused; `Validate`
  and `Compile` agree; following `has_next_page` delivers every row once, in
  order, up to the largest integer; patterns match what terms match.
* **`ResponseRight`**: a health response covers the checks registered when the run
  began and reports the worst, in whichever order goroutines end.

### Bounds

* Permission path: two request slots give one request that holds an old bundle and
  one that reads or fills a tier meanwhile; slots are reused. Two ticks tell an
  entry about to expire from a fresh one. One principal suffices because
  principals share nothing but channel capacity, and a channel of capacity one is
  full after one broadcast. Two changes allow a grant after a revocation and two
  revocations.
* Buses: three providers, because closing the bus as one provider's L2 meets one
  provider that listens and one that closes. Over Redis, five messages fill a
  channel of two, the forwarder's hands and a channel of one, and one is lost.
* Caches: two keys and values, lives of one and two ticks within three ticks, and
  the boundary values 0, -1 and -2. Two callers of `Dispose` race.
* Authorization: bundles of up to three rules out of six, in every order; seven
  routes with every kind of handler; two users or none.
* Authentication: one request at a time against two keys, since requests meet only
  in the key store, which other actions change at every step; the clock passes the
  tolerance of every token, and a token fails for each reason there is. Three
  authenticators: with a JWT and a key validator, with an OIDC validator, with a key
  validator only. All sets of claims of a menu of fourteen.
* OAuth: one authorization code with two exchanges and a challenge that the verifier
  matches or does not, two devices that share the only
  user code, a user named like a client and one with an empty name, which the
  provider accepts. Codes live for the tick they are made
  in, so each check is met before and after expiry.
* Versioning: three routes out of seven patterns and two versions, so that two fit one
  path, with or without a tie; requests with a version in each place or in none; a
  registry with and without reporting, and no registry.
* Search: a table of at most three rows with pages of two, integers of 7 bits
  for pages and compiled requests, with numbers on both sides of the edge of that
  width, two filters, two terms and one sort; terms of up to four characters against
  texts of up to three, enough for an escape before a wildcard and a star between
  letters.
* Health: two checks of three kinds and one call of `Run`. Runs share only the
  registry, which changes at every step; the proof covers any number.

Deadlock is not checked where the system may really stop: providers that are all
closed, a request that is put together and done (`search`), a clock at its bound
(`authentication`).

### Fairness

* `PermissionCache`: time passes and a request in flight makes its next call.
  Nothing is assumed of listeners or admin calls, so convergence does not depend
  on a broadcast.
* `RevocationBus`, `RedisBus`: Go's scheduler runs a goroutine that can run, and a
  constructor or `Close` that has begun goes on. A select one of whose cases stays
  ready takes it in the end. Nobody is assumed to publish, read or close.
* `OAuthProvider`: a device goes on polling, which RFC 8628 asks of it.
* `Searcher`: goroutines run, the deadline's timer fires, the page query and
  `EXPLAIN` answer, and pgx returns from a query whose context is done. `COUNT(*)`
  is not assumed to answer.
* `HealthChecker`: goroutines run, and a probe that can return does.

### What the two violations say

* **`InstantRevocation`.** `authz/README.md:23` promises that a revocation purges
  at once. A request that read the repository before `RevokeAll` and calls
  `cache.Set` after the purge puts the revoked bundle back, with nothing lost or
  failing. How long it can then be used is what `StaleServeBound` bounds;
  `RevocationEffective` states exactly when a revocation does work.
* **`GrantWindow`.** `authz/engine.go:173` and `authz/cache/tiered.go:23` speak of
  a 60-second window. `Get` gives a value from L2 a whole `L1TTL` in L1, so with
  the defaults a change needs up to about 120 seconds.

### Disagreements with comments, read off the code

The models follow the code in these places, where a comment says otherwise. No run
is kept for them.

| Code | Comment | Difference |
|---|---|---|
| `authz/cache/memory.go:154` | `:146` "all active subscribers" | a subscriber with a full channel is skipped |
| `authz/cache/redis.go:67` | `authz/cache/cache.go:24` | a time to live of -1 keeps the old one |
| `authz/engine.go:313` | `authz/builder.go:53` | of the handlers given with `WithHandler`, only a PARC handler is kept |
| `authz/policy.go:56` | `:49` | a named `CustomRequirement` has no handler by default |
| `authz/middleware.go:135` | `:132` | `AllowAnonymous` sets a key that nothing reads |
| `authz/middleware.go:192` | `:49` | the default policy is never read |
| `authn/middleware.go:173` | `:154`, `:33` | `User` and the guards ignore a custom context key |
| `versioning/registry.go:60` | `:73` | of two patterns equally specific, either is taken |
| `versioning/middleware.go:105` | `:92` | a prefix `/api` without a slash counts |
| `versioning/middleware.go:137` | `:125` | any segment beginning with `v` is taken for a version |
| `search/types.go:117` | `:116` | the offset of a page far beyond the result wraps around |
| `search/pgx/searcher.go:69` | `:27` | a transaction has one connection for two queries |
| `search/config.go:91` | `:81` | terms count against the limit also when no column is searchable and `Compile` uses none |
| `search/coerce.go:105` | `:89` | a string with commas is split for every type |
| `search/wildcard.go:84` | `:78` | a term of question marks only is skipped, although it does not match everything |
| `cache/memory/memory.go:83` | `:34` | an expired entry is not removed by `Get` |

## 4. Refinement

All three are proved, and checked on their small instances:

* `MemoryStore` implements `CacheContract` (`KeepsContract`); the mapping shows an
  entry only while it is not expired, so a purge is a stutter.
* `RedisStores` implements `CacheContract` (`RedisKeepsContract`), for the store
  with its own client, with the caller's, and for the authz provider.
* `RedisBus` implements `RevocationStream` (`ImplementsStream`); what is on its way
  is the subscriber's channel, the forwarder's hands and the client's channel, in
  this order.

## 5. Proofs

All for every value of the constants, from the named assumptions of the modules.
Most properties are not inductive; each entry says what the inductive invariant
adds and why.

`PermissionCache`, from `ConstantsAssumption`:

* `TypeCorrect`: `TypeOK` is inductive.
* `BoundedStaleness`: `StaleServeBound`. It is not inductive, since it says
  nothing of the copies that are not being decided on. `StaleInv` adds, for each
  place a copy can be in, that its staleness plus the time it has left there is
  at most what the places before allow: `GrantTTL` and one request in L2,
  `L1TTL` and one request more in L1 (`L2AgeInv`, `L1AgeInv`, `RequestAgeInv`),
  and that the current version has staleness 0 (`AgeInv`).
* `RevocationTakesEffect`: `RevocationEffective`. `RevocationInv` adds the moment
  in between: from the L2 delete on, L2 is clean *and no request is about to
  store a revoked bundle* (`PurgeInv`), and from the broadcast on every L1 that
  is not clean has the principal on its channel (`BroadcastInv`). This is where
  the order of the three calls in `PublishRevocation` is used.

`RevocationBus`, from `BusAssumption`:

* `BusTypes`: no channel exceeds its capacity.
* `BusNeverPanics`: a registered channel is open (`ChannelInv`), so the look-up
  under the mutex in the reaper is enough.
* `OpenProviderListens`: a channel is closed only because the bus or its provider
  was (`ReasonInv`).

`RedisBus`, for channels of any size:

* `NothingIsLost`: `NothingLost`. `SubscriptionInv` adds that the forwarder holds a
  message exactly while it sends, that it runs until an open subscription is
  closed, and that nothing was kept before it started.
* `SubscriptionIsStream`: `ImplementsStream`, one lemma per action: a message moves
  from the client's channel to the hands to the subscriber's channel without
  changing the line they form, so only publishing, receiving and giving up are
  steps of the stream.
* `ReceivedInOrder`: a subscriber gets each message at most once and in the order of
  publication. `LineInv` says that what was received and what is on the way are
  published messages, the older before the younger. `InOrder` and `LineInv` are in
  the proof module; no run checks them.

The caches, from `StoreAssumption`:

* `StoreKeepsContract`: the refinement, one lemma per action that is not a stutter.
* `RedisStoresKeepContract`: the same for the three stores over Redis, from the type
  invariant of the database and the clock (`RedisInv`). It is stated for the
  composition `CachesSpec`, in which the store that runs is chosen at the start.
* `DisposalIsOnce`: `DisposeOnce`. `OnceInv` adds that one caller at most is inside
  the function of `sync.Once`, and that the channel is open until that caller has
  closed it.

`PARCEvaluate`, from `PatternsAssumption` and `EvaluateAssumption`:

* `EvaluateCorrect`: the loop decides by deny-overrides. `LoopInv` adds what the
  loop has seen up to its index: no deny, and a permit exactly if it remembers one.

`Authorization`, from `AuthorizationAssumption` (the application's own handlers are
not among the built-in ones, its policies are lists of requirements, its routes lists
of handlers):

* `AllowedRequestsHeld` and `RefusalsHaveReasons`: `AllowedHeld` and
  `RefusedForReason`. Both speak of requests that are over. `FlightInv` says the same
  of the handlers a request has passed and, within a policy, of the requirements
  before the one being evaluated; `Recorded` that the bundles of the repository and
  of the cache are among those seen since the request arrived; and `EngineInv` that
  the engine's handler of a requirement's type decides as that requirement says,
  whatever the order in which the application configured it.

`Authentication`, from `AuthenticationAssumption` (a request without an
Authorization header has no token in it):

* `RevokedKeysRefused`: `RevokedKeyRefused`. `RevocationInv` adds that a revocation
  is never taken back, so that a request about to look its key up meets every
  revocation it arrived behind.
* `HandledByCredential`: `HandledByItsCredential`, for any transformer.
  `CredentialInv` follows the principal from the validator to the transformer, and
  what that returned to the guard, while holders of records stay what they are
  (`RecordInv`).
* `UsersNeedEvidence`: `UserNeedsEvidence`, for any claims whatever.

`OAuthProvider`, from `OAuthAssumption`:

* `CodesAreSingleUse`, `DeviceTokensStand`, `WaitingDevicesApprovable` and, for the
  action property, `CodesStaySpent`. `ProviderInv` adds that an authorization code
  is in one place at a time, the map, the hands of one exchange or spent
  (`CodeInv`); that a user code leads to a device in the map that displays it
  (`DeviceInv`); and that a device token was signed from an approved record that
  has left the map (`TokenInv`).
* `FlowsAreRecognised`: `FlowRecognised`, for users and clients of any name.
  `TokenKinds` says which grant type and which kind of code each flow signs for.

`HealthChecker`, from `AbsentAssumption`:

* `ResponseCorrect`: `ResponseRight`. The invariant adds that a goroutine's entry is
  there exactly when it has ended (`GoroutineInv`) and that the overall status is
  the worst of the entries so far (`OverallInv`).

`Versioning`, from `VersioningAssumption` (what the tables of segments must agree on:
`/api` has nothing behind its prefix, `unsupported` is no version; the empty string is no
version either, so the version format must refuse it, and paths have no empty segments):

* `HandlerRunsOnce`: `RightHandlerOnce`. `MiddlewareInv` says where a request is in
  its passes. `PathInv`: from the second pass on under `/api`, and from the third on
  elsewhere, the path begins with the version that any reader would read, so that no
  further redispatch follows. `AskedInv`: a later pass takes the version the first
  one took. `RunsInv`: a handler that ran belongs to that version and its pattern
  fits the resource; a pass that redispatched runs none.
* `SupportIsDecided`: `SupportDecided`. `SupportInv` relates what the registry said,
  found with the path without its version, to the routes gin finds with it.

`Searcher`, from `PaginationAssumption` and `SearcherAssumption`:

* `ErrorsHaveCauses`: `ErrorHasCause`. `CauseInv`: the error the group keeps has a
  cause; while it keeps none, the error of its context has one too, and that of the
  exact count unless it is the timeout, which the adaptive counter swallows.
* `TotalsWereTrue`: `TotalWasTrue`. `TotalInv`: the count that ended, and a first
  page without rows, were true at some moment of the search; the correction of an
  empty first page uses the second.

`SearchPages`, from `PaginationAssumption` and `PagesAssumption` (a page that the
client jumps to has an offset that an int holds; one reached along `has_next_page`
always has, which is proved):

* `PagesTileTheResult`: `PagesTile`, for integers of any width. It needs what Go's
  arithmetic computes: no sum or product up to the largest total wraps around
  (`NoOverflow`), the rounded-up quotient has a next page exactly if rows are left
  (`NextPage`), a page's rows are the numbers from its offset on (`PageRows`), and
  adjacent runs of numbers join (`Joined`).

`IssuedClaims`, from `MenuAssumption` (claims that hold lists hold lists):

* `RolesMatch`: `RolesMatchReference`, for tokens with any claims. The property speaks
  of one list and the loop of `CognitoNormalize` builds it group by group, so the
  induction is over the groups: `Extended` says of the roles so far that they begin
  with the principal's own and that no later one repeats another up to case, and
  `AddGroupsRoles` adds that they hold the groups seen so far.

`SearchCompile`, from `AskAssumption` (a field has one of the types and resolvers
there are; a JSON list, and a string split at its commas, is a list):

* `PlaceholdersAreArguments`: `PlaceholdersNumberArgs`. `Numbered` says of a
  compilation that stands at any filter that placeholders ascend over the conditions
  and are exactly the numbers of the arguments so far. `Bind` keeps it
  (`BindNumbers`), because it numbers from the length of the arguments.
* `CompilesWhatWasAsked`: `QueryAsRequested`. `Compiling` adds to `Numbered` that the
  conditions of the tenant and the terms stay as they were, and that each filter
  before the present one has its condition, with the values it bound still behind its
  placeholders (`FilterKeeps`, `BindArgs`); `CoercedIsKept` and `ListValues` are what
  coercion does to numbers.
* `ValidateAndCompileAgree`: `ValidateAgrees`, from the same induction (`Checked`: a
  compilation without error has passed only filters that `validateFilter` accepts, and
  behind such filters it stops only for an error of a resolver) and from what `Validate` leaves of a list
  of errors (`NoFirstError`).

`Wildcards`, from no assumption; letters may be any characters, `*` and `?` included:

* `TranslatesWhatWasTyped`: `TranslationMatches`, for terms and texts of any length.
  A pattern spells the term piece by piece, each character one place or, escaped, two
  (`Offsets`, `Spells`, `PatternPieces`). At the end of each piece the places that
  LIKE may have come to are those up to which that much of the term can be laid
  (`MatcherFollows`), since both sides take one more character the same way
  (`PieceReaches`, `LaidNext`). The characters of a pattern that act as wildcards are
  the pieces of `*` and `?` (`WildPieces`), from which the classification follows
  (`Classified`).

These five are about what a loop computes along a list of any length. Two lemmas make
such arguments possible. `NatInd` is induction for a *set* of numbers, proved from the
existence of a least element, and each use gives the set of numbers up to which the
claim holds. For a function defined by recursion, TLA+ says only that it is some
function with the defining equation if there is one; a lemma per function
(`KeptExists`, `AddingExists`, `CompilingExists`, `EscapeExists`, `ModesExist`,
`ReachExists`) shows by the same induction that there is one, and the next one that
the equation holds.

The type invariants of these modules are proved too (`StoreTypes`,
`EvaluateTypes`, `TypesCorrect`, `ProviderTypes`, `AskTypes`, `PatternTypes`,
`ClaimsAreTyped`). `MiddlewareInv` and `SearchInv` were also model-checked on small
instances before they were proved.

Only model-checked are the liveness properties, which are outside what the prover
handles: `EventuallyCurrent`, `AcceptedHandled`, `CloseReturns`,
`SubscriptionReclaimed`, `ForwarderEnds`, `ApprovedGetsToken`, `SearchEnds` and
`RunEndsWithContext`. Every other property of a passing run has a theorem.

## 6. What is not modelled

* Versions that are not single segments, and paths with empty segments.
  `hasVersionPrefix` (`versioning/middleware.go:112-123`) splits the path with
  `FieldsFunc`, which drops empty segments. With a `VersionFormat` that accepts the
  empty string, as that of a zero `Config` does, and an empty `DefaultVersion`, an
  empty version header makes the version empty; no segment equals it, and `/api/x` is
  redispatched as `/api//x`, `/api///x` and so on without end. The same holds of a
  format that accepts a version with a slash, which no segment equals either. The
  default format accepts neither. `HandlerRunsOnce` and the runs hold for
  configurations whose format accepts neither, which is why the assumption is there.
* Resolvers that an application writes itself (`FieldResolverFunc`), which may return
  an empty fragment, for which `Compile` adds no condition (`search/config.go:162`).
* In the generic cache in memory, the nil of an interface type: `Set` stores it and
  the type assertion of `Get` fails on it, so that it reads as a miss
  (`cache/memory/memory.go:88-94`). `Values` are values for which the assertion holds.
* The identity accessor, which reads request values and has no state.
* Ristretto's write buffers: an L1 store of a new key takes effect at once or
  never, where the library may take a moment. A later delete removes it either way.
* The listener's receive and delete are one step; what it has in hand counts as
  still queued.
* A tiered cache without a bus, a subscription that fails at construction, and a
  `KeyFormatter` that does not produce the handler's key.
* Registrations with the policy engine while requests run: its maps have no lock,
  and a concurrent map write ends a Go process, so there is no later state to
  describe.
* Signing, parsing and key discovery, which are the JWT and OIDC libraries'; scopes
  and the claims of provider tokens that no validator reads.
* Codes of the OAuth provider that expire unused stay in its maps; memory is not
  bounded in the model either, and no property is about it.
* `search/registry.go`, a locked map filled at start-up, and the text of the SQL:
  column lists, `FROM` and the wording of conditions.
* Error texts, problem bodies, response headers other than
  `api-supported-versions`, durations in health responses and tracing.
