# Semantic operator: TLA+ models, model checking and proofs

This directory models the control logic of the semantic operator and of the
semantic server: the reconciler that vets and publishes `SemanticModel`
resources, the query path that serves them to callers over REST and MCP, the
caller's way through authentication, token exchange and external authorization,
and the wire driver that carries a query to StarRocks.
TLC checks the models on small instances; TLAPS proves the main safety
properties for every value of the constants. `PROJECT.json` lists the runs, the
theorems, the mutants that show each property can fail, the hazards the
properties are aimed at, and for each definition the source lines it stands for.

## The system

Two processes share one kind of object.

* The **operator** (`src/cmd/manager`, `src/controllers`) watches `SemanticModel`
  resources. A reconcile validates the document, compiles it, compares it with
  the physical tables in the query engine, writes the compiled artifact to a
  ConfigMap and creates governed views in the engine.
* The **server** (`src/cmd/server`, `src/internal/serving`) watches those
  ConfigMaps, keeps the decoded models in memory, and for each request
  authenticates the caller, resolves the model, asks an external authorization
  provider if the model names one, compiles the request to SQL under the model's
  governance, runs it in StarRocks or Trino with a static or the caller's own
  credential, and caches plans and results.

### Inventory

| Component | State it keeps | Operations | Hard behaviour | What makes it correct |
|---|---|---|---|---|
| Reconciler (`controllers/semanticmodel_controller.go`) | resource, status and annotation in the API server; artifact ConfigMap; views in the engine; work queue | Reconcile: finalizer, validate, compile, bind, publish, views, annotation, status; finalize | stale informer caches, conflicts, calls that fail after taking effect, crashes between two writes, tables that change meanwhile | nothing unvetted is published; an idle operator has done or explained its work; convergence; deletion completes |
| Governed views (`internal/serving/views`) | views in the engine | Publish, Drop | one of several DDL statements fails | as above |
| Query service (`internal/serving/service.go`, `rest`, `mcp`) | none of its own; shared caches | Plan, Query, discovery | requests interleave between authorization, cache reads, engine call and cache writes | an answer is the caller's own, under a decision that held, complete unless a limit was named |
| Cache (`internal/cache`) | plans and results by key | Get, Set | lost writes, eviction, entries written by other requests | keys separate everything that decides an answer |
| Limits (`internal/serving/limits.go`) | none | apply, result ceilings | default limit probes one row past itself | no silent prefix |
| Authorization registry (`internal/serving/authorization`) | providers | Authorize, Fingerprint | provider down, policy revised during a request | fail closed |
| OPA and Ranger providers (`authorization/opa`, `authorization/ranger`) | none | decision requests | responses that are late, damaged, shaped unlike the contract, or another call's | anything but an unconditional allow to this request is a denial or an error |
| Limiter (`internal/serving/limiter.go`, mux of `cmd/server`) | slots | acquire, reject, release | `http.TimeoutHandler` returns while its handler runs; slow clients | slots match holders; nobody queues forever |
| Model store (`internal/serving/store.go`) | models by ConfigMap | ingest, delete, Get, Single, Ambiguous, All | lost watch events, relists, tombstones, lookups under separate locks | serves the latest artifact; never guesses |
| Credential resolvers and token exchange (`internal/serving/exchange`, `credential.go`) | token by engine user | Exchange, same-subject check | expiry during a call, wrong subject issued, concurrent refresh | a query runs as its caller |
| Governance (`internal/governance`) | none | Visible, Authorize, ExpandClaims | several roles, default role, missing claims, malformed globs | roles are judged whole; rows are the union of what each granting role shows |
| Query planner (`internal/planner`) | none | Compile, Build | fan-out, composite queries, join trees | each metric equals its own reference value |
| Spec validation (`internal/ossie`) | none | ValidateSpec | many rules in one pass | what is published satisfies what the planner assumes |
| Engine clients (`internal/starrocks`, `internal/trino`, `internal/dbclient`) | pools | Query, DescribeTable, Ping, Exec | failures, expired tokens | a caller's query runs on a connection of the caller |
| StarRocks wire driver (`internal/starrocks/mysqldriver`) | connections: buffer, packet number, watcher | Connect, Exec, Query, Prepare, transactions, rows | context watcher beside the calling goroutine, lost connections, retries of `database/sql`, result sets left unread | no statement runs twice; replies, results and users are not mixed up; nothing leaks; calls return |
| Authentication (`internal/serving/auth`) | JWKS | New, Authenticate | claims of any shape, headers beside a token | the identity is the one the trusted means names |
| Start-up of the server (`cmd/server`) | configuration | run, requireEngineIdentity, buildAuthorizationRegistry | combinations of settings | no configuration that silently runs queries as the server |
| Catalog import, `ossiectl`, benchmark, dialects, observability, settings | none that matters here | | sequential text processing | |

Components interact through the API server (operator to server, by ConfigMap),
through direct calls (adapter → service → cache, registry, engine client), and
through the shared caches, slots and token cache.

## Modules

| Module | Models | Checked by | Proofs |
|---|---|---|---|
| `Reconciler` | controller and view publisher | `MCReconciler` | `ReconcilerProofs` |
| `QueryDomain` | what a request, plan, result and answer are; shared | | |
| `QueryService` | the promise: an atomic, uncached server | as `Implements` | |
| `QueryPath` | Plan and Query step by step with both caches | `MCQueryPath` | `QueryPathProofs` |
| `Limiter` | the slot channel around MCP, and REST in `TimeoutHandler` | `MCLimiter` | `AdmissionProofs` |
| `ModelStore` | ConfigMap informer, store, `Service.Resolve` | `MCModelStore` | `ModelStoreProofs` |
| `Identities` | callers, claims and the clock; shared | | |
| `Authentication` | `auth.New` and `Authenticate`, header and JWT modes | through `CallerPath` | `CallerPathProofs` |
| `Exchanger` | token exchange, cache, same-subject check, engine clients' check | through `CallerPath` | `CallerPathProofs` |
| `Authorizer` | the promise of external authorization | as `Implements` | `CallerPathProofs` |
| `Providers` | the registry, the OPA client, the Ranger client and provider | through `CallerPath` | `CallerPathProofs` |
| `CallerPath` | start-up, then a request through the four modules above | `MCCallerPath` | `CallerPathProofs` |
| `Wire` | one connection: framing, reads, writes, the context watcher | through `Driver` | `DriverProofs`, `ReplyProofs` |
| `Handshake` | `Connect` and the authentication exchange; extends `Wire` | through `Driver` | `DriverProofs`, `ReplyProofs` |
| `Driver` | calls of the client over `database/sql` and the pool; extends `Handshake` | `MCDriver` | `DriverProofs`, `ReplyProofs` |
| `Governance` | built-in policy and discovery | `MCGovernance` | `AdmissionProofs` |
| `JoinTree` | `joinTree` and `reach`: root and joins of a statement | through `Planner` | `PlannerProofs` |
| `Planner` | `Build`: partition of the metrics, flat and composite statements; extends `JoinTree` | `MCPlanner` | `PlannerProofs` |

### Reconciler

One `SemanticModel` name and its ConfigMap. `sm` and `cm` are the objects in the
API server, `smCache` and `cmCache` the informer's copies. A resource version is
represented by whether a copy is of the latest one (`smSeen`, `cmSeen`, `fresh`),
all that optimistic concurrency compares. `pc` walks through `Reconcile`: each
action is the stretch of code between two calls to the API server or the engine,
so another process can act between any two of them. Every write can be accepted,
conflict, meet a deleted object, or fail at the transport with or without having
been applied (`CallFails`). `ReturnError`, `ReturnResync` and `Return` are the
three ways controller-runtime treats a result. `CrashRestart` drops everything in
memory; the new process lists and queues every object. `GarbageCollect` follows
the owner reference. A document is an opaque value with the facts the controller
asks about it: valid, compilable, small enough, which tables, which views, which
database. `Update` decodes the server's answer into the object in memory
(`Decoded`), which is why the status being computed can be replaced by the stored
one when the annotation is written.

### Query path

`QueryPath` has one goroutine per request and one action for each access to
shared state: `Receive` (authenticated, model resolved), `Prepare` (credential,
`Limits.apply`), `Authorize`, `PlanHit` or `PlanMiss`, `SetPlan`, `ResultHit` or
`ResultMiss`, `Execute`, `SetResult`. Meanwhile `Publish`, `Decide` and `Load`
change the published version, the policy and the warehouse. Every cache read may
miss and every write may be lost. SQL text is the record of what determines it.
`QueryService` states the promise with no caches and one atomic answer; the
caches may only widen which past state of the warehouse the rows come from.

### Limiter and ModelStore

`Limiter` separates the connection (`conn`) from the handler's work (`job`),
because for REST the second may outlive the first. `ModelStore` models client-go's
informer as far as the store sees it: stream, indexer, handler queue, relist with
tombstones, resync; and `Resolve` as one step per store method, because each takes
the lock anew.

### Caller path

`CallerPath` starts a server under one of the configurations, or refuses it
(`StartUp`, in the order of `run`), and then lets requests through: `Arrive`
authenticates, `Resolve` runs the configured credential resolver, `Plan` asks the
provider the model refers to, `Execute` and `Finish` are the engine client, which for
StarRocks refuses to send a token without TLS (`CarriesToken`). A request
is the headers and the token a caller sends; a token is what the JWT library and the
claim readers look at, so a claim has a shape (absent, a string, a list, anything else)
and not only a value. The steps of `Exchanger` (cache lookup, request, store, check) and
of `Providers` (the policy server's decision, its answer, a timeout, a cancellation)
interleave between calls, and the clock may tick between any two of them; the
authorization server may fail, misissue, or leave the expiry out. A policy server
answers with any of the responses that its contract allows for what it decided, each
also damaged: another status, too long, cut off, null, two documents, an unknown field.
Ranger's answers may besides be those to another call, which is what its request id is
for; OPA's are paired with requests by HTTP. `Authorizer` states the promise in terms
of what was asked, decided and told. Two equal inputs of the same tick have the same
request id, hence `DecidedOn` ranges over all calls that asked the same.

The arbitrary policy of `QueryPath` is the same boundary seen from above: there a
decision is one atomic step, here it is the exchange of messages below it.

### Wire driver

A connection is the `mysqlConn` value (`conn`) and its socket with the server behind
it (`net`): what the server wrote are frames with the number they carry, whether they
are full, and, only for the properties, the call whose command they answer. One
goroutine uses a connection at a time, `me`, so a call is a control state with what
the code keeps on its stack; the watchers, the server, the deadline and losses of the
connection run beside it. A read is one step per frame (`ReadFrame`) once the bytes are
there (`Fill`), a write one step per frame, and the goroutine can be overtaken between
any two. `finish` and `cancel` meet the watcher goroutine in `Finish`, `WatcherTakes`,
`WatcherCancels` and `WatcherEnds`. `database/sql` is modelled from what the driver
relies on: the pool, `ResetSession` and `IsValid`, two tries on `ErrBadConn` and a
third on a new connection, and `awaitDone`, which closes rows when their context is
done. Its locks are not.

Parameters are interpolated into the text (`baseConfig`); a prepared statement is what
`database/sql` falls back to when interpolation declines, so both are modelled.

Assumed: the server follows the protocol, the password is not empty, `MaxAllowedPacket`
is configured, and no compression, charset or session parameters are set
(`baseConfig` sets none). A closed connection and one after `COM_QUIT` look alike.
Packet numbers wrap at `SeqMod`, four instead of 256, so that they do wrap.

### Governance

The policy code is a set of functions of the model's governance and of the caller;
the state is that pair, and the actions are the changes of the caller's groups,
roles and claims, so that properties can compare a caller before and after. The
initial state ranges over every spec over the labels, and the properties quantify
over every request.

### Planner

`JoinTree` runs the breadth-first search of `reach` one loop iteration at a time, for
one candidate root after the other, then the walk from each required dataset to the
root (in any order: the code ranges over a map) and the collection of the joins.
`Planner` calls it from the partition of the metrics and from each subquery. A metric
is the datasets its aggregates read and the kind of aggregate; a rendered subquery is
its root, the datasets it joins, its aggregates and whether it deduplicates. The
initial state ranges over join graphs without a cycle, as validation ensures, and
over requests. Reachability in the properties is stated with closed sets of datasets,
independently of the search.

## Runs

| Run | Shows | Bounds |
|---|---|---|
| `reconciler` | type invariant, `PublishedIsVetted`, `RestIsExplained`, `ReleasedAfterDrop`, `Converges`, `DeletionCompletes` | six documents: good ones with two views and with one in another database, and ones that fail validation, compilation, the size limit and view building; two user writes, one fault, three table shapes |
| `reconciler_orphan_view` | `RemovedViewsAreDropped` is violated | two user writes, no fault |
| `query_path` | type invariant, `OwnAnswer`, `NeverAPrefix`, `NotAfterRevocation`, `Implements` | two requests of eleven kinds: two callers, both endpoints, static and token credentials, no limit and limits below, at and above each threshold; two versions (one with a provider), one change |
| `limiter_slots` | type invariant, `SlotsMatchHandlers`, `ResultsWithinBudget`, `NoOneQueuesForever` | four requests (two REST), two slots |
| `store_sync` | `ServesLatest`, `AnswersHeld`, `EventuallyServed` | two ConfigMaps, any initial content, one write, two broken watches |
| `store_tombstone` | `DeletedIsRemoved` is violated | one write, one broken watch |
| `caller_identity` | type invariant, `RunsAsCaller`, `RunsAsAuthorized`, `Implements` | two calls, two users, seven configurations that start and eleven that do not, tokens and headers with one thing wrong each, three clock values, margin one |
| `governance_roles` | `NoPooling`, `QueryableIsListed`, `EmptyRoleIsInert` | a group and a role, two metrics, two fields, one of them a declared dimension, two row filters, one claim, a malformed glob |
| `planner_trees` | type invariant, `JoinsConnect`, `NoDetour`, `NoPathIsReal`, `QueriesAreGoverned`, `SafeUnlessOutgrown`, `SplitsAreComplete` | three datasets, every acyclic graph of two relationships and diamonds in every order, six metrics, requests of two |
| `planner_fanout` | `RatiosAreSafe` is violated | as above |
| `driver_calls` | type invariant, `AtMostOnce`, `OwnReply`, `WholeResult`, `SessionIsCallers`, `NothingLeaks`, `CallsReturn`, `NoStrayCancel` | two calls (a prepared query, a query as its caller or a ping, then a statement or a transaction), two connections, replies of every shape and of up to two rows, commands of one and two frames, packet numbers modulo four |
| `driver_timeout` | `QueryTimeoutBounds` is violated | one query on one connection |

Why these bounds suffice. The reconciler handles one key at a time, so what can go
wrong needs a few writes of others around one or two reconciles: a creation, then an
edit or a deletion, with one fault at any call. Re-creation under the same name would
be a third write; `PublishedIsVetted` and the type invariant are proved for any number
of writes, and so are `RestIsExplained` and `ReleasedAfterDrop`; the liveness properties
are not checked there. Two views tell "the first" from
"all". A cache mix-up needs a writer and a reader of an entry: two requests. A provider
that allows and then denies is within one change; one that allows under two different
revisions is left to the proof of `RevocationHolds`. Limits sit on both sides of the default (1), its
probe (2), the cache ceiling (reached at 3) and the result ceiling (4). Two slots
and four requests make both surfaces queue while both slots are held. Roles are
compared pairwise, so two labels suffice for pooling. A detour, a diamond and a
relationship declared out of order need three datasets, and the effect of one metric
on another's classification two metrics; dataset order is fixed because the graphs
are not. An exchanged token, a cache entry or a policy answer is mixed up between two
calls, and a token expires within three clock values, one of them inside the margin.
On the wire, what a call leaves behind is met by the next one, hence two calls; a
second connection lets a call whose first one was lost dial anew.

`CHECK_DEADLOCK FALSE` is set where the system may stop: the writes are bounded, and
an operator or server with nothing to do is at rest (`RestIsExplained` says when an
operator may be). `Governance` and `Planner` are checked for deadlock.

### Fairness

* Reconciler: weak fairness of the worker, the informers, the delayed queue and the
  garbage collector. controller-runtime and Kubernetes keep all of them running;
  users, faults and crashes owe nothing, and are bounded.
* Limiter: the queue timer fires and handlers compute and hand over; `Written` and
  `GiveUp` are not fair, because a client may read arbitrarily slowly.
* ModelStore: the informer's goroutines run, and a broken watch is followed by a
  relist.
* Driver: the calling goroutine and the watchers run, and the client's timeout passes.
  Only `Exec` and `Query` put it on their context (`Timed`); `Ping` hands its context on
  as it is, and bind and the readiness check give it no deadline, nor need a prepared
  statement or a transaction have one. For those `Deadline` may happen (a caller leaves,
  a process shuts down) but need not. Nothing is assumed of the server or the network.
  `CallsReturn` says that wherever a context is watched the driver's own steps and a
  timeout, or the end of the context by other means, bring the call back;
  `driver_timeout` shows where no context is watched. A ping that nobody gives up is
  promised nothing.
* The liveness of `Reconciler` takes for granted that each call to the API server and to
  the engine ends, with an answer or an error. A `Ping` of an engine that stays connected
  and silent does not: it would hold the only worker of the controller.

## Proofs

Proved by TLAPS for all constants that satisfy the modules' assumptions:

* `ReconcilerProofs!TypeCorrect`, `OnlyVettedPublished`, `RestExplained`,
  `ReleasedOnlyAfterDrop`. `PublishedIsVetted` is not
  inductive: the artifact is written from the reconcile's memory. `IInv` adds
  `CopiesInv` (the object in hand is there whenever the reconcile uses it) and
  `BindInv` (from bind to publish the document is valid and compilable, and each
  table that is no longer unbound has been accepted in the recorded shape unless
  drift has been noted). `RestIsExplained` says nothing of an operator at work, so
  `RestInv` does: as long as something can still wake the reconciler up (`Pending`: the
  key is queued or a watch event is under way), anything may be; when nothing can, an
  idle operator leaves the object explained, and a reconcile in progress works on the
  object as it is stored (`InSync`) and has established, up to the control state it is
  in, what the status it will write says (`Stage`). A write of anybody else makes the
  state `Pending` again; the operator's own do too, which is why each has to be seen
  before the operator can be at rest. `DropInv` does the same for the finalizer: while
  `finalize` runs, the copy in hand is the stored object unless somebody wrote to it,
  and every view it has been through is gone unless a `DROP VIEW` failed. The proof has
  one step per action.
* `QueryPathProofs!TypeCorrect`, `AnswersAreOwn`, `RevocationHolds`, `NoPrefixes`,
  `Refinement`. `IInv` is `TypeOK` with: every plan-cache entry is what its key says
  would be compiled (`PlansInv`), every result entry was computed from the SQL and as
  the user in its key, over a past state of the warehouse (`ResultsInv`), the
  decisions recorded as granted are those of the request's provider (`GrantsInv`),
  and each request's plan, rows and answer fit its stage (`RequestInv`).
  `Refinement` maps the shared variables to themselves and shows that each step is a
  step of `QueryService` or leaves its variables alone.
* `CallerPathProofs!TypeCorrect`, `CallersRunAsThemselves`, `OnlyAuthorizedRuns`,
  `ProvidersKeepPromise`. `CallInv` follows a call through its stages: the identity in
  hand is that of the request presented (`AuthInv`), the credential is the caller's as
  soon as it is resolved, under each of the three modes (`TokenInv`), and what was asked
  and told is about this caller (`AskedInv`); `UpInv` is what start-up insisted on. The
  token cache needs no invariant of its own, because the subject of every token is
  checked when it is used: the proof does not rely on the cache's keys. The lemmas
  `OPARead` and `RangerRead` say what each client reads out of any response the policy
  server can give, damaged or not; `ProvidersKeepPromise` maps every step to a step of
  `Authorizer` or a stutter.
* `ModelStoreProofs!TypeCorrect`, `LatestServed`, `NeverGuesses`. `StreamInv` and
  `NoticeInv` say the same of the two queues between the API server and the store: the
  last change under way that names a ConfigMap, or without one the far end, has it as
  it is at the near end. A relist replaces the queue by notices computed from the
  listing and the indexer (`Reported`), a resync by those of the indexer. `CallInv`
  carries what the running call has seen from one store method to the next
  (`publishers`): by-name lookups are not atomic, so `NeverGuesses` is about some count
  of publishers the store had during the call.
* `DriverProofs!TypeCorrect`, `NoLeaks`, `StrayFree`, `RunsOnce`, `SessionsBelong`. `OwnInv` ties the
  control state of the calling goroutine to the connection it holds (`CallerInv`: dialled
  during the handshake, ready during a session, closed before a Connect is given up, not
  watched between two operations) and every connection to its user (`LinkInv`: an open
  one is watched, and its watcher told, for the call that uses it and for nobody else;
  one nobody uses is closed or lies in the pool with an empty buffer). The seventeen steps
  of a session share one argument: they touch nothing of the caller's connection but its
  packet number, its unread frames and the flag for more results (`Touched`), and go on
  within the session (`Onward`). `RunsOnce` needs more, `OnceInv`: no two complete
  commands of one call are ever on their way, none is once the server has run it, and a
  call that may still send (`CanSend`: it has not come to its statement, or is writing
  it, or holds an `ErrBadConn` for which `database/sql` tries again) has neither run nor
  anything on its way. `Course` says which command was written last at each point of the
  code, and that `ErrBadConn` is held only while a call winds down. Only three actions
  move a command: `WriteFrame` sends it, `ServerRuns` consumes it, losses drop it; all
  others leave what the servers have received or take from its front (`Drained`).
  `SessionInv`, for `SessionIsCallers`, follows the login on each connection
  (`LoginInv`): until it is over the server has received only packets of the handshake
  (where `RunsOnce`'s `Course` is needed), so an `OK` that is buffered, on its way or
  already with the caller (`Told`) is the answer of a server that accepts; a connection
  past the TLS exchange (`PastTLS`) has TLS whenever the client is configured with it;
  and the pool only holds connections dialled without a caller's credential. Most steps
  leave every login where it was (`Quiet`); the dial, the switch to TLS, the end of
  Connect, the frames written and the server's answers are taken one by one.
* `ReplyProofs!OwnAnswers` proves `OwnReply`, from `ReplyInv`. `OwnReply` speaks of the
  packet a call holds; the invariant of everything that may still arrive on each
  connection (`Stream`: what is buffered, then what is on its way). A connection nobody
  reads from is `Resting`: nothing is left to be answered, and what is unread starts with
  a packet whose number is not 1, on a session that knows of more results. A call that
  reads is `Receiving` (the frames are its own, numbered from the connection's packet
  number, and `Rest` says what the grammar of replies leaves possible at this point of
  the code), `Waiting` (its command is the last one on its way, nothing else will be
  answered and nothing is unread), `Mixed` (what an earlier call left comes first, under
  a number the call does not expect), `Failing` or `Gone` (the connection is closed).
  A `Mixed` call cannot get past the first packet, because its number is compared
  before anything else is done with it: this is where commands of one frame are needed.
  A `Receiving` call ends `Resting`, because of the grammar: after an `OK`, an error or
  a last end of rows there is nothing, and after an `OK` or an end of rows that announces
  more there is the head of a further result set, whose number is at least 2. So each
  reading step is followed through `Rest`, for results, for the answer to a prepare, for
  a ping and for the exchange of the handshake; each step that moves or drops frames
  (`Fill`, losses, the deadline, a server that closes or dies) keeps a beginning of the
  stream; a write and the server's answer turn `Resting` into `Waiting` or `Mixed` and
  `Waiting` into `Receiving`; and all others leave connection and socket alone (`Still`).
  `Manner` adds what the call knows of itself where it is.
* `AdmissionProofs!PolicyTypeCorrect`, `RolesNeverPool`, `DiscoveryCovers`,
  `EmptyRolesInert`. The key lemma: a role authorizes a request within a set of roles
  exactly when it does so alone, provided the globs compile. `DiscoveryCovers` is about
  metrics and declared dimensions: `Build` refuses to group by any other field, but lets
  filters name every modelled one, as the documentation says, and such a field is
  granted without being listed.
* `AdmissionProofs!LimiterTypeCorrect`, `NoSlotLeaks`, `BudgetHolds`. `SlotsInv` adds `JobsInv`: a
  request that still waits for a slot has no handler, so a result held without a slot
  belongs to a handler that had one. The slots are counted with the finite-set theorems on
  cardinality: each action adds one handler to the set of those inside, removes one or
  leaves it alone.
* `PlannerProofs!TypeCorrect`, `JoinsAreConnected`, `NoDetours`, `NoPathOnlyWhenNone`,
  `AlwaysGoverned`, `SplitsComplete`, `SafeUnlessRootMoved`. `TreeInv` is the invariant
  of the search: the discovered edges form a tree over what is visited, parents first
  (`Edges`); every closed set with the root contains what is visited (`Reachable`);
  each edge that leaves it starts at a dataset still queued, and for the head of the
  queue it is still ahead in the loop (`Frontier`), so that at the end what is visited
  is closed; the edges the walks need lead up to the root (`Needed`); the joins
  collected are the needed edges before `at`, in order (`Ordered`); a root passed over
  does not reach all that is required (`Tried`). `BuildInv` says what each call of
  `joinTree` was made for (`Linked`), that an inline ratio was safe for its own root
  (`Judged`), that the combined query's root reaches `base` (`Combined`) and which
  sides are rendered (`Sides`). For `SafeUnlessRootMoved`, two members of `base` that
  both reach all of `base` are the same one, as the graph has no cycle
  (`NoMutualReach`, by the rank that `Acyclic` provides): the combined root is the one
  the ratio was judged against.

The assumptions are those named `ASSUME` in the modules: types of the constants,
sentinels that differ from the values they stand beside, and that there are finitely
many ConfigMaps (a list answer names each once). `ProtocolAssumption` of `Driver` is of
another kind, as it is about the server: the replies it may give are `WellFormed` (nothing
follows an error or a last `OK`, a result set has its columns, its rows and its end, an
announced result is there, only a row fills a frame), and a command has fewer frames than
there are packet numbers, 256 in the code. Only `OwnAnswers` depends on it: a server that
goes on sending after the end of a reply could put any packet in front of a later call.
TLC evaluates all of them in every run.

Only model-checked: all liveness properties (`Converges`, `DeletionCompletes`,
`EventuallyServed`, `NoOneQueuesForever`, `CallsReturn`; TLAPS does not handle fairness or
`ENABLED` here), and of `Driver` `WholeResult`. Its proof would go on from `ReplyInv`:
while the answer to a query is read and its end has arrived, the rows counted so far and
those in the first result set still unread make up what the server has sent, which takes
the cardinality of a set of positions through every step that moves a frame.
In `driver_calls` the query whose rows are counted is its caller's own and has a
connection to itself: `WholeResult` is exercised there against losses, cancellations,
early ends and every shape of reply, while it is `OwnReply`'s part, in the run and in its
proof, that result sets an earlier call left unread are not read as the answer. The two
meet in the instance `QueryAfterQuery` of `MCDriver`, two queries over the same pool:
`driver_calls.cfg` with `Kinds <- QueryAfterQuery`, `SPECIFICATION Spec` and `WholeResult`
alone holds over its 974,332 states, and fails there as soon as packet numbers are no
longer compared (`NeverOutOfSync`). It is too large for the liveness check beside it and
is not among the listed runs.

## Refinements

* `QueryPath` implements `QueryService` (checked by `query_path`, proved by
  `QueryPathProofs!Refinement`): requests, answers and the world are shared; the two
  caches and the stages in between have no counterpart.
* `Providers`, as part of `CallerPath`, implements `Authorizer WITH question <- asked,
  ruling <- decided, answer <- verdict` (checked by `caller_identity`, proved by
  `CallerPathProofs!ProvidersKeepPromise`): whatever the
  provider reads out of a response, it tells a call "allowed" only if the policy
  server allowed that very input without an obligation.

## Where the code departs from what it says

Four runs are expected to end in a violation; the findings in `PROJECT.json` quote
the text each contradicts: orphaned views after a failed annotation write, models
served after a deletion the watch missed, ratios distorted by a metric that
comes later in the request, and statements that outlast the query timeout while the
rows left over are drained. Further departures seen while modelling, for which no
run is kept:

* the StarRocks client's `Ping` (`client.go:108`) hands its context on without the
  client's timeout, unlike `Exec`, `Query` and the Trino client's `Ping`; the `Timeout` of
  `baseConfig` bounds the dial only, no read timeout is set, and neither bind
  (`semanticmodel_controller.go:185`) nor the readiness check (`main.go:246`) gives the
  context a deadline. An engine that stays connected and silent fails `DescribeTable` by
  its timeout and then holds the ping, so the reconcile neither requeues with backoff, as
  its comment has it of connectivity failures, nor ends (`CallsReturn` exempts pings whose
  context does not end);
* a REST handler abandoned by `http.TimeoutHandler` holds its rows after its slot is
  released (`ResultsWithinBudget` is stated around it), although the slot is described
  as a memory budget held for the whole request;
* discovery lists a metric whose expression reads a denied field, and `Build` then
  refuses every query of it, although listing is described as omitting what the role
  could not query;
* the join tree is not always the smallest one: among roots outside the required
  datasets the first in spec order wins, however long its paths;
* a `SUM(DISTINCT ...)` side of a ratio that has to be deduplicated on a primary key is
  summed without its `DISTINCT`;
* `COUNT(*)` alone, without dimensions or filters, is refused as an internal error,
  for want of a dataset;
* a changed `viewDatabase` leaves the views of the old database behind, because the
  annotation holds bare names;
* finalize ignores a failed `DROP VIEW` (`ReleasedAfterDrop` is stated around it);
* `Published` stays true after an edit that fails validation, compilation or the
  drift check, while the artifact is the earlier document's;
* readiness is reported when the informer's indexer has synced, ahead of the
  handlers that fill the store;
* `Get` and `Ambiguous` lock separately, so a name with two publishers that loses
  one between the calls is reported as unknown;
* a token is checked against the margin once, when its call begins, so a query that
  outlasts the margin runs on after it has expired;
* a role whose globs match no metric still makes columns visible in discovery;
* the interval at which signing keys are refreshed (`auth.go:85`) has a default and is
  never handed to the key library;
* a command of several frames can take a packet left over from an earlier call for its
  answer when that packet happens to carry the number after the command's last frame. It
  needs a connection that went back to the pool with results unread. Every later call on
  that connection is affected too, as it then reads the answers of its predecessor, so
  `OwnReply` and `WholeResult` claim nothing of a connection on which a command of several
  frames has been written while results may be unread (the history field `long`). An
  earlier form that exempted only the call that wrote such a command held in the run and
  was refuted while its invariant was being looked for;
* an error packet is accepted as the error of the current call even when its number is
  wrong, and a packet of length zero is never checked for its number;
* `errBadConnNoWrite`, which makes `database/sql` repeat the call, is also returned when
  earlier frames of the same command were sent; as the command is then incomplete, the
  server has not run it;
* a `COMMIT` or `ROLLBACK` runs with no context watched.

## Not modelled

* SQL dialects, expression and predicate parsing, the rules of `ValidateSpec` beyond those
  named above, catalog import, the command-line tools, the benchmark, observability and
  the decoding of settings: text processing, I/O or wiring without state of their own.
* Of the wire driver: the conversion of values and parameters, DSN parsing, password
  scrambles and key encryption, compression, `LOAD DATA LOCAL` (whose upload error can
  also be answered with a retry).
* The Ranger client's multi-resource and permissions calls, which the server never makes.
* Trino's client is `database/sql` over HTTP by a library; its checks of a credential
  are those of `Exchanger`.
* Rotation of signing keys, which the key library does in the background, and names
  made of blanks only.
* Grants inside the engine, and a token that expires while a query runs with it: neither is
  state of this code (see the notes in the hazards).
* Identity digests and hashes are represented by what they digest, so collisions are
  excluded. An empty engine-user claim equals an empty engine user in the exchange's
  subject check, and is refused later by the engine client (`Usable`), as in the code.

## Plan

Done: the reconciler, the query path and its abstract specification, the limiter, the
store, governance, the planner, the caller path from start-up to the engine, and the
wire driver. Next, in this order:

1. the proof of the driver's `WholeResult`, on top of `ReplyInv`;
2. the validation rules of `internal/ossie` and the compilation of expressions, as the
   reason a document is in `Valid` and `Compilable`, and the source of the planner's
   assumption that join graphs have no cycle;
3. the composition of `Reconciler` and `ModelStore`: what the operator publishes is
   what the server ends up serving;
4. the catalog import's paging and the adapters' own request decoding.
