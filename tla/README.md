# Formal models of volts

volts is a Go micro-service framework: servers register themselves in a service
registry, routers turn what they discover into proxy routes, and clients look
services up, pick a node and call it over pooled connections.  This directory
holds TLA+ models of the parts where several goroutines, processes or failures
meet, TLC runs that check them on small instances, and TLAPS proofs.

## The system and its parts

| part | state | operations | interacts with |
|---|---|---|---|
| registry cacher (`registry/registry_cacher.go`) | entries and TTLs per service, the list and its TTL, watched names, recorded error, singleflight calls, watch loop | GetService, ListServices, Match, update, run/watch, Stop; Register, Deregister, LocalServices | the registry (calls, events), router, selector |
| registries (`registry/{memory,etcd,consul,mdns}`) | records, leases, watchers | Register, Deregister, GetService, ListServices, Watcher | cacher, server, brokers |
| selector (`selector/`) | a cacher, breaker state per service and node, a round-robin sequence | Select, Match, Mark, Reset, Init, Close | clients |
| clients (`client/`) | options, connection pool | Call with retries, call with a deadline | selector, pool, transport |
| connection pool (`internal/pool`) | idle connections per key | Get, Release, Close | RPC client, transport |
| transports (`transport/`) | sockets, message pool, websocket state | Dial, Listen, Serve, Send, Recv | clients, server, router |
| router (`router/`) | routing tree, handlers, context pools, two discovery goroutines | mount, dispatch, watch, refresh, store, Close | cacher, registry, server |
| server (`server/`) | registered and started flags, subscriptions | Start, tick, Register, Deregister, Stop | router, cacher, broker, transport |
| brokers (`broker/`) | subscribers, inbox, running flag | Start, Publish, Subscribe, Unsubscribe, Close | registry, server |
| reverse proxy, static files, CORS and CSRF (`router/reverse_proxy*.go`, `static.go`, `middleware/`) | cached files; nothing else | pass a request on, open a file, let a request through | router, selector |
| configuration (`config/`) | layers of values, models with their own copies, the file and its watcher | Register, Load, Save, SetValue, Delete, SaveToFile, reload, lint, report | everything |
| logger (`logger/`) | mode, queue, pooled messages, listener | write, Async, Close | everything |
| service facade (`volts.go`) | hooks | Start, Run, Stop | server |

What is hard to get right, and to test, in this code:

* lookups, watch events and TTLs change the same cache entry from different
  goroutines, and lookups release the lock while the registry answers;
* a breaker is four atomics that are read and written one at a time;
* a call's deadline races its answer on a connection that others will reuse;
* a process discovers itself, and what it knows of itself changes while it
  registers, fails to register and deregisters;
* the check that protects local routes and the write it protects are two steps;
* contexts, responses, handler instances and messages are pooled, and what held
  them (a route, a connection, a log line) may be replaced meanwhile;
* a request to etcd or consul that failed may have been applied, leases and checks
  run out, datagrams are lost, doubled and reordered;
* the file of a configuration is edited while it is read and saved;
* the routing tree's shape depends on the order of every earlier change.

`PROJECT.json` lists these hazards at their lines, with the properties that
would notice.

## Modules

### RegistryCacher

The cacher, for any sets of names, versions, nodes, callers and loops.  `cache`,
`ttls`, `watched`, `listCache`, `listTTL`, `running`, `status` and `exit` are the
fields of the same names.  A TTL is `zero`, `live` or `old`; time is the action
`Expire`.  `flight` is the singleflight group, per key.  A caller's program
counter follows `get` and `ListServices`, which have the same shape, one step per
critical section: `Miss` (read lock: copy, TTL, watched), `Kick` (write lock: mark
as watched, start `run`), `Fetch` and `FlightReturns` (sg.Do), `FallBack` (error)
or `ClearStatus` and `Store`.  A hit changes nothing and has no step.  A loop's
program counter follows `run` and `watch`; each watcher has the queue of events it
has not delivered and a helper goroutine that stops it.  `update` is translated
branch by branch; "update" events take the branch of "create", and "override",
which no registry sends, is left out.  Records are sets where the code has
slices: the order of versions and nodes is not used.

The registry is external: the instances registered now, answers evaluated at one
moment, events to the watchers that are open, faults (failed calls, broken
watchers, lost events).  `NotFoundIsError` tells etcd and memory (ErrNotFound when
nothing is registered) from consul (an empty list).  `ever` and `missed` are
history variables for the properties.

### Selector

`Call` with retries over `Select`, `RoundRobin` and `Mark`, with the breaker's loads
and stores as separate steps.  Times are relative so that the state space is
finite: `open` is how long a node stays out, `seen` how long ago it was marked,
`ago` how long ago a Mark in progress read the clock.  A Mark in progress holds a
pointer to its entry; when the entry is deleted (`purge`, `reset`), its later
stores go nowhere (`orphan`).  The nodes of a service are fixed: what the cacher
answers is the subject of RegistryCacher.  User filters only narrow the list.

### RpcCall

`RpcClient.call` with its send/receive goroutine and deadline, `pool.Get` (pop,
probe, dial), `Release` and `Close`, the message pool, and the serving loop of a
connection at the other end.  A connection carries requests, the one in service
and unread answers.  A message is a token: what matters is who may write to it.

### RouterStore

What a process knows of itself and what it does with what it discovers:
`Register` with its early record, rollback and read-back, `Deregister`, and the
goroutines `watch` and `refresh`, both running `store`.  `GetService` hands over any
set of nodes that were registered under the name: that is what
`NoPhantomNodes` proves of the cacher, so the modules compose.  A registration
that returns an error may have taken effect.  `refresh` reads the local records,
then the list, then works through it; the slice it holds is shared with
`Register`, so each comparison may use the old or the current records.  Deregister
filters the records by name; there is one per service at most (part of `TypeOK`, and
proved), so the model removes that one.

### ServerLifecycle

A server from Start to Stop.  `started`, `registered`, `services` and `subscriber`
are the fields of `server.go`; `subscribers` is the router's map, which the server
shares and Deregister empties.  `proc` has a program counter per goroutine: 0 is
the one that calls Start (`Listen`, `BrokerStart`, the steps of Register, `Spawn`),
1, 2, ... are the loops that successful Starts leave behind (`Tick`, Register or
Deregister, and after `ReceiveExit` the steps `CloseListener`, `CloseBroker`,
`Answer`).  `stop` and `asked` are the exit channel and the answers Stop waits for.
Because Stop resets `started` before anything is closed, a Start may overtake it.

The three attempts of a registration are one step that succeeds or fails, and
errors before the first call of the registry are part of the failing steps.  The
router has routes outside named groups, so the service with the server's name is
always among those registered.  The broker is the memory broker (`connected`,
`subs`); closing it forgets no subscription, as in the code.  The registry removes
a node by its id, so the address Deregister remembers is left out.  The goroutine
that accepts connections, merging endpoints, event handling and panics are not
modelled.  `self.wg.Wait()` before the listener is closed has no step: nothing adds to
that group, so it never waits, and Stop does not wait for requests in progress.
`left`, `failed` and `subFailed` are history variables.

### Dispatch

`ServeHTTP` and `ServeRPC` from the match of the route to the pools: `Connect`, the
context from the pool of the route's id, `resetHttp` and `resetRpc`, the handlers
(`GetHandler`, `init`, the functions of the chain with Next, Abort and panics,
`PutHandler`), the response pool with
`Apply` and `Upgrade`, while the discovery goroutines replace the route, drop its
pools and publish handlers step by step.  A pooled object is a member of a finite
set; a new one is one nothing refers to.  What a function of a chain does is chosen
when it runs (`Does`).

### RoutingTree

`tree.go` as functions on nested records: parsing, `addNode` with splits, `delNode`,
the order of children, matching with types and backtracking, `RouteOf`.  The reference
is the set of live routes and what it means for a pattern to match a path.

### RegistryPromise, and the registries that implement it

The abstract specification says what a registry promises the owner of a node: once
confirmed, the node is found by every lookup until the owner leaves or has not
renewed it for a whole time to live.  Its one variable gives per node whether it is
wanted, visible, and how old its confirmation is.

* `EtcdRegistry` (leases, hashes, failed requests that were applied, crashes),
* `MemoryRegistry` (versions, pruning, watchers, one goroutine per event),
* `MdnsRegistry` (a server per node, goodbyes, the listener of watchers)

each define the refinement mapping (`EtcdBackend`, `MemoryBackend`, `MdnsBackend`: `st`
from their own variables) and the property `...Promise`, that they implement it.
RegistryCacher's external registry is weaker (it may also lose events), so what is
shown of the cacher does not depend on the back end.  `ConsulRegistry` does not
implement the promise as stated, because the agent forgets services on its own; its
property is that heartbeats heal.  `ConsulWatch` models the watcher's two handlers and
its bounded channel, `ConsulTags` the encoding of a service as tags, `MdnsLookup` a
query and its answers as datagrams that are lost, doubled and reordered.

### Brokers

`HttpBroker`: Start, Close, Subscribe, Unsubscribe, the tick and the exit loop, with
the broker's lock and the channel over which Close and the loop shake hands.
`HttpPublish`: the inbox with its limit, batches that take other publishers' messages,
queue groups, posts that fail.  `MemoryBroker`: Publish walks a slice whose array
Unsubscribe may share, so arrays are modelled.

### Clients and transports

`HttpCall`: `callTyped` with hooks, retries, backoff, deadline and reports to the
selector.  `Websocket`: one end of a connection (frames, fragments, control frames,
limits, both directions of the closing handshake, several closers) against a peer that
sends any frames.  `MessageCodec`: the wire format with every length check of Decode.

### Gateway

`ReverseProxy`: a chain of gateways, each with both loop guards (the depth header and
the addresses of its own process), selection, HTTP and websocket forwarding, and the
reports to the selector.  `StaticStore`: Open, the watcher, expiry, Stop and SetStatic.
`Guards`: CORS and CSRF as functions of a configuration and a request.

### ConfigStore and ConfigText

`ConfigStore` has the layers override, file and default, the models' own copies, the
lock `applyMu`, and three goroutines: the caller, the application that assigns fields
and saves, and the watcher of the file.  `ConfigText` holds the functions that read a
file: where a value stands (`jsonLeafOffsets`), what Lint and the report say of a key
nobody declared, the distance of two words.

### LogWriter and ServiceFacade

`LogWriter`: writing in place or through the queue, the pool of messages, Async, the
listener and Close.  `ServiceFacade`: Run, its hooks, signals and concurrent Stops.

### Harness modules

`MC...` modules give the instances for TLC.  Three of them compose:

* `MCBackends` runs etcd, consul, memory registry and HTTP broker, whose properties
  are temporal, and `MCPure`;
* `MCComponents` runs the components with safety properties only, which the proofs
  speak of, so that nothing recursive is within its reach;
* `MCPure` gives the inputs of the pure functions as initial states and lets the
  routing tree change; it is one of the components of `MCBackends`.

These parts do not call each other, so a behaviour chooses one of them at its
beginning (`active`) and the others stay as they are: the state spaces add up instead
of multiplying.  Fairness of a part that does not run asks for nothing.  The
properties of these harnesses are conjunctions whose parts are defined, with their
comments, in the components' modules.

## Runs

| run | asks | result |
|---|---|---|
| CacherSafety | can two lookups, shared answers and events mix up services or versions? | holds; the inductive invariant is checked here |
| CacherLive | do served answers converge, calls return and Stop finish, with lost events, failures, a nil watcher and two loops? | holds |
| SelectorSafety | do interleaved Marks and the purge keep the breaker consistent? | holds |
| SelectorLive | with a Reset and an Init at any time: is there always a node to try, and is a recovered node selectable again? | holds |
| RpcPool | are answers, connections and messages kept apart, and do calls return? | holds |
| RouterStore | does a process never proxy to itself nor cover its own routes? | holds, with handlers mounted before discovery starts |
| ServerLife | do Start, ticks and Stops, with failing calls, lost records, a failing check and a new address, keep listener, registration and subscriptions consistent, and does Stop return? | holds; the inductive invariant is checked here |
| Dispatch | two requests and two discoverers on one route: one holder per pooled object, the chain once and in order, no data of another request, no lost result? | holds, but for what the disagreements below name |
| Config | do values come from where they are said to, do defaults stay out of the file, is a reload all or nothing, and does every edit arrive? | holds |
| Backends | do etcd and memory keep the promise, do heartbeats heal etcd and consul, does nobody wait for ever in the memory registry and the HTTP broker, do the routing tree and the pure functions agree with their definitions? | holds |
| Components | mdns (promise and lookups), consul watcher, Publish of both brokers, websocket, logger, HTTP client, reverse proxy, static files, facade | holds |
| ServerResubscribe | are the subscribers of a registered server subscribed? | violated |

The invariants `TypeOK`, `OneRecordPerVersion`, `OneRegistrar`, `ListenerOwned` and `Subscribed`
are conjuncts or consequences of `SafetyInv` and `ServerInv`, so the runs check those two
only.  The inductive invariants of the other proofs (`RpcInv`, `SelectorInv`, `RouterInv`,
`EtcdInv`, `ConfigInv`, `DispatchInv`, and those of the parts of `ComponentProofs`, which
stand at the end of the components' modules) contain the properties that the runs check;
TLC confirms them on the constants of those runs when they are added as invariants.

Each property has a mutated definition in `PROJECT.json` that breaks it.  The modules
hold further ones for the parts of a composed property, each of which breaks it too:
`LessByLevel` and `delNodeAll` (the tree finds the wrong route or keeps one),
`SetStatusOr` (flags of a message), `OfKindAnyForm` (tags), `isPreflightMethod` (CORS),
`scanTokenInside` and `isReportableBelow` (configuration text), `WriteCloseUnchecked`
(two close frames), and others, which say "As if".

### Disagreements between the code and its comments or tests

One has a run of its own; the others are reproduced as the third column says.

| what | property | how |
|---|---|---|
| a service that is gone is served from the copy for ever, as ErrNotFound counts as an outage | `GoneIsNotFound` | `MCRegistryCacher` with `CacherLive.cfg`, but `Loops = {l1}`, `NotFoundIsError = TRUE`, `NilWatcher = FALSE`, `Asked = {n1}`, `Stoppable = FALSE`, `MaxChanges = 2`, as a property |
| an answer older than an event is stored in the list with a full TTL | `ListSeesEvents` | the same with `Asked = {n1, ListKey}`, `Spec`, as an invariant |
| one failed probe does not open the breaker again | `ProbeReTrips` | `MCSelector` with `SelectorSafety.cfg`, but `Clients = {c1}`, `MaxOutages = 2`, without symmetry, as a property |
| a handler mounted while `store` runs is covered by a proxy route | `LocalRouteKept` | `MCRouterStore` with `RouterStore.cfg`, but `LateMount = TRUE`, `MaxRegisters = 1` |
| after a failed check the router's subscribers stay unsubscribed | `Resubscribed` | run ServerResubscribe |
| an mdns watcher hears nothing | `MdnsWatchHears` | `MdnsRegistry`, `MdnsWatchSpec`, `Nodes = {"a"}`, `MaxFaults = 1`, without deadlock check |
| a reload leaves `${VAR}` unexpanded in the models | `ModelsResolved` | `MCConfig` with `Config.cfg`, as an invariant |
| a Load that overlaps an Unregister locks itself out | `LockReleased` | `MCConfig` with `Config.cfg`, `Overlap = TRUE`, as a property |
| lines sent after Close's drain are lost silently | `ClosedIsWritten` | `LogWriter`, `LogSpec`, constants of `Components.cfg` |
| a pooled HTTP context keeps the context.Context of the last request | `HttpOwnContext` | `MCDispatch` with `Dispatch.cfg` |
| an instance whose init panicked runs the global middlewares twice | `MiddlewareOnce` | `MCDispatch` with `Dispatch.cfg` |
| matching "/" against "/{x}" below a node without handler panics | `MatchReturns` | `RoutingTree`, constants of `Backends.cfg` |
| a client that leaves counts as a failure of the node | `OnlyNodeFaults` | `ReverseProxy`, constants of `Components.cfg` |
| a websocket loses the prefix the PathRewriter took off | `PathAlwaysKept` | `ReverseProxy`, constants of `Components.cfg` |

What holds besides is checked: `OwnData` leaves out the context.Context of HTTP requests,
`ChainRuns` the instances whose init panicked or is not finished, `PathKept` websockets;
`LinesAccounted` accounts for a line that Close leaves behind as waiting.

### Bounds

* CacherSafety: two names, one version, two nodes, two callers, one loop and two
  changes: enough for two keys in flight at once, a merged lookup, and an event
  between an answer and its store.  Names, versions, nodes and callers are
  interchangeable (symmetry).  More versions, loops and faults are covered by the
  proofs.
* CacherLive: one name, one node, one caller, two loops, one change and one fault,
  Stop at any time.  Two loops are what the unsynchronised `running` allows.
* SelectorSafety: two clients with one retry on two nodes, threshold 2, cooldown
  1 doubled up to 2, three trips and one outage.  SelectorLive: one node that
  goes down and comes back, one Reset and one Init or Close.
* RpcPool: two goroutines with two calls each, two connections, a pool of one and
  one fault, one pool.Close: a reused connection, a full pool, a deadline at every
  point of a call.  A goroutine whose last call left its helper behind starts a
  new one only when that has ended.
* RouterStore: two servers sharing a node, one service that another process
  offers too, one node that clashes with our address, two registrations per
  server and one outside change.
* ServerLife: one group, one subscriber, two addresses, two goroutines that call
  Stop, two Starts, two faults, one move and one time the check fails: a Start
  that overtakes a Stop, two Stops at once, a registration that fails half-way, a
  renewal after a lost record.  More of each is covered by the proofs.
* Dispatch: two requests, two of each pooled object, two discoverers and two routes,
  one init that panics; a chain of a global, a route and two controller middlewares
  (one filtered) before the handler.  Two is enough for an object to have two holders
  and for a route to be replaced under a request; requests and objects are symmetric.
* Config: one model of two fields whose validity depends on both, two edits (each also
  half-written), three calls.
* Backends: etcd with one node, two contents of node and endpoints, three leases (the
  held one, the one being granted, one left by a former life) and three faults;
  consul with three contents and three faults; memory with three nodes in two versions,
  one watcher and two events at once; the broker with two callers of Start, Close and
  Subscribe; the patterns and paths of `MCBackends` in every order of adding and
  deleting; all inputs of `MCPure`.  Nodes of etcd share nothing, so one shows what
  several would; that etcd and memory keep the promise is proved for any numbers.
* Components: two mdns nodes with two faults; a consul catalog of two nodes and two
  versions with three changes and a channel of two; an inbox of two with batches of
  one, two publishers, a queue group and a broadcast; three subscribers and three
  changes of an array; three frames of the peer, a read limit of three and control
  payloads up to four; two goroutines logging one line each into a queue of one with
  two calls of Async; zero to three retries; two gateways, a depth limit of two and
  chains up to four; two files, one embedded, two openers and three writes.  All but
  the messages and pings of the websocket is also proved for any of these numbers.

Counters bound the environment only (changes, faults, calls, outages); behaviours
end when they are used up, which is why these runs do not check deadlock.  The
selector's runs do: time always passes.

### Fairness

Goroutines that can run do (weak fairness per goroutine), the registry answers or
fails every call, every TTL and every deadline passes.  Nothing makes anyone call,
the registry change, a peer answer or the program stop.  The cacher's
`StopReturns` step is strongly fair: a WaitGroup releases its waiters when its counter reaches zero, even if
later calls start new goroutines.  In RpcCall a closed connection is gone some
time, so that dialling never waits for one (the number of connections is a bound
of the model, not of the code).  In ServerLifecycle the ticker ticks (its interval
is 30 s by default) and taking a value from the exit channel is strongly fair: a
Go select picks one of its ready cases at random.

In Backends the steps of a call go on, an owner that wants its node registers it again
and again (the server's ticker), leases and checks run out in time; sending goroutines
of the memory registry go on; in the broker an exit loop gets the lock some time
(strongly fair: sync.RWMutex does not starve a writer).  In Config an edit that has
begun is finished, the watcher and the reloads it starts go on, and a goroutine that
waits for `applyMu` gets it some time (sync.Mutex is starvation free).  Dispatch and
Components are checked for safety only.

## Proofs

`RegistryCacherProofs` proves for all values of the constants:

* `TypeCorrect`: `Spec => []TypeOK`;
* `SafetyInvariant`: `Spec => []SafetyInv`;
* `NoPhantomNodes`: `Spec => []NoPhantom`;
* `VersionsStayMerged`: `Spec => []OneRecordPerVersion`.

The assumptions are those of the module: the sentinels differ from each other and
from every set of records, and the bounds are numbers.

`NoPhantom` speaks of what is cached and handed out and is not inductive: an
answer in flight or a queued event could be anything.  `SafetyInv` adds that the
answers in flight, those at hand and the queued events are genuine (of the key
they belong to, naming nodes that registered at some time), that what is
registered now is part of `ever`, and that every set of records on its way into
the cache has one record per version.  The proof has one step per action.
Genuineness survives because `ever` only grows; distinctness survives because
`update` replaces the record of a version where it adds one.  Lemmas state what
`Lookup` and `update` return.

`ServerLifecycleProofs` proves, from `ServerAssumption` (bounds are numbers, the
server's name is neither a group nor a topic, `NoAddr` is no address):

* `TypeCorrect`: `Spec => []TypeOK`, which includes that no topic is subscribed twice;
* `ServerInvariant`: `Spec => []ServerInv`;
* `RegistrarIsAlone`: `Spec => []OneRegistrar`;
* `ListenerIsOwned`: `Spec => []ListenerOwned`;
* `RegisteredIsSubscribed`: `Spec => []Subscribed`;
* `StoppedLeaves`: `Spec => []StoppedIsGone`.

None of the last four is inductive.  `OwnerInv` says that the open listener has
one owner, so that at most one goroutine is in Register or Deregister.  On that
rests `SubsInv`: what is subscribed, what Register has yet to subscribe, and that
an unregistered server has no subscription, which bounds them by one per topic.
`GoneInv` says that, as long as no call failed, a record belongs to a registered
server and a registered server has a goroutine that will deregister it before the
listener is closed.

`RpcCallProofs` proves, from `SizeAssumption` (bounds are numbers, the sentinels are
no members of their sets):

* `RpcInvariant`: `Spec => []RpcInv`, and from it `TypeCorrect`;
* `AnswersAreOwn`: `Spec => []NoCrossTalk`;
* `NoConnectionLeaks`: `Spec => []NoConnLeak`;
* `ConnectionsAreExclusive`: `Spec => [](OneUserPerConn /\ IdleIsClean)`;
* `MessagesNotShared`: `Spec => []MessageNotShared`.

That no call gets another's answer rests on ownership.  `CallInv` and `HelperInv` say
which connection a call and its helper have, and what may be under way on it at each
program point: nothing before the request is sent, the call's own request or answer
after it.  `PoolInv` says that idle connections are open and clean and that the pool
holds each once.  A call whose deadline comes first closes its connection, so that
what still arrives there never reaches the pool: this is where a late answer could
otherwise go to the next call.  `MsgInv` is the same argument for messages.

`SelectorProofs` proves, from `ProvidersAssumption` (there is a service, each has
nodes), `ConfigAssumption` and `OnlyAssumption`:

* `SelectorInvariant`: `Spec => []SelectorInv`, and from it `TypeCorrect`;
* `OpenStaysFresh`, `TripsAreNotLost`, `AlwaysANode`: `OpenIsFresh`, `TripNotLost` and
  `SomeNodeToTry` always hold;
* `PurgeIsHarmless`: `Spec => PurgeKeepsOpen`, an action property.

`MarkInv` is what is missing for induction: the entry of a Mark in progress still is in
the map, or the Mark's stores go nowhere, and its `seen` is not older than the moment
this Mark read the clock.  With it a late store of `openUntil` stays within the cap.
`OnlyAssumption` says that a sequence of nodes from which some are left out is a
sequence of nodes.  This is a fact about SelectSeq whose proof is an induction over the
sequence, which the prover cannot do; TLC evaluates it for the constants of every run.

`RouterStoreProofs` proves, from `TopologyAssumption` (in which the marks `none` and
`local` of the tree are no names of services):

* `RouterInvariant`: `Spec => []RouterInv`, and from it `TypeCorrect`, which includes
  that no service has two local records;
* `IdentityStaysOurs`, `KnownBeforeVisible`, `NeverSelfProxied`: `IdentityIsOurs`,
  `KnownWhenVisible` and `NoSelfProxy` always hold;
* `LocalRoutesAreKept`: `~LateMount => (Spec => LocalRouteKept)`.  With `LateMount` TLC
  shows that it fails, see the disagreements.

`LocalInv` says that every local record, also one that a failed Register will restore,
is of a server of this process with its own node; `StoreInv` says what a goroutine in
`store` has found out and still holds when it adds a route: the service is offered
elsewhere, and the path was not local.  `ever` only grows, so the former is stable.

`ConfigStoreProofs` proves, from `ConfigConstants`:

* `ConfigInvariant`: `ConfigSpec => []ConfigInv`;
* `OriginsAreTruthful`, `DefaultsStayInCode`: `OriginTruthful` and
  `FileHoldsNoDefaults` always hold;
* `ReloadsAreSound`: `ConfigSpec => ReloadSound`, an action property.

`FileHoldsNoDefaults` needs `SavingInv`: whenever the caller saves defaults the flag is
up that keeps them out of the override keys; and `AskedInv`: whatever is in the
accounts or in the file layer was asked for.

`DispatchProofs` proves, from `DispatchAssumption` (sentinels are no members of their
sets, what a client is told is no request, bounds are numbers) and
`MiddlewareAssumption`:

* `DispatchInvariant`: `Spec => []DispatchInv`, and from it `DispatchTypeCorrect`;
* `PooledOnce`, `NoForeignData`, `ResultSent`, `ChainInOrder`: `OneHolder`, `OwnData`,
  `ResultNotLost` and `ChainRuns` always hold.

`Held` says what a request has at each program point: its response while it is served,
its context between Get and Put, its instance while a handler is invoked; and that the
response is connected to it.  `WsInv` says that a websocket goroutine shares context and
response only with the request whose context is marked hijacked, which is why the end of
ServeHTTP may put back what is not marked.  From ownership follows that nobody else
writes what a request reads, so that `Data` can say what is in its context: nothing but
its own result, and no answer given as long as it has only set that.  `Runs` says that
the functions run so far are the front of the chain and that the loop is at the next one,
behind the end, or the request is done; it needs `InstInv`, that an instance which was
cloned complete and initialised without a panic has the chain of the route, wherever it
was used before, and waits on the stack at position 0.  `ModelInv` says that a route with
a handler has a model to clone.  A step of one request leaves what another one holds
alone (`Aside`), so that each action is proved for the request that takes it and one
lemma (`Frame`) covers all others.  `MiddlewareAssumption` says that the middlewares
which fit a transport, and those a controller does not filter, are sequences of
functions: a fact about SelectSeq like `OnlyAssumption`, evaluated by TLC.

`ComponentProofs` has a part for each component of `MCComponents` and `MCBackends`.  A
step of a harness is a step of one component or leaves its variables alone (`...Moves`),
so each part is an induction over the steps of its component; the invariants, named
`...Inv`, stand in the components' modules.  `MCBackends` reaches recursive operators
through `MCPure`, so its components are instantiated in `ComponentProofs` itself, under
the same substitutions, and the safety parts of its properties are proved of them.

Registries:

* `EtcdInvariant`: `EtcdSpec => []EtcdInv`, and `EtcdKeepsPromise`: `EtcdSpec =>
  EtcdPromise`, that the etcd registry implements `RegistryPromise` under the mapping of
  `EtcdBackend`, without any assumption on the constants.  `KeysInv` binds keys to live
  leases, `CallsInv` says what a call under way relies on (its owner has not left; between
  the decision to write and the Put the node is not confirmed), and `ConfirmedInv` says
  that a node which counts as registered has the key that its own lease keeps.  They
  speak of one node each, so the proof has a lemma per action for the node it is about
  and one lemma for all the others.  In the refinement every step moves each node by a
  step that the promise allows, or leaves it: a call moves its own node, a lease that
  runs out every node whose key it kept.
* `MemoryKeepsPromise`: `MemorySpec => MemoryPromise`.  `MemoryInv`: the version of a node
  with a record is known; Deregister and pruning drop a version only with its last node.
* `MdnsKeepsPromise`: `Spec => MdnsPromise`, from `MdnsAssumption` (no node is called like
  the wildcard or the mark for none).  `Answered` says for a node what its entry, its
  server and the call under way have to do with each other: an entry that is wanted has a
  server that answers, and Deregister stops only servers of nodes that have left.
* `ConsulIsCurrent`: `ConsulSpec => []ConsulCurrent`; contents only move on and no hash runs
  ahead of them.
* `ViewsAreExact`: `Spec => []ViewsExact`, from `WatchAssumption` (0 is no version) and
  `StaticAssumption` (there are files).  For the consul watcher `Following` compares what
  the reader will have once it has read everything (`WillHave`, computed from its view and
  the events in the channel) with what the handlers have sent so far (`Sent`): version by
  version that is the last answer, the new one, or between the two events of a version
  what both have.  Each send and each read keeps the two equal.  `LookupInv` ties every
  entry of an mdns query, and every answer on its way, to a node that was up during this
  query.  `StaticInv` adds to the freshness of files that nothing is opened before the
  directory is watched.

Brokers:

* `SubscribersAreServed`: `Spec => []SubscribersServed`, from `PublishAssumption` (the size
  of a batch is a number).  `PublishInv`: a batch is there only while it is posted, so that
  taking the next one overwrites no message.  `MemBrokerInv`: a publisher's slice is never
  longer than the broker's in the same array, and the broker writes behind its own slice
  only, so what the publisher walks is what it found.
* `LoopKeepsListener`: `BrokerSpec => []LoopOwnsListener`.  `BrokerInv`: one loop at a time is
  to close the listener, the running one or the one Close has reached.

Clients, gateway, transport, and the rest:

* `OutcomesAreReported`: `Spec => []OutcomesReported`, from `OutcomeAssumption` (numbers).
  `HttpInv` bounds the requests made by the attempts finished, or about to be while the
  client pauses; `ProxyInv`: the depth counts at least the gateways behind, only the last
  handler of a chain has not passed its request on, and a handler has connections and
  reports just as its program point says.
* `ConnectionClosesOnce`: `Spec => [](Socket!CloseSaid /\ Socket!WithinLimit)`, from
  `SocketAssumption` (limits are numbers).  `CloseOwned`: who marks the close as said owns it
  until the frame is written, refused or lost, so there is one owner at most and none
  once there is a frame; a buffered fragment is always within the limit.  This is the
  part of `ConnectionKept` that needs no induction over data.
* `LinesAreAccounted`: `Spec => []LinesAccounted`, from `LogAssumption`.  `OnePlace`: an object
  is free, in the queue or in one goroutine's hands; `TextsKept`: it keeps its line's text
  until it is written; `Accounted` counts each line once.
* `StopsAreTotal`: `Spec => []StopIsTotal`, from `FacadeAssumption`.  `FacadeInv`: every Stop
  has made just the beginning of its order that its phase says, and the server is up
  only between its start and the first stop.

Only model-checked: liveness (CacheConverges, CallsReturn, StopCompletes,
RecoveredIsSelectable, AddressCorrected, StopReturns, EditReaches, EtcdHeals, ConsulHeals,
SendsFinish, CloseReturns), which is beyond the prover.  Of the websocket, that messages
are put together again in order and that pings are answered in order (`Reassembled` but for
its limit, `HandshakeKept` but for the close): these compare sequences that are filtered and
flattened, which takes induction over data.  RoutingTree, ConfigText, ConsulTags and
MessageCodec compute with recursive definitions over data, about which the prover has no
induction; `TreeRight` and `FunctionsRight` stay with TLC, `Guards` among them.

## Not modelled

* OpenAPI documents: a function of the routes by reflection, no state.
* The HTTP transport and the codecs: adapters of net/http and of encoding libraries.
* Errors, utilities, command and demos: helpers without a protocol, or examples.
* The RPC stream: nothing creates one.
* Rendering, cookies, files and parameters of a context; formatting and levels of the
  logger; wire format and sockets of mdns; TLS and ACME: pure I/O or third-party code.
* `Match` of the cacher with its endpointMap and of the selector: the map is only
  added to, so there is no interleaving to find.
* The address that a client writes into a shared record: a data race in which every
  writer writes the same value; the models copy records.
* An etcd request that is applied after its caller has given up; consul connect and TCP
  checks; regular expressions and hosts in patterns.

Behaviours the models have and no property forbids, because the repository promises
nothing about them: services registered for named groups stay in the registry after
Stop until their TTL ends (Deregister removes only the service with the server's
name); a Start that overtakes a Stop may have its broker closed by the old loop; the
hash of an etcd node leaves out the endpoints, so that a change of endpoints alone is
not written before the lease is lost; a full inbox keeps its oldest messages; a file
that changes between being read and being cached is stale for a TTL.
