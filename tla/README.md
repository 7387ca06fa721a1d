# A verification project for obmc-webapp

TLA+ models of the OpenBMC web application, checked with TLC on small instances;
their safety properties (section 4) are also proved with TLAPS for every size.
All paths are relative to the repository root (`src/` here is that root, so the
C++ files are under `src/src/`).

## 1. The system

The program is a FastCGI back end that answers GraphQL queries about a server
from a cache of D-Bus objects.

| Part | State | Operations | Meets |
|---|---|---|---|
| Broker pool (`core/broker/*`) | flag `active`, threads, per broker a mutex, a timeout and the last execution time | `start`, `terminate`, `doCaptureDbus`, `doManageringObjects`, `tryProcess`, `isTimeout` | queries, entities, SIGINT, `main` |
| Queries and instances (`core/entity/dbus_query.*`) | per instance: members, children from associations, matches | `process`, `createInstance`, `queryProperties`, `fillMembers`, `bindListeners`, observers, `captureDBusAssociations` | the bus; called by the pool and by its own signal callbacks |
| Entities (`core/entity/entity.*`) | map of instances, members, relations, providers | `setInstances`, `getInstances`, `supplementInstance`, builders | written by the pool, read by requests |
| Computed fields (`status_provider.hpp`, `system_queries.hpp`, `version_provider.hpp`, `relation_provider.hpp`) | static tables; the results live in the shared instances | `linkStatus`, `linkVersions`, `getHigherStatus`, formatters | run by every `getInstances` |
| GraphQL (`core/route/handlers/graphql_handler.*`) | a stack of builders with JSON fragments | visits, `supplement`, `getFragment` | entities, several times per request |
| Requests (`core/connection.*`, `router.*`, `request.*`, `response.*`, `routes.cpp`) | per connection a request, a router, a response | `inHandler`, `inProcessor`, `response`, `preHandler`, `process` | FastCGI threads |
| Sessions (`service/*`) | shared session map, configuration read from a file of another process | `readData`, `loginSessionByToken`, `applySessionTimeouts`, `authenticate` | every request |
| Connections, helpers, tables | - | `connect`, `base64Decode`, header tables, logging | - |

The hard behaviour is concurrency without much locking. Five workers walk one
list of brokers; the only locks are a mutex per broker and an atomic flag.
Request threads read entities, and *write* computed fields into the shared
instances, with no lock at all. A refresh is a row of bus calls, and objects
change, appear and vanish between them. Nothing in a worker catches an
exception, so any failed call ends the process. `PROJECT.json` lists the
hazards one by one with their lines.

What makes the parts correct:

- pool: the refreshes of one broker are serial, begin only when due, publish
  once and stamp; a single shot runs once; a due broker is served; shutdown
  comes back and leaves nothing running;
- cache: what is served is bound to signals; a served value is behind the bus
  only by queued signals or by a change that fell into a known gap; it never
  goes backwards; a periodic entity converges;
- computed status: the answer is what the associations said during the
  request, nothing of an earlier one; OK only where nothing was found;
- computed versions: the server shows a version that an image of the right
  purpose has shown;
- registry: no two brokers fill one entity, what is filled can be found and what
  is written can be asked for, the program's own configuration does not throw;
- sessions: a request gets a session only for a token it carries itself, in a
  channel that is on; a session the file no longer has fades out; every request
  ends;
- requests: one answer, status before content, nothing to the unauthorized but
  the refusal; the parser is used by one thread; no request waits for ever;
- GraphQL: while the instances stay, the answer is the evaluation of the query,
  with an error exactly for what is invalid; otherwise it is still well formed.

## 2. What is modelled

### BrokerPool
`broker.hpp`, `dbus_broker.{hpp,cpp}`, and start and stop in `application.cpp`
and `main.cpp`. Each thread has a program counter `pc`; a worker also has its
position `cur` in the list. One action per step that another thread can
observe: `Scan` is the unlocked test, `TryLock`, `Recheck`, `Query`, `Bind`,
`Publish`, `setExecutionTime` and `Unlock` are `tryProcess` in order.
`ConnectFail`, `QueryFail`, `BindFail` and `ListenerThrows` (a formatter, in
`process_discard`) are the throws that abort the process.
The main thread starts the pool, takes SIGINT (`Interrupt`, `Joined`), aborts on
a second one (`InterruptAgain`) and returns (`Return`). `Tick` is time;
`SetClock` sets the wall clock, which `isTimeout` reads. `uptime`,
`stampedAt` and `published` are history.

The unlocked read of `lastExecutionTime` is a data race: it is modelled as the
old or the new value, because the half of the 64-bit number that could be torn
does not change before 2106.

### RefreshSchedule
What the pool promises, without threads, list or mutex: per broker
idle, refreshing, published and idle again. `BrokerPool!Schedule` maps to it:
the phase of a broker is read off the thread that holds its mutex.

### EntityCache
One watched entity. A refresh is `GetSubTree`, one `GetAll` per object,
`QueryDone`, one `BindListeners` per object, `ClearInstances`, one
`InsertInstance` per object, `Stamp`; that there is only one at a time is what
`BrokerPool!MutexMatchesProgress` says. `Dispatch` is `process_discard` on the
connection of the worker that made the live generation, which a worker inside
`tryProcess` does not reach. `Change`, `Appear` and `Disappear` are the bus. Two
generations are alive during a refresh (`live`, `draft`). Whether the broker has
a timeout is chosen at the start (`periodic`). An instance holds one
property; properties of an object are independent of each other. Old
generations are unreachable after `ClearInstances` (their callbacks keep them
alive, and keep filling them, with no effect on what is served).

The bus and sd-bus are external: a connection queues the signals sent after its
AddMatch, in order, and sd-bus gives a match nothing it read before the reply.

### StatusLink
`supplement("Status")` of a GraphQL request: `Begin`, then for each sensor
`initDefaultFieldsValue` (with `supplement` when the member is new), for every
provider `initOwnDefault` (with `supplementOwn`), which gives the provider's own
instance its default, and `Collect`, then `Link` and `Store` for every child,
and finally `Read`. Nothing catches what a supplement throws (`Throw`): a status
that `getHigherStatus` does not know, or a member that another thread added
between the test and the addition. That two threads write the map of members at
once is a data race; of its outcomes this throw is modelled. The pool's side is
`ClearAssociations`, `InsertAssociation`, `CallbackDone`. Copying the children
while they are changed is undefined behaviour: the copy sees the map between two
changes, or the process faults (`CollectFault`).

### SessionStore
`Router::process` and `Authorization::authenticate` of one request per thread,
with the static `ConfigFile` and the `SessionStore` behind them. `Begin` takes a
request; `getConfig` is the initialisation of the static, which one thread does
while the others wait and which throws when the file has no UUID; the steps of
`readData` apply the authentication methods, insert sessions and set the
timeout; then, channel by channel (`X-Auth-Token`, cookie, `Authorization`),
`TryChannel`, the two halves of `applySessionTimeouts` (the stamp, then the
sweep) and the look-up that refreshes the idle time. Each access to the map is a
step. `Fault` is a concurrent change of the `unordered_map`. `Write` is bmcweb
writing the file; `Tick` is the steady clock. A session is its token; the CSRF
test is a bit of the request. `applySessionTimeouts` reads the clock, compares
and stamps in one step; the delay a thread may have between them is not
modelled.

### RequestLife and Exchange
`Connection::inHandler`, `inProcessor` and `response`, with the `Router`, the
`GraphqlRouter` and the `Response` they make. One program counter per
connection; a step is a part of a method up to the next point where another
thread or an exception may come in: validation, `preHandler`, `Lock`, parse and
unlock around the GraphQL parser, `authenticate`, the choice of the route, the
run, header and body. Where each exception ends up is modelled: one that `run`
catches becomes an answer, one that leaves a method of `Connection` ends
the process (`Abort`), and the mutex of the parser is given back on either way
(`Leave`). What `authenticate`
and the visitor return is a field of the request; how they get there are
SessionStore and GraphqlBuild. `Exchange` is what a web server may rely on,
without lock or methods: open, status, rest, or fail.
`RequestLife!ImplementsExchange` maps to it.

### GraphqlBuild
`GraphqlRouter::run` and `GqlQueryVisitor` with the builders. A query is a
sequence of operations, an operation a tree of fields with aliases (a field
holds its selection set). `path` is where the depth-first visitor is in that
tree, `stack` its builders; each `Visit` is one call of the visitor: it makes a
builder, supplements a field or hands a fragment to the builder below. `Refresh`
clears the instances of an entity and inserts the new ones, one step each,
between any two visits. Whenever the visitor, or its destructor, asks an entity
for its instances (`Asks`), the copy of a map that changes may fault
(`CopyFault`), and a default or a link rule of an entity that has any may throw
(`SupplementThrows`; StatusLink and VersionLink say when), which nothing
catches. `Evaluate` is the reference: the recursive meaning of a query over
instances that stay; `Known` says for which entities the names of a selection
set are known. Both are recursive functions on the selection sets of the
queries, `DOMAIN Depth`, which `SyntaxAssumption` takes to be well founded.

### EntityRegistry, SystemQueries and EntityMap
EntityRegistry has one action per call of `EntityManager`, `EntityBuilder` and
`DBusQueryBuilder`: build, `addMembers`, `addRelations`,
`linkSupplementProvider` and `addObject`; an exception ends `configuring`,
`initBrokers` completes it. Objects are indices, so that a name that is taken a
second time can be told from the first. SystemQueries holds the seven queries of
`system_queries.hpp`, those of the providers included, as data: dictionary,
criteria, defaults, static fields, link rule, formatters. EntityMap runs the
calls of `initEntityMap` on the actions of EntityRegistry with this data. So
that the tests in the registry matter, it also runs every script that is one
slip away (`Slips`): a call left out or made twice, a name exchanged, a relation
added.

### InstanceFields
One D-Bus object of one query: `Read` is a `GetAll` for one interface (or its
failure), `Complete` is `supplementByStaticFields`, `Signal` is the property
listener, `Show` is `getInstances`. A value is a text, a number or a list; a
list makes a child in `complexInstances` under the hash of its parent, as
`getHash` does. Associations, which only the Status query has, are in
StatusLink. EntityCache shows when a value is fresh, this module which value
ends up in which member. Its specification is `FieldsSpec`, so that
`SystemQueriesProofs` can extend this module and EntityMap, which share the data
of SystemQueries.

### VersionLink
`linkVersions` of the Server entity: `Start` is the beginning of `getInstances`,
`ReadPurpose` and `WriteVersion` are one pass of its loop for one image,
`supplement` adds a member that `WriteVersion` found missing, `Serve` is the
answer. Test and addition are two steps: when another request has added the
member in between, `supplementThrows` ends the process, as `linkVersions`
catches `bad_variant_access` only. Both properties are about answers.
`PublishVersions` and `PublishServer` are the brokers, `Signal` an update of an
image.

## 3. Runs

| Run | Instance | Shows |
|---|---|---|
| `broker_pool` | 3 workers (symmetric), 1 observer, a single shot and a period of 1 s, 4 s of time | safety and the refinement |
| `broker_pool_live` | 2 workers, 1 observer, 2 s, one setting of the clock forwards or back | `DueIsRefreshed`, `TerminateReturns` |
| `entity_cache` | 2 objects, 2 workers, 4 versions, 1 failed GetAll, periodic | safety of a watched entity |
| `entity_cache_live` | 2 objects, 2 workers, 3 versions, periodic or not | `Converges`, `SettlesUnlessMissed` |
| `status_link` | 1 request thread, 2 sensors, 2 providers, 3 updates | the computed status |
| `status_link_two` | 2 request threads, 1 sensor | *violated*: `OkOnlyIfNoneFound` |
| `session_store` | 2 threads, 2 tokens, 3 files, 2 requests, 2 ticks of the clock, 1 write | who gets a session, how long, what a bad file does, `RequestEnds` |
| `request_life` | 2 connections, 20 kinds of request | parser, answers, `Completes` |
| `graphql_build` | 1 request, 9 queries, 2 entities, one with link rules, 2 refreshes | the builders against `Evaluate` |
| `entity_map` | the program and every program one slip away | `StartsUp` and `WrittenIsDeclared` of this one, the registry's promises for all |
| `instance_fields` | 1 object of each of 6 queries, 2 texts, a number, a list | which value ends up in which field |
| `version_link` | 2 request threads (symmetric), 4 images, 1 signal | what the version fields may show |

The bounds: the races of the pool are between two workers on one broker, a third
one adds the try-lock lost by a worker that was neither first nor second; two
brokers give every worker somewhere else to be; with 4 s a period of 1 s is
refreshed twice after the first time. Four versions let one object change once
in each of GetAll-to-match, match-to-publication and after. The updates of
StatusLink include an empty list, two sensors, two associations for one
sensor and an unknown status.

In SessionStore a tick is a second and the timeout is one of them, so that a
session can be idle for less than, exactly and more than its timeout plus the
second between two sweeps; the clock does not start at 0, because
`lastTimeoutUpdate` does. The files are: sessions without a UUID, a damaged
session with a UUID and a method switched off, unreadable. The first two are
what a failing and a revoking file do; the requests fail by length, by the CSRF
token, by a disabled method and by the Basic scheme, or get in. With two
connections one can wait for the parser while the other holds it or loses it by
an exception; the kinds are all pairs of a content type with no body, a body
that is no object and a query, and every other way a query or a form may end.
The queries of GraphqlBuild have every shape once: flat, nested in itself, an
alias that collides with a member, two operations, an unknown entity, an unknown
member, a scalar at the root, a mutation, variables, an entity without link
rules; refreshes shrink, empty and grow an entity. Threads that evaluate queries
only read the entities there, so one request meets every interleaving with
refreshes. InstanceFields uses "23" and "Volts", of which each is in the table
of one formatter and foreign to the other. The four images of VersionLink are
two of the BMC, one of the host and one of neither.

Deadlock is checked in every run. A process that is gone (`Gone`, and `Quiet` of
the registry) and a single shot that has run (`Rest`) may stutter.

Fairness. In BrokerPool every thread that can step does so (the operating system
runs it; sd-bus calls end after 25 s at most, `wait` after 5 s) and `main`
starts and joins; a signal, a failure and the clock are never forced. In
EntityCache a due refresh begins and goes on, which BrokerPool shows, and a
signal that can be dispatched again and again is dispatched: between two
refreshes a worker passes `process_discard`, and a queue is served in order.
Nothing forces the bus. In SessionStore and RequestLife a thread that can step
does so; a thread that waits for the initialisation of the static (`getConfig`)
or for the parser's mutex (`Lock`) gets it in the end, if it is free again and
again (strong fairness: the C++ runtime and the mutex wake their waiters, and
the sections are short). A write of the file, the clock and an abort are never
forced.

### Findings
- `status_link_two`: two request threads reset and raise one shared Status
  member; OK is served although an association is there all the time. With one
  request thread the property holds.

Not findings, but worth knowing:

- The period of a broker is measured with the wall clock: when that is set
  forwards the next refresh follows at once. `RefreshInterval` is checked, and
  proved, for a clock that is never set.
- A single-shot entity never learns of objects that appear or vanish later (the
  observers only log), and a change between GetAll and AddMatch stays unseen
  until the next one.
- Of two associations of one provider for one sensor the later wins, not the
  more severe; of two images with one purpose the last in the order of hashes.
- `RevokedFadesOut` is about sessions that the file no longer has. One that it
  keeps is inserted again by the request after the one that found it idle. And
  the sweep is stamped before it is made: a second thread that skips it may look
  a session up that the first is about to erase, which is the second disjunct
  of the property (it fails without it).
- An instance that appears after a GraphQL builder was made gets the item
  `null`, and its first field turns that into an array (`Push`);
  `AnswerIsEvaluation` is about requests that no refresh disturbs.
- `addRelation` tests its pointer the wrong way round and keeps no relation. No
  configuration adds one yet.
- `Status` of Server, Chassis and Baseboard has no source, so it is always
  "N/A", although the sample response of the tests shows other values.
- What a default or a link rule throws ends the process: an association with an
  unknown status does, in any request for a sensor; so does a member that two
  requests add at once, which needs several threads and a member that is still
  missing (`SettledStays`).
- The children made from a list have the hash of their parent, so a list leaves
  one child, which the parent replaces in every answer: `Endpoint` of Relations
  is always "N/A".
- A formatter that meets a value that is no string throws, and the process ends.
- A cookie refused for its missing CSRF token has refreshed the session's idle
  time all the same.

## 4. Proofs

Every safety property that a passing run checks is proved for every value of the
constants, under the hypotheses the table names (`StatusLink`'s answers with one
request thread, as the run has it). Each `...Proofs` module has an inductive
invariant `IInv`, which TLC has checked on the instance of the run, a lemma for
each action or group of actions that it survives (`NextIInv` combines them), and
the theorems.

| Theorem | States | For all |
|---|---|---|
| `BrokerPoolProofs!TypeCorrect` | `TypeOK` | workers, observers, brokers, timeouts, bounds |
| `BrokerPoolProofs!MutualExclusion` | `MutexMatchesProgress` | |
| `BrokerPoolProofs!SingleShot` | `SingleShotOnce` | whatever the clock does |
| `BrokerPoolProofs!IntervalKept` | `RefreshInterval` | if the clock is never set |
| `BrokerPoolProofs!CleanShutdown` | `QuietAfterJoin` | |
| `BrokerPoolProofs!PoolImplementsSchedule` | BrokerPool implements RefreshSchedule | |
| `EntityCacheProofs!TypeCorrect` | `TypeOK` | objects, workers, versions, failures |
| `EntityCacheProofs!ServedInstancesAreBound` | `ServedIsBound` | |
| `EntityCacheProofs!StaleInstancesMissedAChange` | `StaleOnlyIfMissed` | |
| `EntityCacheProofs!ValuesNeverGoBack` | `NeverBackwards`, an action property | |
| `StatusLinkProofs!TypeCorrect` | `TypeOK` | threads, sensors, providers, updates |
| `StatusLinkProofs!AnswersWereShown` | `ServedWasShown` | one request thread |
| `StatusLinkProofs!OkMeansNoneFound` | `OkOnlyIfNoneFound` | one request thread |
| `StatusLinkProofs!FailuresNameUnknown` | `FailsOnlyOnUnknown` | one request thread |
| `StatusLinkProofs!FailuresAreExplained` | a request fails on an unknown status it was shown, or on a member of the sensor or of the provider's own instance that another thread added first | any threads |
| `StatusLinkProofs!SettledStays` | once every sensor and every provider's own instance has a status and none is being added, that stays | any threads |
| `VersionLinkProofs!ServedVersionsWereShown` | `ServedWasShown` | images, purposes, threads, signals |
| `VersionLinkProofs!LastImageWins` | `LastWinsIfCalm` | |
| `SessionStoreProofs!TypeCorrect` | `TypeOK` | threads, tokens, files, requests, timeouts |
| `SessionStoreProofs!SessionIsOwn` | `OwnSession` | |
| `SessionStoreProofs!RevokedSessionsFadeOut` | `RevokedFadesOut` | |
| `SessionStoreProofs!FailuresReadTheFile` | `FailureReadsAll`, an action property | no file with an empty UUID |
| `RequestLifeProofs!TypeCorrect` | `TypeOK` | connections, kinds of request |
| `RequestLifeProofs!ParserIsExclusive` | `ParserExclusive` | |
| `RequestLifeProofs!RequestsImplementExchange` | RequestLife implements Exchange | |
| `SystemQueriesProofs!TypeCorrect` | `TypeOK` | names, members, queries, configurations |
| `SystemQueriesProofs!ServingEntitiesHaveOneBroker` | `OneBrokerPerEntity` | |
| `SystemQueriesProofs!OrphansAreNamedTwice` | `OrphanOnlyIfNamedTwice` | |
| `SystemQueriesProofs!MapIsAConfiguration` | every run of EntityMap is one of EntityRegistry | |
| `SystemQueriesProofs!ConfigurationStartsUp` | `StartsUp` | what the registry knows beside the program's own, bounds |
| `SystemQueriesProofs!WrittenMembersAreDeclared` | `WrittenIsDeclared` | |
| `SystemQueriesProofs!FieldsAreLastFormatted` | `FieldsAreFormatted` | texts, choices of queries |
| `SystemQueriesProofs!OnlyForeignTypesThrow` | `EndsOnForeignTypeOnly` | |
| `SystemQueriesProofs!ObjectsAreShownWhole` | `ShownIsWhole` | |
| `GraphqlBuildProofs!AnswersAreEvaluations` | `AnswerIsEvaluation` | requests, entities, members, instances, refreshes, queries of any width and depth |
| `GraphqlBuildProofs!ErrorsAreInvalid` | `ErrorIffInvalid` | |
| `GraphqlBuildProofs!OnlyExposedFault` | `FaultOnlyIfExposed` | also which entities have link rules |

### Assumptions
They are named, stand in the module that declares the constants, and TLC
evaluates them in every run. Most only give a bound its type or keep a value
such as `NoThread` apart from the values of a set. The others:

- `ClockAssumption`: the wall clock does not show the first second of 1970,
  which stands for "never run".
- `BoundsAssumption` (EntityCache): there is a first version, 1, of what the bus
  holds.
- `VersionLinkAssumption`: the images are a sequence, the order of the hashes in
  `Entity::instances`.
- `SessionAssumption`: there is a request and the clock starts within its bound.
  `LongestAssumption`: one of the timeouts is the longest, which holds because
  the source reads a 64-bit number.
- `RegistryAssumption`: the object path and the service, which `addObject` adds,
  are members. Without them a second broker of an entity would go unnoticed.
- `MapAssumption`: a script is a sequence of calls, with names, members and
  queries the registry knows, and the meta members are those of
  `definitions.hpp`; `ConfigurationStartsUp` needs that no member list of the
  program names one.
- `QueryNamesAssumption`: the queries looked at are those without associations
  (`Status` is StatusLink), and "element" is no text of the bus; it marks the
  values of a list's children.
- `SyntaxAssumption`: a query is a sequence of one or more operations, each with
  a selection set; a selection set is a sequence of fields, those of an object
  less deep than the set it is in. That is what the parser makes: a finite tree.
- `InstancesAssumption`: hashes are numbers, an entity has finitely many
  instances at the start, and no entity has the name that stands for the root
  builder's null pointer.

Two hypotheses are part of the theorems. `OneThread` says that `Requests` has at
most one element: with two, each of the three properties is false; the run
`status_link_two` shows it for one of them. `NoEmptyUuid` says that bmcweb never
writes an empty UUID; an empty one takes away a UUID that was captured before,
and then a request may fail while another, which had come past the file, sweeps
what it brought.

### The arguments
**BrokerPool.** `IInv` is `TypeOK /\ OnTheList /\ MutexMatchesProgress /\
StampPending /\ FirstShot`. `SingleShotOnce` alone is not inductive: one must
know that a refresh of a single shot under way is its first (`FirstShot`), which
the second test can only promise because a broker that was published and not yet
stamped still has its publisher at the stamp (`StampPending`), who would be a
second holder of the mutex (`MutexMatchesProgress`, lemma `OneHolder`).
`IntervalKept` adds `Steady`: wall clock and real time differ by a constant, so
the test made under the lock says how much real time has passed, and that stays
true until publication. `PoolImplementsSchedule` shows that `Recheck`, `Publish`
and `setExecutionTime` are `Begin`, `Deliver` and `End`, and that all other
steps of threads leave the phases alone.

**EntityCache.** An invariant per object: the queue of each of its two instances
is in the order of the versions, between the value held and the value on the bus
(`QueueInOrder`); an instance that missed nothing is behind by its queue only
(`StaleByQueueOnly`); and the stage of the refresh says which drafts are read,
which are bound and which are live already (`DraftMatchesStage`,
`LiveMatchesStage`). `ServedIsBound` needs the last: what is inserted was bound
before the map was cleared. `NeverBackwards` needs the order of the queue, for
the step that dispatches its head.

**StatusLink.** While a request is at a sensor, there is a choice of one status
for each provider it has asked, each shown during the request, such that every
status chosen is below the field or still among the candidates (`UnderWay`);
with the last candidate stored that is the property (`Passed`). It rests on
`SeesChildren`, that the history has what the children show now, which, like
the types, holds with any number of threads. So does `CandsWereShown`, that a
request links only what it was shown at that sensor: with any number of threads
its failures come from an unknown status it was shown, or from `supplement`,
when the member it had found missing, of the sensor or of the provider's own
instance, is there by then. The second kind ends once each of these has a status
and no request is about to add one, and stays away as long as the instances do
(`SettledStays`); a refresh brings new ones.

**VersionLink.** `ServedWasShown` follows from `FieldsWereShown` and
`WritesItsKind`: the purpose a request read is still that of the object it
writes, because a purpose comes once and stays. `LastWinsIfCalm` needs a loop
invariant (`LoopIsAt`): of the instances passed, the field has the version of
the last with the right purpose, and the others are before the loop in their
order.

**SessionStore.** `OwnSession` is inductive beside the types. `RevokedFadesOut`
needs to know when the last sweep was and what it has not reached: every entry
in the store is younger, as of the stamp, than the longest timeout, or in the
`todo` of the thread that set this stamp (`YoungOrDue`), and a thread that looks
a session up has stamped or seen a stamp at most a second old (`SweptBefore`).
For `FailureReadsAll`, before a UUID is captured nobody is past the file, so
nothing is erased, and what the loop has passed is in the store (`FileInv`).

**RequestLife.** The place of a connection's thread says which of its objects
exist (`ObjectsMatchPlace`), those say what kind of request it is
(`ObjectsMatchKind`), and the answer and what is on the wire follow
(`AnswerMatchesPlace`). The refinement maps a place to a stage of Exchange
(`stageOf`); the step that decides the answer needs `ParsedInTime`, that a query
that could be parsed has been.

**EntityRegistry.** Names lead to objects of that name and objects are found
under their names, unless another provider had the name first
(`MapsLeadToNames`, `ObjectsAreFound`). `OneBrokerPerEntity` rests on
`BrokersAreMarked`: nothing but an object's own members tells `addObject` that
it has a broker. The theorems are about `EntityRegistry!Spec`;
`MapIsAConfiguration` carries them over to the program.

**EntityMap.** `Plan` lists what `initEntityMap` builds: seven objects with
their members, links and queries. `PlannedCalls` shows that the 23 calls are
those of the plan, by finding each chain's place in the concatenation
(`ScriptIs`). `Planning` is inductive: the process is at some object of the
plan, which was built, has its members, has its link or is done; all objects
before it are done, and both maps hold these objects and no others (`Reached`).
So every call finds what it needs: the name is free (`HoldsMore`), no member is
given twice and none is a meta member (`PlanIsFit`), and a provider is built
before it is linked (`CallsOf`). That is `StartsUp`. A process that serves has
made all calls (`ServingIsDone`), so its objects are those of the plan, and
`WrittenIsDeclared` is a fact about the plan and the dictionaries of the queries
(`PlanDeclares`).

**InstanceFields.** Each entry of the dictionary has its field exactly when a
scalar has come for it, formatted (`EntryIsFormatted`). That is inductive
because of three facts about the data of SystemQueries, proved by cases over the
queries: no two entries of a query lead to one member (`MembersAreDistinct`), no
entry leads to a member that comes from the path or from a default
(`MembersAreOwn`), and each formatter belongs to one query (`ChassisType`).
`ShownIsWhole` needs that every child of a list has the hash of its parent
(`DOMAIN complex` in `Types`).

**GraphqlBuild.** In a visit, path and stack are the way from the operation down
to the current object, builder `k + 1` being that of the field level `k` is at
(`Matches`). The fields passed on every level have known names (`SoFarKnown`),
and if the query is valid so have those to come (`AllKnown`): a query that ends
in data has passed them all, one that ends in an error has met one that is not
known. As long as no refresh has disturbed the request, each fragment is what
the fields passed on its level mean (`Filling`). A field adds what the
definition of `Evaluate` says it adds, unless one of its name was there
(`PushNext`); an object is handed over with all its fields passed, so its
fragment is the `Evaluate` of its selection set (`LeaveMatches`).

That a recursive function is what its definition says has to be proved
(`KnownDefined`, `EvaluateDefined`). Both depend on less deep selection sets
only. Of the depths for which no function satisfies the definition so far the
least would have one, made from that of the depth below; any two such functions
agree, for else they would differ on a least deep set; so together they make one
function. The induction is on numbers, and in the form of a least counterexample
(`LeastNat`), because a theorem with an operator as parameter cannot be used.

### Only model-checked
- Liveness (`DueIsRefreshed`, `TerminateReturns`, `Converges`,
  `SettlesUnlessMissed`, `RequestEnds`, `Completes`): TLAPS does not prove
  anything from fairness here.

## 5. Plan

Done: BrokerPool with RefreshSchedule, EntityCache, StatusLink, SessionStore,
RequestLife with Exchange, EntityRegistry with EntityMap, InstanceFields,
VersionLink and GraphqlBuild, each with its proofs. Next, in this order:

1. Composition of BrokerPool and EntityCache: the refresh inside `tryProcess`.
2. What the answers of several threads over one sensor may still promise; of
   `StatusLink` only the failures are settled for any number of threads.

Not modelled:

- the header tables, `cache.hpp`, logging and exception classes: constants and
  text, no state; the GraphQL parser, sd-bus and the FastCGI library, which are
  external, as far as their use here does not show; lighttpd and TLS settings;
- code without a caller: `Condition`, `Relation::getConditions` and
  `relationFieldsEqual` (nothing adds a relation, and `getInstances` is never
  given a condition), `DBusObjectEndpoint::getHash`, `relationsSensorsLinkRule`,
  `getSessionByUid`, `getUniqueIds`, `updateAuthMethodsConfig`, the `populate`
  functions with `createConfigPath`, `base64Decode` (the Basic scheme, for which
  it is written, throws), `urlEncode`, and `reconnect` and
  `disconnect` of a connection;
- torn values in the session map and the fragments: of what a data race may do,
  only the fault is modelled.
