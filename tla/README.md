# Formal models of Scrypted

TLA+ models of the concurrent core of this repository, TLC runs that check them
on small instances, and TLAPS proofs of what matters most for every instance.
Paths below are relative to the root of the source tree.

- [The system](#the-system): components, state, operations, what is hard
- [The modules](#the-modules): what each models and how it corresponds to the code
- [The runs](#the-runs): what each checks, its bounds and its fairness
- [The proofs](#the-proofs)
- [What the models found](#what-the-models-found)
- [What is not modelled](#what-is-not-modelled)
- [Plan](#plan)

To check a run: `tlc -config RpcObjects.cfg MCRpcObjects.tla`; to check the proofs
of a module: `tlapm RpcObjects_proofs.tla`. `PROJECT.json` lists the runs with
their properties, for each property a plausible bug that violates it, the source
lines of every definition, and the hazards the properties are for.

## The system

Scrypted is a home automation server. A **server** process loads **plugins**, each
in a worker thread or process of its own, or on another machine of a **cluster**.
Everything that server and plugins say to each other goes through one RPC layer,
in which objects are passed by reference and released by the garbage collectors of
the two sides. On top of it the server keeps the devices (proxies whose methods go
through a chain of *mixins*), their state, and the event listeners. A set of shared
libraries (`common/`) serves the plugins: an async queue, recording and casting
pipelines, RTSP and WebRTC helpers.

Every process is a single-threaded event loop. Code between two `await`s is never
interrupted, so an action of the models is a stretch of code from one suspension
to the next; concurrency comes from coroutines that interleave at their awaits,
from messages between processes, from timers, and from the garbage collector.

| Component (source) | State | Operations | What is hard | What makes it correct |
|---|---|---|---|---|
| RPC object lifetime (`server/src/rpc.ts`) | exporter: `localProxied`, `localProxyMap`; importer: `remoteWeakProxies`, the `RpcProxy` instances; both: ids | `serialize`, `deserialize`, `newProxy`, the finalizer callback, `finalize` and `apply` messages, `kill` | references and finalizes cross on the wire; the collector runs whenever it likes; a peer is killed while a handler awaits | an object is exported while anyone can reach it, and released when nobody can |
| RPC calls and generators (`server/src/rpc.ts`, `rpc-serializer.ts`) | `pendingResults`, the handlers that await, `yieldedAsyncIterators`, the socket | `apply`, `result`, `next`/`return` of a remote generator, `kill`, disconnect | a close at any point; messages that cannot be written; pipelined `next` | every caller is told, once; no generator stays suspended |
| Async queue (`common/src/async-queue.ts`) | `queued`, `waiting`, `ended`, the Deferred of each item | `submit`, `enqueue`, `wait`, `dequeue`, `take`, `queue`, `clear`, `end`, abort signals | promises of several producers and consumers, settled by each other's operations | FIFO; no wakeup lost; no promise forgotten |
| Recording pipeline (`common/src/recording.ts`) | the segments, the current writer, the saved index | `start` (recover, open, write, rotate, seal), `stop`, `pruneExpired` | `stop` seals while the loop of `start` is anywhere, also sealing; failures of every external call; crashes | written data is in the index, retention holds, everything is sealed in the end |
| Session restart guard (`common/src/reliability.ts`, `ingest.ts`) | `runner`, `pipeline`, restart counts | `start`, `stop`, `connectWithRetry`, backoff | stop during a connect or a backoff; which endings count as crashes | a crashed session is recorded again |
| Doorbell cast (`common/src/doorbell-cast.ts`) | `activeSessions`, timers, casts in progress | `handle`, `castToTarget`, `dismiss` | displays that hang or fail, retries, a second session of the same event | every overlay that was cast is taken down; one display does not hold up another |
| Mixin table of a device (`server/src/plugin/plugin-device.ts`, `runtime.ts`, `services/plugin.ts`) | `mixinTable` of promises, the list `mixins`, `releasing` | `ensureProxy`, `invalidate`, `rebuildMixinTable`, `invalidateMixins`, `setMixins`, `removeDevice` | tables are cut and rebuilt while entries are pending and plugins reload; mixin providers have mixins themselves | a table is a stack of its own layers, in the order of the list, none of them of an earlier plugin instance; each mixin is released once, if its provider still exists |
| Plugin host and runtime (`server/src/plugin/plugin-host.ts`, `plugin-host-api.ts`, `runtime.ts`) | `plugins`, `killed`, the restart timer of every host, the stored plugin and its device | `loadPlugin`, `runPlugin`, `kill`, `restart`, `restartDebounced`, install, `removeDevice` | overlapping runs; timers and exits of earlier hosts; removal while a run waits | one live host per plugin; an installed plugin comes back; a removed one stays down |
| Lazy remote (`server/src/plugin/plugin-lazy-remote.ts`) | `init`, the remote | setters before and after the remote is ready | order of commands queued before | commands arrive in order |
| State manager, event registry (`server/src/state.ts`, `event-registry.ts`) | `upserts`, `refreshThrottles`, listeners | `setPluginDeviceState`, `refresh`, `listen` | throttled refreshes that share a promise | a refresh asked for is answered by one that began later |
| Cluster (`server/src/cluster/cluster-setup.ts`) | cluster peers, brokered thread connections | `ensureClusterPeer`, broker, `connectRPCObject` | simultaneous connections, closed ports | an object of a reachable process can be connected to |
| Database (`server/src/level.ts`) | id counter, documents | `upsert`, `tryGet`, `getAll` | a crash between two writes | an id is never given twice |
| Promise helpers (`server/src/promise-utils.ts`) | cached promises, timers | `singletonPromise`, `timeoutPromise`, `createPromiseDebouncer` | a timer of a finished call | a new call is not shared after its time |
| Media manager (`server/src/plugin/media.ts`) | converters | `convert` | search through a graph of mime types | a cheapest route is used |

How they interact: plugin host and lazy remote call plugins through RPC calls, whose
arguments and results go through the object lifetime protocol; killing a host invalidates
the mixin tables its devices are in, loading one rebuilds them; the mixin table holds
RPC proxies; the async queue feeds the terminal service, the cluster's worker zygotes and the command line shell; the
restart guard drives a recording pipeline. The modules keep these parts apart where
the interface is a plain call, and put both sides in one module where they share
state (the two RPC peers, the two coroutines of the recording pipeline, the guard and
its runners).

## The modules

### RpcObjects — object lifetime (`server/src/rpc.ts`)

One `RpcPeer` as exporter, one as importer, and two FIFO channels between them. The
program on either side is arbitrary: it may pass any object, call any proxy it can
reach, and forget proxies.

| Action | Code |
|---|---|
| `Serialize` (in `SendArgument`, `FinishApply`) | the by-reference branch of `serialize`: an exported object keeps its proxy id and gets a new finalizer id, any other gets one new id as both; with `onProxySerialization` (`cluster-setup.ts`) the proxy id is the one in the value's `__cluster` entry. `sent` says whether the message goes out: a oneway call's result never does (`rpc.ts:790` serializes it, `797` does not send it), a write may fail, a later argument may not serialize |
| `HandleApply`, `FinishApply` | `handleMessageInternal`, `apply`: lookups before `await target(...)`, the value serialized after it, whatever happened to the peer meanwhile |
| `HandleFinalize` | `finalize`: released only if the finalizer id is the current one |
| `Deserialize` | `deserialize` and `newProxy`: the WeakRef is reused if it derefs, and its entry takes the new finalizer id |
| `DropReference` | a message whose reference is not deserialized: the call has no target here, or an earlier argument throws |
| `CallProxy` | a call of the proxy or of a method taken from it, maybe with another proxy as argument |
| `Forget`, `CollectProxy`, `Finalize` | the program drops the proxy (or keeps only a method, i.e. the handler); the collector clears the WeakRef; the `FinalizationRegistry` callback runs, in a later turn |
| `KillLocal`, `KillRemote` | `kill` on each side |

`reach` separates the `Proxy` object (what the WeakRef watches) from its handler (what
the FinalizationRegistry watches, and what a method keeps alive): `held`, `method`,
`dropped`. Values that travel by copy carry no state and are left out. `StableId` maps clustered
objects to the ids of their `__cluster` entries and need not be injective: two proxies of one
object of a third peer, or a proxy and what `connectRPCObject` made of it, are two values of
one peer with one proxy id. `Unshared` objects have theirs for themselves. `lost` is observed,
not part of the code: the objects whose current finalizer id was renewed for a message that
nobody got.

### RpcCalls — calls and remote generators (`server/src/rpc.ts`, `rpc-serializer.ts`)

A caller and a callee over a duplex serializer. Each call is made at most once, so it
stands for its id. A request may be answered with an error before its target runs;
sending may fail, in which case the peer destroys the socket; a result may fail to
deserialize. The async generator is the one JavaScript defines (external): `next`,
`return` and `throw` queue while its body runs. `gen`, `genQueue` and `resumed` are
its state, the queue of requests to it, and the handlers it has answered but that have
not resumed yet. `yielded` is its membership in `yieldedAsyncIterators`.

### AsyncQueue, FifoQueue — the async queue (`common/src/async-queue.ts`)

Every operation of `createAsyncQueue` runs to its end or first `await` at once, so each
is one action. The promises are state: `dequeued` is the Deferred of an item, `reader`
and `waiting` the consumers whose `dequeue()` is pending. `FifoQueue` is what the queue
promises: items come out at most once, in order, unless withdrawn. The refinement maps
`buffer` to `queued` and `open` to `~ended`: a `submit` that finds a waiting consumer is
`PutThrough`, which is only a FIFO step because the queue is empty then
(`NoLostWakeup`).

### RecordingPipeline — recording (`common/src/recording.ts`)

`loop` is the coroutine of `start()`, `stop` that of `stop()`; `pc` says which await each
is suspended in. Both run `sealCurrentSegment()`, whose parts before and after
`await close()` are `Seal` and `Closed`. Segment objects are shared: a seal that resumes
forgets whatever is current by then. Every external call returns or fails (`Fail`). A
frame has one byte or none. External and assumed: calls of `index.save()` take effect in
the order they were made. `Crash` loses everything but files and index, at any await.

### SessionGuard — restart of sessions (`common/src/reliability.ts`, `ingest.ts`)

`SessionRestartGuard`, its `CrashSafeRunner` and the `connectWithRetry` in its task. The
pipeline is seen from outside: its `start()` returns when the session ends, in whatever
way, and rejects when recovering or sealing fails — which is what RecordingPipeline does
(`"done"` and `"failed"` of its `loop`). `pipeline.stop()` returns, and the guard forgets both
(`StopReturns`), or rejects, and it keeps them (`StopFails`).

### DoorbellCast — casts (`common/src/doorbell-cast.ts`)

`handle`, `castToTarget` with its retries, the timers and `dismiss`. External are the displays
and the hook `onCastSuccess`. A display puts its overlay up during the call of `showPip`
(`Shows`); then the call returns, or fails, or (for `Hung` displays) never returns, and it may
also fail or hang without an overlay (only `Flaky` displays fail). When it returned, the hook
returns and the timer is set (`ShowReturns`), or it throws: it runs inside the `try`, so the cast
counts as failed and no timer is set (`HookThrows`). `dismissPip` takes down whatever the
display shows, or fails. A call that failed has no effect afterwards. `onCastFailure` only
ends the cast, whether it throws or not: its promise goes to `Promise.allSettled`.

### MixinTable — mixin tables (`server/src/plugin/plugin-device.ts`, `runtime.ts`, `services/plugin.ts`)

A few devices, some of which provide mixins for others, and the plugins that provide
them. `handler[d].table` is a device's `mixinTable`, the base first (the code unshifts, so
its head is the last element here); `handler[d].built` keeps every entry ever built, since
the promise of an entry that left the table still settles. An entry records what the code
gave it to wrap (`below`) and what became of its promise.

| Action | Code |
|---|---|
| `SetMixins`, `SavedMixins` | `setMixins` before and after `await datastore.upsert`, with `hasMixinCycle` as it is |
| `Call` | `ensureProxy` of a device without a table, from `apply` or `probe` |
| `Upserted` | the `nextTick` of `PluginHost.upsertDevice`: the device is invalidated |
| `Kill`, `KillAgain` | `PluginHost.kill`, and the one of an old host whose exit is noticed late |
| `Load` | the rest of `runPlugin`: `loadPlugin`, which may fail to make a host, and `probePluginDevices` |
| `RemoveDevice`, `Removed` | `removeDevice` before and after `await datastore.remove` |
| `BaseReturns` | the promise of the base, of the plugin or its `DeviceProvider` |
| `MixinReturns`, `Declines`, `PassesThrough` | the ways out of `rebuildEntry`: a layer or an error; the provider gone or unwilling, which takes it out of the list; a provider that is no `MixinProvider` for now |

`Rebuild` is `rebuildMixinTable`, `Cut` and `Touched` are the first pass of
`invalidateMixins` (which follows providers that lose their own layers: what its work list
reaches is the least set closed under "acts on"), `Keep` is every way entries leave a table,
`Leave` is `invalidateEntry`, which looks the provider up at once and releases nothing when there
is none any more. `Lists` are sequences without repetitions, because `setMixins`
makes a `Set` of what it is given before it stores it. What a layer implements, and so which
layer answers a method, is left out; so are the published interfaces. The writes of the datastore
succeed: a rejected `upsert` (`services/plugin.ts:64`) would leave the list changed and the table
as it was, a rejected `remove` (`runtime.ts:821`) would skip the rest of the removal.

### PluginHost — hosts of a plugin (`server/src/runtime.ts`, `plugin-host.ts`, `plugin-host-api.ts`)

One plugin. `loads` has an element for every host that was made and for every failure to
make one that will be retried: with each goes a closure of `setupPluginHostAutoRestart`, so
`loads[n].timer` is that closure's `timeout`. `tasks` are the suspended requests: awaiting the
datastore, or (in `runPlugin`) the exit of the old worker.

| Action | Code |
|---|---|
| `Reload`, `KillService`, `Install`, `RemoveDevice` | the user's requests, up to the first await |
| `Got`, `Installed` → `Run` | `runPlugin` up to `await timeoutPromise(5000, killPromise)`: by a user, by a timer unless superseded, by `restartDebounced` if its host still is the current one |
| `WaitOver` → `Load` | `loadPlugin`: kill what is there *now*, make a host or throw; a timer whose run throws is set again |
| `RemoveKills`, `Removed` | the rest of `removeDevice` |
| `WorkerExits` | the first of the worker's `error` and `exit` that is heard: `restart()` |
| `Ask`, `DebounceFires`, `TimerFires` | the health check and the two timers |
| `TimePasses` | 15 s or 60 s go by |

Durations are kept as two scales: what awaits a datastore or the 5 s of `runPlugin` ends, and a
killed worker exits (SIGKILL after 1 s), before a timer that was set meanwhile can fire; a
timer that is ripe fires in any order with everything else. Left out: a late second event of
a worker (its `close` long after its `exit`), which sets a timer that finds itself superseded;
and requests of the health check of a host that is no longer current, which are cancelled. Two
assumptions about the environment: the local database is reliable (`level.ts:42` turns a failed
read into "no such plugin", which would cancel a restart; a rejected `datastore.remove` at
`runtime.ts:821` would leave a removal half done), and a host whose constructor throws has no
worker (it could throw after `plugin-host.ts:373` made one, which nobody would then kill).

### DataLemmas and the modules `*_proofs`

`DataLemmas` holds what the proofs need to know of sequences, finite sets, minima and sums;
each component but SessionGuard has a module of proofs: RpcObjects_proofs, RpcCalls_proofs,
AsyncQueue_proofs, RecordingPipeline_proofs, DoorbellCast_proofs, MixinTable_proofs,
PluginHost_proofs.

## The runs

Every passing run finishes the whole state space of its instance. No passing run has a deadlock
check: all of these systems may stop (a killed peer, an ended queue, a finished
recording), and the bounds stop them too.

| Run | Shows | Instance |
|---|---|---|
| `rpc_objects` | the two maps agree; a reference in flight resolves; the current finalizer id of an export is always somewhere, so it can be released, unless its message was not sent or was dropped; a proxy that is the only one ever built for its id resolves | 3 objects, two of which share a cluster id; 3 proxies (symmetric), 3 generated ids, 2 messages each way, 1 handler |
| `rpc_objects_live` | what the importer stopped using is released in the end, unless its last message was not sent or was dropped | 1 clustered object, 3 proxies, 3 ids, 2 messages each way |
| `rpc_objects_twin` (violation) | any callable proxy resolves: it does not, see below | 2 objects, 3 proxies, 4 ids |
| `rpc_calls` | no caller waits for a call the peer forgot and a close settles all calls (but for one whose result failed to deserialize, which the code tells nobody of); one answer at most; no generator left suspended by a kill, and a close stops it | a oneway call, an ordinary one, two `next`, one `return`; 4 of the 5 in one behaviour |
| `async_queue` | no lost wakeup; the line is exactly the pending consumers; a pending producer's item is queued; one place per item; refines `FifoQueue` | 5 items: two plain, one enqueued, one with a signal, one with both; 2 consumers (symmetric) |
| `recording` | written data is indexed, sealed data within budget, everything sealed when start returns by itself, oldest pruned first, `stop` ends the loop | 3 segments, 2 ticks, 3 bytes, 1 crash; a size limit that two segments exceed |
| `session_guard` (violation) | a crashed session is restarted: it is not, see below | 2 runners, 2 attempts, 1 restart |
| `doorbell_cast` | an overlay whose cast succeeded has something that will take it down; every overlay is taken down, but for those of casts that failed or hang with the overlay up; casts to displays that answer settle | 1 event handled twice, one display that may fail and one that may hang, 2 attempts |
| `mixin_table` | a table is a stack of its own layers; a mixin is not released while in use and once afterwards, if its provider still is there; nothing of an earlier plugin instance or of a removed provider stays; the layers are those listed, in order, when no `setMixins` is under way | a camera under two mixins, one of which is itself under the other; 2 plugins, one reloaded; 1 `setMixins`, 1 removal; 6 entries for the camera |
| `mixin_cycle` (violation) | no device mixes, through others, in itself: it may, see below | 2 devices |
| `plugin_host` | at most one host is not killed; an installed plugin is up or something will bring it up; a removed one is down; when events end it is up and no timer is left | 2 requests and 1 fault, or 1 and 2; at most 16 hosts, which no behaviour reaches |
| `doorbell_dismiss` (violation) | a dismissed session stays down: it does not, see below | 1 display that answers |

Why the bounds are enough for the cases that matter: two references to one object in
flight while a finalize comes back needs two messages each way and three ids, and a
proxy that is replaced twice needs three instances; two objects that share a cluster id and
an ordinary one need three objects, and the third generated id lets one be exported again
after a release. Two pipelined `next` are the least for one to wait behind the other, and a
`return` behind both. Two consumers and one item of each kind cover every pair of
operations that settle each other's promises. Three segments are needed for one to be
current, one sealed and one over budget; a crash after a rotation needs two ticks. Two
sessions of one event are what a stale timer needs. A provider under a mixin of another
plugin is the least for an invalidation to spread; six entries are a table of three built
twice. Two requests are the least to overlap in `runPlugin`, and two failed loads for the
retries to multiply.

Fairness is stated with each specification and only where a run needs it:

- *RpcObjects*: the transport delivers, handlers' targets return, and the collector runs
  in the end (`startPeriodicGarbageCollection` forces it). The two programs need do
  nothing. `Finalize` is strongly fair because the bound `MaxQueue` can block it again
  and again; the code's `send` never waits.
- *RpcCalls*: a closed socket is noticed on both sides (the `close` and `error` handlers
  of `rpc-serializer.ts`), and the event loop goes on with handlers and generators.
  Nothing is assumed of ordinary targets.
- *RecordingPipeline*: external calls return or fail, and a stopped session still yields
  a frame or ends; nothing is assumed of a session that was not stopped.
- *PluginHost*: awaits end, killed workers exit, timers fire. Requests and faults need not
  happen, and are finite.
- *DoorbellCast*: timers fire, sleeps end, displays answer except for `showPip` of a hung
  one, and the hook returns or throws (it is synchronous).

## The proofs

Every safety invariant of the passing runs, the action property `OldestPrunedFirst` and the
refinement `ImplementsFifo` hold for all values of the constants that meet the modules'
assumptions. Those are: sets that are subsets of those they are taken from, bounds that are
naturals (most `MaxX` of PluginHost are at least one), and an `undefined` (`None`, `Base`) that is
nothing else. Some say more: `ObjectsAssumption` keeps the stable ids of clustered objects apart
from generated ones (the former have a prefix of their own, the latter are eight random digits), but not from
each other;
`CallsAssumption` keeps the oneway, `next` and `return` calls apart (a `next` is awaited, so it
is not oneway); `MixinAssumption` takes stored and offered lists of mixins without repetitions
(see `Lists`); `CastAssumption` and `PipelineAssumption` want at least one attempt per display,
and a segment duration above zero, as the defaults of the options are. No bound is assumed to
be small, and none keeps a case away from a proof: an action at its bound is only not taken.

**RpcObjects_proofs.** `TypeCorrect`: `TypeOK` is not inductive: a finalize message carries the
ids of an `RpcProxy`, which must have some, so the invariant adds that every instance that was
built has ids (`BornHasIds`) and that a WeakRef leads to a built instance of its id
(`WeakRefs`). `MapsCorrect`: `MapsAgree` needs that an id that is generated is not the id of
another entry: `EntryIds` says that entries have their stable id or one generated before. Of
objects that share a stable id only the one exported last is in `localProxyMap`, and its release
empties the slot for all, so `MapsAgree` asks only unshared ones to be found under their id.
`InFlightCorrect`: `InFlightExported` says that a finalize that crosses a reference on the wire
does not release its object. The argument, `FlightInv`: ids that are still to be generated are
nowhere (`AllPast`), so a finalizer id renewed by a send is known to nobody but that reference;
hence only the *last* reference to an object in the channel carries the finalizer id that
matches, and no earlier one, no proxy and no finalize message does (`OnlyLastReleases`). A
matching finalize therefore means that no reference is in flight. Clustered ids are excluded,
because a clustered object gets the same finalizer id each time it is exported anew, and the
argument fails for it.

`ReclaimCorrect`: `Reclaimable` is the other side of that accounting, that the matching id is
never lost, once it was sent and as long as the reference that brings it is not dropped. An
object whose id was renewed for a message nobody got is in `lost`, and shared stable ids are
left out; both are false of the code (see the hazards). For all other exported objects (`Sent`)
`ReclaimInv` says that the last reference in the channel has the current finalizer
id (`LastCurrent`), and that a reference, a finalize or a proxy has it (`Carried`, where the
proxy is one that was built). When that reference is received, a proxy takes its id, and the
only thing that can overwrite the id of a proxy is a later reference, which would be the last.
`LoneCorrect`: `LoneProxyExported` speaks of one proxy, and is too weak to be kept by a step
that builds a second. `LoneInv` says it of ids: an id that a reference or proxy has is
exported, unless a proxy of that id *was finalized* before (`NeverReleased`); and a
finalize message comes from such a proxy (`FinalizersKnown`). What was finalized stays
finalized, so if a proxy is the only one ever built for its id, no finalize of it was sent.
Here clustered ids need no exception, shared or not (`EntriesResolve`: the id of an exported
object leads somewhere, unless a proxy of that id was finalized).

**RpcCalls_proofs.** `TypeCorrect` adds `BodyHasCaller`: a running generator body runs for the
`next` at the head of its queue. `WaitersCorrect` (`WaitersRegistered`) is inductive given the
types. `GeneratorCorrect` (`NoAbandonedGenerator`) needs the situation *before* a kill
(`SuspendedKnown`: a suspended generator is in `yieldedAsyncIterators`, or something will wake
it) and that `kill()` empties that set for good (`KilledForgets`); the recheck after the await
of `next` is what keeps it. `AnswerCorrect` (`AtMostOneAnswer`) counts; the invariant `Placed`
does not: a call is in one of five places (asked for, queued at the generator, awaited by its
handler, resumed, answered), there once, and in none while it is idle. Each step moves
one call to the next place; the counts follow at the end (`CountOnce`).

**RecordingPipeline_proofs.** `TypeCorrect`, by `TypeInv`: the plain types (`Shape`), which
places of the two coroutines go together (`Flow`), that no segment object says more than its
file holds (`Files`), that a coroutine has at most one save in the queue, which it is
waiting for (`Queue`), and that what is still to be written has room (`Room`).
`BudgetCorrect` (`SealedWithinBudget`): `pruneExpired` keeps a sealed segment if the total fits
once those older than it are gone; the oldest sealed one that is kept was therefore judged by a
total that includes every sealed one that is kept (`KeepBudget`), and sums over smaller sets are
no larger (`SumMonotone`). `OldestCorrect` (`OldestPrunedFirst`) is the same fact read the other
way: if an older sealed segment is kept, so is each newer one that is not too old (`KeepNewest`).
`EndCorrect` (`EndSealsAll`), by `SealInv`: until `stop()` is called nothing is open but the
current segment, and that is sealed by the time its `close()` is awaited. Once `stop()` is
called it fails, which is why the property excludes that (see the hazards).
`IndexCorrect` (`FramesIndexed`), by `IndexInv`: two coroutines save the index, and a crash may
let any number of their saves take effect; so a segment with data must be named by the index
*and by every save under way*, and be known to the pipeline, so that the next save names it
too (`DataNamed`); it gets its first data only once the save that names it took effect, no
other being under way (`CurrentNamed`).

**DoorbellCast_proofs.** `TypeCorrect`, whose types are inductive, and `OverlayCorrect`
(`OverlayHasEnd`), inductive given the types. It promises an end to the overlay of a cast that
*succeeded*; one that failed with its overlay up has no timer, in the code as in the model.

**MixinTable_proofs.** The operations on one table (`Keep`, `Build`, `EnsureProxy`, `Rebuild`,
`Cut`, `Invalidate`) are specified once: each turns a *sane* table (typed, `Chained`,
`Released`) into a sane one that `Renews` it: what is settled in the new table was in the old
one as it is (`Descends`), and the table is the old one, empty, or the list of mixins.
The steps are made of those operations, so the inductive invariant is only that all tables
are sane (`TableInv`), which gives `TypeCorrect`, `ChainCorrect` and `ReleaseCorrect`. What
`Released` asks of an entry depends on `devices` (no release is due to a provider that is gone),
and a device that was removed does not come back, so a sane table stays sane (`SaneThen`).
`StaleCorrect` (`NoStaleLayer`) follows from `Descends`: no operation makes a settled layer, only
an answer of the *present* instance does. What is left are the two steps that make a layer stale,
the load of a plugin and the end of a removal; there `invalidateMixins` is shown to leave no
settled layer of the ids it is given, nor of any provider that loses its own layers (`Rid`; this
is why `Touched` is a least fixpoint). `ListCorrect` (`ListedIsLayered`): a renewed table is its
list, or as it was; and a mixin that declines leaves the list without reordering it
(`RemoveOrders`).

**AsyncQueue_proofs.** `TypeCorrect`, and each safety invariant of the queue:
`WakeupsKept` (`NoLostWakeup`), `LineCorrect` (`WaitersInLine`), `ProducersTold`
(`PendingAreQueued`) and `OnceCorrect` (`DeliveredOnce`), each inductive given the types.
`FifoCorrect`: the queue implements `FifoQueue`, each step by the abstract one named in
`FifoStep`, a handed-over item by `NoLostWakeup`.

**PluginHost_proofs.** `TypeCorrect`; `OneHostCorrect` (`OneLiveHost`) and `RemovedCorrect`
(`RemovedStaysDown`), each inductive given the types. The argument: `Kept` says that a change of
the hosts brings none of them back to life; every timer, exit and failure is such a change
(`EventSound`, `TimeSound`, `FailedKeeps`), so only `loadPlugin` can add a live host, and it
does so right after killing the one that is current *then* (`LoadSound`), which by the invariant
is the only one. For the removal: a step that leaves a live host either had one before it or
runs while the device is there (`ContinueSound`), and a removal that has not yet killed is still
among the requests when another ends (`RemovalWaits`). `NeverDownCorrect` (`NeverStranded`): the
invariant `Supervised` counts a request only if what it *found* lets it run the plugin
(`Attended`, stronger than the property), and says that a host whose timer runs or whose worker
is gone was killed (`Guarded`); so when a request, timer or exit is used up, the host it was for
either is live or passes the duty on.

**DataLemmas.** What `Append`, `Tail`, `RemoveAt`, `SubSeq`, concatenation and removal by value
keep; least elements of sets of naturals and minimal subsets of finite sets, by which an
induction is done as an argument about a least counterexample; and, from those, that the
recursion of `MapThenFoldSet` has a solution and only one, so that a sum can be unfolded,
compared and split (`SumUnfolds`, `SumMonotone`, `SumRemoves`).

Model-checked only: all liveness properties (`UnusedIsReleased`, `CloseSettlesCalls`,
`CloseStopsGenerator`, `StopEnds`, `OverlayEnds`, `CastSettles`, `ComesBack`), because the
provers do not handle `ENABLED`, which fairness is made of. The properties of the four
violation runs are false; their counterexamples are in the next section.

## What the models found

- **A method outlives its proxy** (`rpc_objects_twin`, `server/src/rpc.ts:693`). `newProxy`
  tracks the `Proxy` by a WeakRef but registers the *handler* with the
  FinalizationRegistry. While a program holds a method taken from a proxy, the Proxy can
  be collected and the WeakRef cleared; the next reference builds a second Proxy with the
  current finalizer id; when that one is collected, the exporter releases the object, and
  the method that is still held fails with `proxy id ... not found`. `LoneProxyExported`
  shows that two proxies of one id are needed for this.
- **A crashed session is not restarted** (`session_guard`). A comment in
  `reliability.ts:148` says it is; but `RecordingPipeline.start()` catches the session's
  error and returns, so the runner takes it for a task that completed.
- **A dismissed doorbell overlay comes up again** (`doorbell_dismiss`). `dismiss()` does not
  reach the casts still in `showPip` or waiting to retry; their overlays appear after the
  dismissal, and stay until their timers.
- **Mixin cycles are not found** (`mixin_cycle`, `server/src/mixin/mixin-cycle.ts:24`). The
  walk of `hasMixinCycle` starts with the list itself as visited, so it never visits
  anything: only a device that lists itself is refused. Two devices that mix in each other
  await each other's entries, and every call of either hangs.

Smaller ones the models contain but no run states are among the hazards of `PROJECT.json`
(a result whose deserialization throws leaves its caller waiting, the result of a oneway call
renews a finalizer id that is never sent, so that the object leaks, the mixins of a removed
provider are not released, an `onCastSuccess` that throws leaves the overlay without a timer,
the timer of one display ends the session for all, the retries of a plugin that fails to load
double every minute, `stop()` of a runner in its backoff still runs the task).

## What is not modelled

- *Framing and encoding*: JSON and sideband buffers of `rpc-serializer.ts`, RTSP, RTP, SDP
  and MP4 parsing. No interleaving is involved; unit tests reach them.
- *Integrations*: `plugins/` holds some fifty of them, mainly device I/O on the layers
  modelled here; `packages/` are clients and tools, `apps/`, `sites/` and `install/` a
  dashboard, documentation and packaging.
- *The Python RPC* (`server/python/rpc.py`): a second implementation of the protocol.
- *HTTP server and accounts*: request handling.
- *Timing*: durations of backoffs and timers; only their order matters here.
- *Method lookup in a mixin table* (`findMethod`, `findMixin`) and the interfaces a table
  publishes: they need what each layer implements. Their races with an invalidation are
  listed as hazards.
- *Server state*: `state.ts` and `event-registry.ts` update and notify synchronously; of
  `level.ts` the awaits are in the models of those who write.
- *Lazy remote*, *cluster set-up*: listed as hazards where something can go wrong; see the plan.

## Plan

1. **Core** (done): RpcObjects and its proofs; RpcCalls; AsyncQueue with FifoQueue and its
   proofs; RecordingPipeline, SessionGuard, DoorbellCast.
2. **MixinTable** and **PluginHost** (done), with the proofs about PluginHost.
3. Next: the refresh throttle of `state.ts` (is a refresh asked for answered by one that began
   later?); `ensureClusterPeer` and the thread broker of `cluster-setup.ts`; `findMethod` over
   the live table.
4. **Proofs**: every safety property of the passing runs (done). Next: the safety half of the
   liveness properties, that the steps they wait for lower a measure no other step raises
   (the retries of a cast, the awaits between `stop()` and the end of the loop, the calls a
   killed peer still holds).
