# Verification of the concurrent programs of this repository

This directory holds TLA+ models of seven parts of four programs that the
repository carries, the TLC configurations that check them on small instances,
and TLAPS proofs of their main invariants for every instance.

The repository is a collection of Dockerfiles, Helm charts and Kubernetes YAML
with a number of Go, Python and Java programs among them, most of them copies
of other projects. Four of those programs have an interesting concurrency of
their own and are modelled here:

- **ChartMuseum**, the Helm chart repository server (`src/chartmuseum`);
- **Prometheus** (`src/monitoring/prometheus/busybox-prometheus`): remote
  write, the notification manager, service discovery;
- the **ZooKeeper operator** (`src/zookeeper/zookeeper-operator/zookeeper-operator-repo`);
- **Contour**, the ingress controller (`src/ingress/contour/official`).

In what follows `mt/` is `src/chartmuseum/pkg/chartmuseum/server/multitenant/`,
and other paths are relative to the program they belong to.

## Inventory

| Part | State | Operations |
|---|---|---|
| ChartMuseum index loader, `mt/cache.go` `addIndexObjectsAsync` | `Limiter` channel of the server; per call a result channel, a context, a counter | start one goroutine per object, load, send, collect, cancel on error |
| ChartMuseum index requests, `mt/index.go`, `mt/cache.go`, `repo/index.go`, `storage/storage.go` | `InternalCacheStore` or `ExternalCacheStore`, `TenantCacheKeyLock`, per tenant `FetchedObjectsChans`, `RegeneratedIndexesChans` and their locks; `IndexFile` and `Raw` | `initCacheEntry`, `getChartList`, diff, `regenerateRepositoryIndex` and its worker, `saveCacheEntry`, `saveStatefile` |
| ChartMuseum uploads and deletes, `mt/handlers.go`, `mt/api.go` | the storage, nothing else | POST package, POST provenance, multipart form with rollback, DELETE, `checkStorageLimit` |
| Prometheus remote write, `storage/remote/queue_manager.go`, `storage.go`, `write.go`, `client.go` | per endpoint a set of shards with a queue and a batch each, `numShards`, `quit`, counters; `Storage.mtx`, `shardsMtx` | `Add`/`Append`, `ApplyConfig`, `Close`, `Start`, `Stop`, `calculateDesiredShards`, `reshard`, `runShard`, `sendSamplesWithBackoff` |
| Prometheus notifier, `notifier/notifier.go` | bounded queue, signal channel `more`, sets of Alertmanagers, context | `Send`, `Run`, `nextBatch`, `sendAll`, `reload`, `ApplyConfig`, `Stop` |
| Prometheus discovery manager, `discovery/manager.go` | `targets`, `recentlyUpdated` with its mutex, `syncCh`, contexts of the providers | `ApplyConfig`, `runProvider`, `updateGroup`, `runUpdater` |
| ZooKeeper operator, `pkg/controller/zookeepercluster` | the Kubernetes objects, and `skipSTSReconcile` in the reconciler | `Reconcile`: finalizers and claims, config map, StatefulSet, services, status |
| Contour from informer to Envoy, `internal/contour`, `internal/grpc/xds.go` | `KubernetesCache`, timer and mutex of `HoldoffNotifier`, four caches with counts and waiters, a channel per stream | `OnAdd`, `OnUpdate`, `OnDelete`, `OnChange`, `Build`, `Update`/`notify`, `Register`, `stream` |

How they interact.

- *ChartMuseum.* A GET of `index.yaml` takes the cached entry of the tenant,
  lists the storage and on a difference regenerates the index, which calls the
  loader for the new packages. Uploads and deletes only change storage; an index
  request discovers what they did. Requests of one tenant meet in the two lists
  of channels and in the cache; all tenants meet in the `Limiter`. A regeneration
  leaves a goroutine that writes `index-cache.yaml` to storage, where the limit
  check of uploads counts it and the next start of the server reads it.
- *Prometheus.* Scrape and rule loops append samples to the storage, which passes
  them on to one queue manager per endpoint; rule groups also send alerts to the
  notifier. `reloadConfig` in `main.go` calls `ApplyConfig` of each of them in
  turn, the notifier before its discovery manager; the discovery manager then
  reports the Alertmanagers to the notifier's `Run` over `syncCh`.
- *ZooKeeper operator.* Users change a `ZookeeperCluster`, the operator its config
  map, StatefulSet, claims and status, and the controllers of Kubernetes the pods.
- *Contour.* Informers run the event handlers concurrently, those and a timer
  rebuild the caches, and a goroutine per stream answers an Envoy.

What is hard to test in them: locks that are released around calls to storage;
values compared before a lock and used after it; a cached structure that is
changed in place; goroutines that a failed call abandons; queues at their limit;
requests that arrive although they time out; replaced goroutines that are not
waited for; a counter shared by resources that have nothing to do with each
other; a copy of a resource that is outdated when it is used; notifications
between a read and the next wait. `PROJECT.json` lists the hazards at their
lines with the properties aimed at them, or a note on why there is none.

## Modules

| Module | Models |
|---|---|
| `BatchLoad` | what a caller of the loader relies on: a batch is settled object by object, or given up |
| `IndexLoader` | the loader: goroutines, unbuffered channel, context, `Limiter` |
| `IndexCache` | one tenant's index: cache entry, shared listing, shared regeneration, statefile, restart |
| `ChartUploads` | the requests that change storage |
| `SampleStream` | what remote write promises: a lossy first-in first-out stream per series |
| `RemoteWrite` | remote write with shards, reshards, reloads and shutdown |
| `Notifier` | the notification manager |
| `Discovery` | the discovery manager composed with the notification manager as its consumer |
| `ZookeeperOperator` | the reconcile loop, with the users and the part of Kubernetes it works with |
| `ContourXds` | the way of an object's revision from the informer to the Envoys |
| `*Proofs` | theorems and proofs about the module they are named after |
| `MCIndexCache`, `MCChartUploads`, `MCRemoteWrite` | symmetry sets and instance functions |

### IndexLoader and BatchLoad

`collector[c]`, `validCount[c]` and `index[c]` are the local state of call `c`,
`worker[<<c, o>>]` the place of the goroutine for object `o`, `limiter` the
number of items in the channel. The actions follow the goroutine: `Acquire`
(the send to `Limiter`), `CheckDone` (the select), `LoadObject` (the storage
call, the parse and `cancel()`), `ReceiveResult` (the rendezvous on `cvChan`,
the loop body of the collector and, when it ends the call, the deferred
`cancel`), `Release` (the deferred receive). A load has three outcomes: a
chart, an invalid package, which is logged and skipped, and an error. In
`BatchLoad` none of this appears. The refinement maps `settled` to the objects
whose goroutine has handed over a result that is not an error.

### IndexCache

Time is a count of the changes of storage; a package's `LastModified`, and the
`Created` of its entries, is the time of its last put, and `charts` holds the
puts whose content is a chart. What is put into a file of `Doubtful` need not be
one, so that a chart may be replaced by something that is none and the other way
round; the name of a file of `Misnamed` is not name and version of the chart in
it. A file holds the same chart each time it holds one, two files hold different
ones, and no file is named after the chart of another. An index gives for each
package the sequence of its entries (there may be several, since `AddEntry`
does not look for one). An entry is an index and a raw index: the `IndexFile`
and what `Raw` was rendered from. `pc[r]` is where request `r` is in
`getIndexFile`; a step ends at each call to storage or to the cache store and
each release of a lock. With the internal store `EntryOf(r)` is the shared
entry, which the worker changes package by package; with the external store
it is the request's own unmarshalled copy. `addIndexObjectsAsync` appears as
`AddIndexObject`, one package at a time in any order, which is what `BatchLoad`
allows and `IndexLoader` is proved to implement. `PutObject` and `DeleteObject`
are the rest of the world. `response[r]` is the answer of `r` until it serves
another request. `changedAt` and `busySince` are history variables for the
statement of freshness.

The comparison with the index is one step, although with the internal store
the code reads the entries while a worker may write them (a Go data race); the
outcomes of that race, a fatal error of the runtime among them, are not
modelled. `json` and `yaml` errors of the server's own data are not modelled
either, but for the statefile: a restart may find it as it was, or, if a save was
under way, unreadable, or readable with only some of the entries. One that ends
within an entry is left out, and so is one without entries, on which `AddEntry`
panics (`gin` recovers, and leaves the channel of the worker in
`RegeneratedIndexesChans`).

### ChartUploads

`storage[<<repo, file>>]` holds the uploader whose content is there, `Old` for
earlier content, or `Absent`. `req[u]` are the locals of the handler that serves
`u`. Each storage call of a handler is a step. `Begin` is the arrival of a
request; it also ages the content of the uploader's previous request to `Old`.
Input that is rejected before any call to storage (400, request too large)
changes nothing and is left out. A `PutObject` that fails writes nothing, as
with the object stores; deleting what is not there may fail, as with the local
filesystem, or succeed, as with the object stores. `SaveStatefile` is the
background save of the index. `FormRepos` are the repos to which multipart forms
are sent.

### RemoteWrite and SampleStream

The sets of shards are numbered: generation `g + 1` replaces `g`, whether a
reshard or a reload made it. `queue[x]`, `pending[x]` and `pc[x]` are the channel,
the batch and the place of `runShard` of shard `x`, `closed[g]` says that the
queues of `g` are closed. `updater` and `resharder` are the two loops,
`storage` is where `ApplyConfig` or `Close` is, holding `Storage.mtx`. `Append` is
one step, since all of it is under `shardsMtx`; `reshard` is three (swap under
the mutex, close the old queues, wait and start), `Stop` two, `sendSamplesWithBackoff`
one per attempt. An attempt may fail after the request has arrived. `received`
is a history variable with the samples in the order in which they arrive,
repetitions included.
The rates from which `calculateDesiredShards` computes are left open: any number
of shards may be wanted once a batch has been sent, which is the condition in
the code on which the order of `Start` depends. Timers may go off at any time.

`SampleStream` keeps for each series the sets of its sample numbers that are in
flight, lost, delivered and received. A batch takes no sample in flight without
the older ones of its series, so that none overtakes another. The mapping is in
`RemoteWrite` itself (`Stream`): in flight is what lies in a queue or a batch of
any generation, lost what was dropped or failed.

### Notifier

Alerts are numbered in the order in which `Send` takes them. `loop` is the place
of `Run`, `batch` what it has taken, `outstanding` the endpoints whose `sendOne`
has not ended. `sendAll` takes the endpoints known at its beginning; `Reload`
and `ApplyConfig` change them afterwards. `got` is the history of each endpoint.
An element of `Alertmanagers` is an endpoint of one `AlertmanagerConfig`: `sync`
removes duplicates within a configuration only, and an endpoint that is in two of
them is two elements, each of which gets every batch.

### Discovery

Providers are pairs of a generation (a call of `ApplyConfig`) and a set of
targets; a group is the number of changes its source has seen. The consumer is
the notification manager: `ConsumerApplyConfig` and `Reload` are its side of a
reload and of `syncCh`. Cancelled goroutines of old generations go on until they
look at their context, as in the code; a provider whose context is done may still
take an update that is ready, since its `select` may choose either.

### ZookeeperOperator

`rec` is the reconcile that is running, with the copy `inst` of the resource it
read and whether it is still the `latest`, in which case an `Update` succeeds.
Each function of `Reconcile` is a step (the claims and the finalizer two), which
may fail and end the reconcile. Clusters have the reclaim policy `Delete`.
`CreatePod` to `CollectGarbage` are Kubernetes, modelled from what the operator
relies on: ordered creation and deletion of pods, claims that outlive pods, the
protection of claims in use, garbage collection of owned objects. Reads are of
the current state; that the client reads from a cache is modelled only as far
as a copy may be outdated by the time it is used. `asked[c]` is a history variable:
the smallest size that the resource has had since a reconcile last read it.

### ContourXds

The contents of a cache give each object a revision: `2n` if the `n`-th change of
all put it there, `2n - 1` if that removed it, 0 if it has never been there. So an
absence has a revision too, and `NeverOlder` excludes that an Envoy gets an old
object after its removal, or an old absence after its return.
`kc` is the `KubernetesCache`, `dag[a]`
what a rebuild in progress has read, `cache[t]` the contents, count and waiters
of a served cache, `ch[s]` the channel of a stream. `OnUpdate` is two steps, since
`Remove` and `Insert` lock one after the other. The entries of an Endpoints object,
one for each of its `Ports`, are added and removed one by one before the streams are
told. A rebuild replaces the caches one
by one. A send to a full channel would block with the mutex held, and is
therefore not enabled. The four caches have the same code (`cluster.go`,
`listener.go`, `route.go`, `cond.go`) and share `Register` and `Notify`.

## Runs

| Run | Question | Instance |
|---|---|---|
| `loader` | limit, survival of an item, no stranded collector, complete return, refinement of `BatchLoad`, every call ends | 2 calls, 2 objects, 2 items |
| `cache` | types, fresh charts, no duplicates | external store, 2 requests, 2 packages (one that may be no chart, one misnamed), 2 changes, 1 failure, 1 restart, statefiles |
| `cache_live` | one listing, one regeneration, fresh regeneration, every request is answered | internal store, 2 requests, 2 packages as before, 2 changes, 1 failure |
| `cache_stale` | violated: fresh index | internal store, 1 request |
| `uploads` | overshoot of the limit; a failed form leaves nothing | 2 uploaders, 2 charts, forms to the root, single files to a tenant's repo with a limit of 1, 1 failure |
| `uploads_tenant_rollback` | violated: a failed form leaves nothing | 1 uploader, a tenant's repo |
| `remote_write` | types, order, accounting, flush on stop, no panic before `Close`, samples settled, stopping ends, refinement of `SampleStream` | 2 series, up to 2 shards, 3 generations, queues of 1, batches of 2, 2 attempts, 3 samples |
| `notifier` | wakeup, overflow, accounting, order, alerts taken, `Stop` ends `Run` | 2 Alertmanagers, queue of 2, batches of 1, 3 alerts in bursts of up to 3, 1 reload |
| `discovery` | no update lost, updates reach the consumer | 1 set, 2 changes, 2 configurations |
| `zookeeper` | only unwanted claims reclaimed, size reached, orphans reclaimed, deletion ends | 1 cluster of up to 3 members, 3 changes, 1 failure, 1 restart |
| `zookeeper_resize` | violated: size reached | 2 clusters, 1 change, no failure |
| `contour` | no blocking send, no missed update, nothing older, convergence | 1 object and an endpoint with 2 ports, 1 stream of two possible types, 3 changes |

Why the bounds are enough. *Loader*: two calls of two objects are the least in
which one call's failure takes an item that another needs and a second failure
can follow. *Cache*: two requests are a worker and one that joins, overtakes or
follows it; a request may run again and again, so that long histories are
covered by few processes. Two packages are one that is done and one at which a
worker fails, and two changes are a chart that is added and replaced by something
else, or deleted. *Uploads*: two uploaders at a limit of one reach the
bound of the overshoot exactly, and one failure is that of the second put of a
form. *Remote write*: three generations are a reshard or reload that follows
another, two samples of one series and a queue of one fill a queue and a batch,
and put one sample in each of two generations; the fingerprints put the series
together in one shard and apart in two. *Notifier*: a burst larger than the
queue, a queue that overflows with a batch under way, more than one batch.
*Discovery*: an old and a new configuration, and a change during each of the
two. *ZooKeeper*: the limit of the counter is 2 instead of 6, so that it is
reached, passed and reset within few reconciles; three changes are a resize down,
one up and a deletion. *Contour*: three changes are
add, update and delete of the object, one of them while the timer's function
rebuilds the caches or waits for the mutex, or ports that come and go while a
stream reads; objects meet only in the DAG and streams only in a list of waiters,
and the theorems are for any number of both.

Deadlock is checked in the runs of the cache and the uploads. In the others the system may
really stop: when the calls of the loader are over, when nothing is appended,
sent or changed any more, or when the process has been shut down.

What the violated runs show:

- `cache_stale`: the worker's index shares `IndexFile` with the cached entry. If
  it fails half way the entry has new entries and an old `Raw`; the next request
  finds no difference and serves the old `Raw` with status 200. A request that
  overlaps a regeneration falls into the same window without any failure.
  `FreshIndex` fails in two more ways, with either store, on which no run is spent:
  when something that is no chart replaces a package (`updateIndexObject` logs it,
  and every later answer has the entry of the old chart), and when a package is
  deleted whose file name is not name and version of its chart
  (`removeIndexObject` has nothing else to find the entry by).
- `uploads_tenant_rollback`: the rollback deletes by file name without the repo.
- `zookeeper_resize`: `skipSTSReconcile` is shared by all clusters, and every
  reconcile of a cluster that is not being scaled down resets it. Two clusters
  that are reconciled in turn keep each other from being scaled down for ever.

Behaviours that the models have and no run is spent on: an abandoned goroutine of
a failed load keeps its item of the `Limiter` (`SlotSurvives` bounds the damage:
the last item is never lost); with the internal store a request with a diff from
before a regeneration starts a second one and adds the package again; two uploads
of one package that pass the check together both get a 201; after `Close` a rule
that appends panics (`main.go` stops the rule manager after the storage); a
provider of an old configuration may put its last update into the new targets; a
ZooKeeper cluster of 3 whose status says that 2 members are ready and that is
resized to 2 loses the claim of the third while the StatefulSet still has 3. The
comment at line 560 of the controller says that the check "should make sure we do
not delete the PVCs before the STS has scaled down"; what it compares is a number
of ready members, not the size of the StatefulSet. `ReclaimedUnwanted` says what
it does give: no claim is deleted that every size since the reconcile began
includes.

The form handler does not call `checkStorageLimit`: `LimitOvershoot`, and the
theorem about it, are for repos to which no multipart forms are sent.

Freshness is stated relative to `busySince`, the last time at which the server
had no request: requests that join a listing may get one that is older than
they are, and a listing is never older than the busy period it is made in.
`FreshIndex` is what the documentation promises, and does not hold. `FreshCharts`
and `FreshRegeneration` say what does: packages that the worker skips (`Skipped`:
what is no chart, and what is gone under a misleading name) may be shown as they
were, all others are shown as they are, and nothing is shown that was not put into
storage, at that time, as a chart.

Every property of a passing run has a mutant of the model, kept beside the
definition it changes, that breaks it.

## Fairness

- `IndexLoader`: weak fairness of each goroutine's steps. The Go scheduler runs
  goroutines that can run, calls to storage return, and a channel serves its
  waiting senders in order. No call is assumed to be made.
- `IndexCache`: weak fairness of each request's steps, and strong fairness of
  `initCacheEntry`, which waits for `TenantCacheKeyLock`: Go's mutex hands itself
  to a goroutine that has waited for more than a millisecond. Neither new
  requests nor changes of storage are fair.
- `RemoteWrite`: weak fairness of the shards, of the two loops and of the rest of
  `ApplyConfig` and `Close`. `Store` has a timeout and attempts are counted, so
  each send ends. Nothing has to be appended, resharded, reloaded or closed.
- `Notifier`: weak fairness of `Run` and of the requests, which have a timeout;
  strong fairness of the case of `select` that returns: Go chooses at random among
  the cases that are ready.
- `Discovery`: weak fairness of the consumer and of the second half of a reload,
  strong fairness of providers and updaters, which compete for a mutex.
- `ZookeeperOperator`: weak fairness of the running reconcile and of Kubernetes;
  strong fairness of the start of a reconcile of each resource, since the work
  queue is a FIFO and every reconcile ends with `RequeueAfter` or an error, which
  requeues. Users, failures and restarts are not fair.
- `ContourXds`: weak fairness of rebuilds, streams and the timer, strong fairness
  of what waits for the mutex of `HoldoffNotifier`. An Envoy need not send a
  request nor hang up.

## Proofs

Every invariant and refinement that a passing run checks is also a theorem, the type
invariants of all modules included.

Assumptions: `ConstantsAssumption` of each module (finite sets where cardinalities
are taken, natural limits, Boolean options, marks that are not values) and
`NoEntryAssumption` of `IndexCache` (the mark for a missing cache entry is not an
entry). Three theorems have a hypothesis on the constants besides, and for each a
violated run, or a behaviour described above, shows that it cannot be dropped:
`ExternalChartsFresh` and `ExternalNoDuplicates` are about servers with an external
cache store (`cache_stale` violates the first with the internal one),
`RootRollbackComplete` about forms that are sent to the root only
(`uploads_tenant_rollback`).

`IndexLoaderProofs`. The invariant `IInv` joins the types, `CallInv` (what a
call has counted is what its goroutines have handed over), `WorkerInv` (what a
goroutine's place says of its result), `CancelInv` (a cancelled context of a
collecting call leaves an error on its way), `LimiterInv` (the channel holds as
many items as there are goroutines holding one) and `SlotSurvives`.
`LimitedParallelism` is not inductive without `LimiterInv`, nor
`CollectorNotStranded` without `CallInv` and `CancelInv`: the counter of the
collector says that something is outstanding, and the context says who will
send it. `SlotSurvives` rests on the fact that the receipt of an error dooms
the others of the call but leaves the sender, which holds an item, free to
release it. From `IInv` follow `TypeCorrect`, `ParallelismBounded`,
`SlotAlwaysSurvives`, `NeverStranded`, `ReturnsComplete` and
`ImplementsBatchLoad`, in which `AddIndexObjectsAsync` maps to `Begin`,
`ReceiveResult` to `Settle` or `Fail`, and all other steps to stuttering.

`IndexCacheProofs`. `SharingInv` is `OneListing` and `OneRegeneration` with the
domains of the program counters: the lists of channels are exactly the leader
and the waiting requests, and a list that is not empty has exactly one leader.
`ListingShared` and `RegenerationShared` hold for both kinds of store, with
failures and restarts.

`CacheTypes` needs more than the types. `TypesInv` adds that with the external store
an index has at most one entry for each package (`SoundIndex`, for the entry in the
store, in each request's copy, in the statefile and in the answers), and that then
what a worker has still to add is not in the index it adds to (`NewAdded`). This
gives `ExternalNoDuplicates`. Freshness is `FreshInv` on top of that. A package is
*steady* if it has not changed since the busy period of the server began. A listing
is right about steady packages (`ListedRight`); while a worker is at its diff, what
is left of that makes the index right for them, or they are skipped (`DiffRight`,
with `Prepared` for one package), and when the diff is used up the index is right
(`WorkedRight`). With the external store a copy that is not being worked on has been
rendered as it is (`Rendered`), which fails for the internal store and is the step at
which `cache_stale` goes wrong. `AllCharts` is about what is shown of skipped
packages: every entry of every index, in whatever place, was put into storage as a
chart. `RegeneratedIndexFresh` holds for both kinds of store.

`ChartUploadsProofs`. `UploadTypeCorrect` is inductive. `LimitHolds` is proved
with the files in storage, those claimed by uploads past the check, and the
statefile as one set: an upload that passes the check finds fewer than the limit
in storage, and the other uploads in flight claim at most one file each, which
needs that a request outside the form handler has one file and that no form is
for the repo. `RootRollbackComplete` is proved with `Undoable`: a request that is
being served has no answer yet, and what it has written are files that its
rollback will delete; the rollback deletes under the name without the repo, which
for the root is the file itself.

`RemoteWriteProofs`. `GenerationsInTurn`, `StopFlushesAll` and `NoPanicBeforeClose`
follow from an account of who may send: generations are made in turn (`InTurn`),
what is not made is off and empty (`Unmade`), a shard that returns has emptied its
closed queue (`Finished`), replaced generations are done but for the one a
reshard waits for (`OldDone`), and then, as in a manager that is being started,
the current one is off (`CurrentOff`). `StartFresh` says why a reshard cannot
come between the two halves of `Start`: a manager that is starting has sent nothing.
`Loops` says where the two loops, `ApplyConfig` and `Close` can be at the same time.

A second invariant, `OInv`, follows the samples. For it a step has one of five effects
(`Effect`): it leaves the samples where they are, takes one into the shard of its
series in the current generation, drops one, sends a batch once more, or settles a
batch. The samples of a series are in order within a shard, batch before queue, and
over the generations (`Ordered`), each in the shard that its fingerprint selects
(`Home`), and none is newer than the last one appended (`Numbered`). `Repeats` is
what makes the order of arrival inductive under retries: what is newer than a
sample still in a shard has not arrived before it. That a newer generation has
sent nothing while an older one holds samples comes from the first invariant.
`DeliveredInOrder`, `EverySampleAccounted` and `TypesAndBounds` (with the capacities of
queues and batches) follow, and `ImplementsStream`, in which `Takes`, `Drops`,
`Sends` and `Settles` are the four actions of `SampleStream`.

`NotifierProofs`. `IInv` adds to the five properties the shape of the queue (the
last numbers up to `sent`), that the batch lies before it and is held only
between `nextBatch` and the end of `sendAll`, and that what an endpoint got lies
before the batch unless it is outstanding.

`DiscoveryProofs`. `NoLostUpdate` becomes inductive with: at most one updater
sends, and it holds the mutex (`OneSender`); what it sends is `targets` or a
provider is about to set the flag (`SendingCurrent`), and likewise for the map
that the consumer has received (`ReceivedCurrent`); nothing runs for generations
to come (`NotStarted`).

`ZookeeperOperatorProofs`. `ReclaimedUnwanted` is about steps: only the two cleanups
delete claims (`OnlyCleanupDeletes`). It needs that the copy is of the cluster being
reconciled (`CopyOfOne`), that its size is none below `asked`, however the users have
changed the resource meanwhile (`CopyAsked`), and that a reconcile deletes all claims
only of a resource that is on its way out (`CopyLeaving`).

`ContourXdsProofs`. `StreamInv` is about channels: waiters have room, counts come
from the cache, and the last response of a stream is current or the stream will
be told. It gives `SendsNeverBlock` and `NothingMissed`. `PipelineInv` says that
one rebuild runs at a time (`OneUpdate`) and that for each object the revision does
not get newer on the way from the object over `KubernetesCache`, DAG and cache to
the response. It gives `ResponsesNeverOlder`.

Only model-checked: the liveness properties, which rest on fairness and are out of
the prover's reach.

## Not modelled

The modules stand for about one line in a hundred of the code in the tree, and
for the larger part of the files they are about (nearly all of
`queue_manager.go`, `notifier.go`'s manager, `manager.go`'s manager, the
operator's controller, Contour's notification path, `mt/cache.go`). The rest:

- Generated code (API types, deep copies, protocol buffers, OpenAPI), which is
  more than a fifth of the Go code, and code that builds or formats data
  (Kubernetes objects, Envoy configuration, metrics): no state of its own.
- PromQL and the functions over floating point numbers, which TLA+ has none of.
- Prometheus' scrape loops and rule groups. Their state machines (a loop per target,
  an alert that is pending, firing or resolved) are within reach and come next.
- Panics of ChartMuseum's worker, and statefiles torn within an entry.
- ChartMuseum's file names (`repo/chart.go`), of which the models keep whether they
  are those of the chart; packages that hold the same chart under two names; the local backend's read and write,
  which are not atomic, and several tenants in `IndexCache` with the unlocked
  reads of the map of tenants.
- Contour's filter of resource names, and the status of `IngressRoute`s.
- The operator's other reclaim policy (`Retain`), under which `reconcileFinalizers`
  does nothing, and stale reads from the client's cache.
- The operators and controllers for MySQL, RocketMQ, Kafka, NATS, Kong,
  Elasticsearch, Prometheus and VictoriaMetrics, the exporters and the backup
  tools, gogs: third-party copies that were surveyed only. What most of them
  do is to call programs and services outside the tree, or to build objects.
- Dockerfiles, charts and YAML: declarative data.

## Plan

Done: the ChartMuseum modules first, then remote write with its abstract
stream, the notifier, discovery composed with the notifier, the ZooKeeper
operator and Contour, each with its proofs.

Next, in this order:

1. Scrape pools and their loops as a second consumer in `Discovery`.
2. The state machine of an alerting rule in front of `Notifier`.
3. Stale reads of the operator's client.
