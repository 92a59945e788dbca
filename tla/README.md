# Kanea: TLA+ models and proofs

Kanea is a single-node container platform: a daemon (`kanead`) keeps declared
services in an embedded Store, converges containers towards them, ships its
state to a backup bucket, builds and updates images, notifies, invokes functions,
and fronts the services with an edge proxy and an eBPF datapath. These modules
model the parts whose correctness depends on the order of many small steps, from
the **reconcile loop** and the **replication** of the state to the **service
record with all its writers**, the **event path**, the **build pipeline**, and the
node's keepers of state: registry, datapath, audit trail, limits, connections.

To check: `tlc -config X.cfg M` for a run of PROJECT.json, `tlapm M.tla` for the
modules that end in `Proofs`.

## 1. Inventory

| Part | State it keeps | Operations | Talks to | What is hard |
|---|---|---|---|---|
| Store (`internal/store`) | bbolt file: records per kind, monotonic index, change log | `Apply` (batch, one index), `Get`/`List`, `Changes`, `PruneChanges`, snapshot copy | everybody | a batch is several log entries with one index; reads are limited |
| Replication (`internal/backup`) | cursor `shipped`; objects in the sink | `Run`, `ShipOnce`, `Snapshot`, `Prune`, `Resume` | Store, sink, API | crashes between upload, cursor and prune; puts that land although they failed; two goroutines and one cursor |
| Restore (`internal/backup/restore.go`, `stage.go`, `cmd/kanea/restore_boot.go`) | staged request on disk; the state file | `Stage`, `Restore`, replay, boot decision | sink, Store | failure after the old state is gone; histories that a rollback abandons |
| Reconciler (`internal/reconciler`) | alloc records (Store); witnessed set (memory) | `Reconcile`: load, witness, probe, observe, plan, apply | Store, runtime, network, breaker, notify | every call may fail or be the last before a crash; containers change during a pass |
| Circuit breaker (`internal/reconciler/breaker.go`) | failure times, trip time, trip count; a record in the Store | `RecordFailure`, `Allow`, `Reset`, `Restore`, persist | reconciler, scaling loop, API | persisted outside the lock; restart during a cooldown |
| Service record (Store, written by API, pipelines, scaling, updates) | spec, count, pins, update state, generation | apply, scale, restart, delete, sync, deploy | reconciler | eight writers: some compare and set, some put blindly |
| Scaling (`internal/scaling`, `cmd/kanea/scaling.go`) | samples, stabilization history, last change | `Evaluate`, `Applied`, `Once`, `SetCount` | service record, breaker, metrics | a window over restarts and metric gaps; decisions applied to a later version |
| Automatic updates (`internal/autoupdate`) | pins and times on the service record | `pollIfDue`, `settle` | service record, registries | revert deadline against poll interval |
| Image GC (`internal/imagegc`) | none | `Once` | runtime, Store | the set in use is stale when a removal happens |
| Notifications (`internal/notify`) | bounded queue, pending digests, send times | `Publish`, `route`, `flush`, `SetRoutes`, retries | everybody, channels, functions | losses must be counted; one slow channel blocks all |
| Functions (`internal/functions`) | queue, trigger table, cron deadlines | `Record`, `reload`, `fireDueCrons`, `invoke` | notify, service addresses | reload racing a due timer; functions that notify themselves |
| VIPs (`internal/reconciler/vip.go`) | address records | `Sync` | Store, datapath, functions | address reuse within one pass; exhausted pools |
| Routes (`internal/reconciler/routes.go`), edge feed (`internal/edge` `watch.go`, `listeners.go`) | published file; compiled table, listeners | publish, `poll`, `Apply`, `Reconfigure` | reconciler, edge | a pass that sees less than there is; a port that cannot be bound |
| Edge relays (`internal/edge/tcp.go`, `udp.go`) | sessions, connections, slots | accept, forward, janitor, update, close | edge feed | goroutines that end in any order under shared limits |
| Storage (`internal/storage`) | mounts and backoffs | `Ensure`, `Release`, `superviseOnce`, `Prune` | OS | supervision beside release |
| GitOps (`internal/gitops`, `cmd/kanea/pipelines.go`) | run records, in-memory queue | sync, `Submit`, `Run`, `drain`, `SweepOrphans`, webhook | Store, builder | concurrent syncs; crash or stop with queued and running runs |
| Registry (`internal/registry`) | blobs, uploads, markers, tags | push, prune, sweep | builds, pulls | crash inside a push; sweep against references |
| Datapath (`internal/datapath`) | addresses, identities, links, BPF maps | attach, detach, repair, `lb` updates, `Init` | kernel | order of map writes; what a restart rebuilds |
| Audit trail (`internal/audit`) | hash chain | `Record`, `Prune`, `Verify` | API | clock steps; pruning a chain |
| Rate limiter (`internal/ratelimit`) | buckets | `Allow`, `Sweep` | API, edge | eviction at the limit, changed limits |
| Certificates (`internal/acme`, `internal/certsource`, `cmd/kanea/certs.go`) | certificates and a CA in the Store; the publisher's memory; the published bundle | `Sync`, `Ensure`, `Changed`, `Present`, `CleanUp`, `SetCertificates`, `SetAuth` | CA, Store, reconciler, edge | one source or request of several failing; several writers of one file; restarts in the middle of an issuance |
| Authentication | sessions and tokens | | API, edge | |
| API, MCP, CLI, dashboard, job spec, provisioning, secrets, network DNS | little of their own | | | sequential, or I/O |

PROJECT.json lists all of them under `components`, with the reason where a part
is not modelled, and under `hazards` what is hard to test, at its line.

What makes the modelled parts correct:

- *Replication*: every change of the node can be found in the log, a segment or
  an archive; a restore is never older than it says; the newest archive
  restores; what is written reaches the bucket in the end; the daemon never runs
  on what a failed restore left.
- *Reconciler*: a rollout never has more than `max_parallel` allocs down; init
  steps run one at a time and before the task; the restart budget bounds the
  crashes; outages are not charged to it; the declared service comes up.
- *Breaker*: an open breaker stays open over restarts; no failure trips it twice.
- *Service record*: a partial update leaves other writers' fields alone; a count
  changes at most once per cooldown and shrinks only after a window it watched;
  a bad digest is reverted to one seen healthy, and parked; no image in use is
  collected.
- *Events*: every event is pending, sent or counted; every digest leaves;
  functions neither feed themselves nor stand still; schedules fire exactly at
  the times they mean; two services never share an address; a volume comes back
  after an outage; the edge comes to serve what is declared, and a pass that
  sees nothing takes nothing away.
- *Pipeline*: a run's record follows its life; no accepted run is forgotten while
  the daemon lives, nor across a restart; a deleted project stays deleted; a push
  is synced.
- *Certificates*: a failure takes no certificate away that works; every route
  comes to be served with a certificate that is valid and the one it asked for.
- *Node*: a tag can be pulled; one address, one alloc; a
  connect never meets a torn backend set; the audit chain verifies; a limit is
  not forgotten by eviction; connections are counted and end with their port.

## 2. Modules

| Module | Models | Code |
|---|---|---|
| `ChangeLog` | the Store's change log, as operators on a value | `store/bbolt.go` |
| `Replication` (extends `ChangeLog`) | loop, snapshots, sink, restore, boot | `backup/*.go`, `cmd/kanea/restore_boot.go`, `cmd/kanea/backup.go` |
| `AllocLifecycle` | what the reconciler promises of its alloc records (abstract) | |
| `Reconciler` (instantiates `AllocLifecycle`) | one service's reconcile pass | `reconciler/{reconcile,plan,init,types}.go`, and what `runtime/containerd.go` reports |
| `Breaker` | breaker and its record | `reconciler/breaker.go`, `cmd/kanea/breaker_state.go` |
| `ServiceRecord` | the record of one service and its writers | `api/server.go`, `cmd/kanea/{scaling,pipelines}.go` |
| `Autoscaler`, `ImageWatcher` (extend `ServiceRecord`) | the two controllers that write it on their own, and the image collector | `scaling/*.go`; `autoupdate/*.go`, `imagegc/imagegc.go` |
| `ServiceWriters` (extends both) | all writers of the record at once | |
| `Dispatcher` | notifications | `notify/dispatch.go` |
| `Frontends` | addresses of services | `reconciler/vip.go` |
| `Invoker` (extends `Dispatcher`, `Frontends`) | functions, and the signals that reload them | `functions/invoker.go`, `reconciler/reconcile.go` |
| `Cron` | expressions and the next fire | `functions/cron` |
| `VolumeManager` | one network volume | `storage/manager.go` |
| `EdgeFeed` | from declared services to what the edge serves | `reconciler/routes.go`, `edge/{watch,listeners,server}.go` |
| `RunLifecycle` | what the pipeline promises of its run records (abstract) | |
| `Pipeline` (instantiates `RunLifecycle`) | syncs, queue, worker, shutdown, crash, boot | `gitops/*.go`, `cmd/kanea/pipelines.go` |
| `Certificates` | the loop over the sources, the publisher, the edge's keyring | `cmd/kanea/certs.go`, `acme/{acme,plan}.go`, `certsource/*.go` |
| `Registry` | push, retention, sweep, crash | `registry/*.go` |
| `Attach` | addresses, identities and links of allocs | `datapath/{attach,ipam,datapath}.go` |
| `LoadBalancer` | frontends in the kernel's maps | `datapath/lb.go`, `dpmap` |
| `AuditLog`, `RateLimiter` | the chain; the buckets | `audit/audit.go`; `ratelimit/ratelimit.go` |
| `Relay` | udp sessions and tcp connections of published ports | `edge/{udp,tcp,listeners}.go` |
| `MC*` | what TLC loads: bounds, and the composition of parts | |
| `BreakerProofs`, `ReplicationProofs`, `ReconcilerProofs`, `ServiceProofs`, `DeliveryProofs` (pipeline, certificates), `CronProofs`, `NetworkProofs` (dispatcher, frontends, relay), `NodeProofs` (audit log, registry, attach, rate limiter, load balancer) | theorems | |

`MCService`, `MCEvents`, `MCDelivery` and `MCNode` hold several parts. Each has a variable
`focus`, chosen at the start and never changed, that says which part a behaviour
is about: parts that share no state add their state spaces up and do not
multiply them. Parts that do meet are composed for real and run together: the
scaler, the watcher or the collector with the record's other writers; the
dispatcher with the invoker as its sink, which publishes back into it and reads
the frontends; the udp and tcp relays with their common limit; the projecting
pass with the edge that polls; the certificate loop with the reconciler that
writes the same file and the edge that answers the CA's challenge.

Definitions marked *(a bug: ...)* in the modules, which PROJECT.json names under
`mutants`, are wrong variants of the definition that follows them. They are
used by nothing; replacing the definition by the variant must break the property
it is listed with.

### Replication and ChangeLog

One state file is a record `[index, data, log, past]`; `past` is history (the
data after each index). `Apply` is one transaction with one index for the whole
batch, and writes a log entry for each record it really changes; `Changes`
returns the first *limit* entries above a cursor. A value is the number of the
`Apply` that wrote it, so no two writes are confused. Archive ids are numbered by
the clock; the code's resolution is a second, and two archives in one second
would share an id (not modelled).

| Action | Code |
|---|---|
| `Write` | `Apply` by any component |
| `ShipRead`, `ShipPut`, `ShipCursor`, `ShipPrune` | the four steps of `ShipOnce`; `ShipPut` may fail, or fail and have landed |
| `SnapBegin` .. `SnapPruneSegs` | `Snapshot` of the loop or of an API call: index, copy, upload, manifest, cursor, deletion of archives past the retention (two objects each), segments below the oldest |
| `Stage`, `LoseDisk`, `Crash`, `Boot` | the operator and the daemon's life |
| `RestoreDone`, `RestoreFails`, `ReplayFails` | `restoreAtStart`, ending in three ways |

Bounds: `MaxWrites`, `MaxArchives`, `MaxFaults`, `MaxRestores`. Three archives
with a retention of two make a prune happen; three writes make a change fall
before, between and after two snapshots.

### Reconciler

One service with up to `MaxCount` allocs, the leader with `Steps` init steps. A
spec is a number that stands for its hash. Every call to the runtime and every
record written is a step; containers exit between any two. A pass reads
deadlines and the declared service only when it begins, so the clock and the
operator act between passes here, which gives the same behaviours. Init
container states are what the runtime reports: a container without a task
(after a reboot, or a crash between its creation and its task) is *stopped,
exit code 0*, which is "done" to `initProgress`. `ran` records what really
exited 0.

| Action | Code |
|---|---|
| `Begin` | `Reconcile` up to the plan: load, `witness`, probe, `Observe`, `Plan` (`PlanAlloc`, `PlanInit`, `PlanRestart`, `ServiceInitDone`, `Unavailable`/`Fits` = `replaceBudget`, `Reaped` = `initContainersToReap`) |
| `PassAborts` | the observations cannot be written |
| `Teardown`, `TeardownFails` | `teardown`, whole or part of the way |
| `StartContainer`, `StartFails`, `AlreadyExists` | `create`, `startInitStep`, `ActionStart`, up to the started container |
| `WriteRecord`, `WriteFails`, `Forget` | the record after it; `remove` |
| `Reap`, `EndPass` | `ActionRemoveInit`; the end of the pass |
| `Exit`, `Odd`, `StepDone`, `StepFails` | the containers |
| `Deploy`, `Scale`, `Delete`, `Dependency*` | the operator, the services this one needs |
| `BackoffEnds`, `Settles`, `Overdue` | time |
| `Crash`, `CrashCreating`, `Reboot` | the daemon and the node |

Assumptions: another declared service keeps the project listed; a deploy may pick
any spec, an earlier one too. The network, volumes and secrets of `create` are
one failing call. Probes answer either way. Bounds: `MaxTrouble` counts failed
calls and deaths of the daemon together, `MaxExits` exits and unexpected states,
`MaxEdits` edits and failures of a dependency. Two allocs are the least with a
leader and a follower; two specs the least with a rollout and a rollback.

`AllocLifecycle` knows nothing of passes, containers, plans, steps or probes: an
alloc is *absent*, *starting*, *up*, *down* (backing off) or *failed*, and keeps a
ledger of the attempts it has spent. While it keeps its record and its spec the ledger only
grows, by one; an alloc is given up only when its attempts are used up; while the
service is declared, a record that is given up or has none left is not forgotten,
and only another spec begins a new ledger. `Reconciler!KeepsLedger` refines it
(`Life` reads the records). `IsFound`, a given-up alloc that is up again, is the
one move that takes a failed call or a death of the daemon; section 5 has how.

### Breaker

Two callers, the reconcile goroutine and an operator's reset, release the mutex
before they persist, so `Persist(c)` is a step of its own that may land, fail, or
be lost to a `Crash`. Time is a number; 0 is the zero time. The cooldown is
assumed to be longer than the window, as in the daemon's defaults and as the
comment in `Restore` says.

### ServiceRecord, Autoscaler, ImageWatcher

One service's record and, for each writer, what it read and wants to write. A
write is two steps, because every caller reads, copies and then writes:
`Sends` and `Commits`, with the index that was read where the code passes it to
the Store (`CasWriters`), without it where it does not. `Owned` says which fields
a partial update may touch.

| Action | Code |
|---|---|
| `ApplyServices`, `HandleScale`, `HandleRestart`, `HandleDeleteService` | the API's routes |
| `SyncApply`, `Deploy` | a git sync; a build's release |
| `Answered`, `Dies` | a conflict or an error goes back to the caller; the daemon dies |
| `Evaluate`, `Forget`, `SetCountRead`, `SetCountWrite`, `SetCountForgets`, `ScalerRestarts` | one turn of the scaling loop; the evaluator with its window, cooldown and step caps; the write of the count and of the change's time |
| `Rolls` | the reconciler rolls one alloc, which may or may not become healthy |
| `Sweep`, `SweepWrite`, `WatcherRestarts` | the watcher: settle, revert or poll, then its write |
| `GcServices`, `GcAllocs`, `GcSweep` | the collector's two reads and its removals |
| `TagMoves`, `ClockTicks` | a push to the registry; time |

Bounds: two tags and two digests, one of which never becomes healthy, are the
least with an update and its rollback; a window and a cooldown of two ticks each
and four ticks of time let both end and begin anew; a poll interval of three is
longer than the revert deadline, as in the daemon; ratios below, near and
above the target. `MaxEdits` and `MaxMoves` bound operators and pushes.

### Dispatcher, Invoker, Frontends, Cron, VolumeManager, EdgeFeed

Every goroutine is an actor. The dispatcher's `Run` has one place in its code
(`Visit`, `Attempt` and `Finish` are its retries and flushes, during which the
queue fills); publishers, reloads and ticks act at any time. The invoker's
goroutine is the same; its invocations run beside it.

| Action | Code |
|---|---|
| `Publish`, `SetRoutes`, `Cancel`, `Tick` | callers of the dispatcher; its context; time |
| `TakeEvent`, `TakeReload`, `TakeTick`, `TakeDone` | the cases of `Run`'s select |
| `Visit`, `Attempt`, `Finish` | `flush`/`flushAll`, one attempt of `deliver`, the end of a pass |
| `Record` | the sink: the invoker's bounded queue |
| `ChangeDesired`, `FanOut`, `invokerWaker`, `ReconcilerPass` | an edit and the signals that carry it on; a pass that gives out addresses |
| `DispatchEvent`, `Reload`, `FireDueCrons`, `ArmCron`, `InvokeAsync` | the invoker's select, its timer, starting an invocation |
| `InvokeOk`, `InvokeRetry`, `InvokeFails` | an invocation; the last publishes an event |
| `Sync`, `Reconfigure` | the address allocator; a restart with other pools |
| `FireCron` | `fireDueCrons` of one schedule: a fire is seen, on time or late (`MaxLate`), and `Next` asked from there; `Parse`, `NextFire` and the reference `FirstMeant` are operators of `Cron` |
| `Ensure`, `Release`, `BackoffEnds`, `Snapshot`, `Check`, `Remount`, `ProbeReturns`, `ServerDown`, `ServerUp` | the volume table, its supervisor with its unlocked probe, the file server |
| `EdgePass`, `BlindPass`, `Poll`, `EdgeRestarts`, `DeclareEdge`, `Damage`, `PortTaken`, `PortFreed` | the pass that publishes, and one that could not read or assign; the edge's poll; operators, the file and other programs |

Bounds: a queue of one and a batch of two overflow with four events; one channel
of the node with a limit and one of a project without; three services for an
address pool of two; a calendar of two months of two and three days, two hours
of two minutes and weeks of two days, on which a schedule with each kind of item
is followed past both months; two volume tables' entries, so that an old one is
held by a probe while the new one is used; two edge services that claim one
domain and one port, which change between tcp and udp.

### Pipeline and RunLifecycle

A commit is a number and an image is the commit it was built from. Two syncs (the
poll loop's and a request's) run at the same time, each a read of the project, a
fetch, an apply, a record, and the submission of a run per service.

| Action | Code |
|---|---|
| `SyncFetch`, `SyncApply`, `SyncRecord`, `SyncAbort` | `service.go` `Sync` and `runSync` in four steps |
| `Trigger`, `CreateRun`, `Enqueue`, `SubmitDone` | `Submit`: the record is written before the queue has the run; a full queue rejects it |
| `Take`, `Start`, `Build`, `Deploy`, `Finish`, `Fail` | the worker |
| `Stop`, `Abandon`, `Drain`, `Exit`, `Crash`, `Boot` | shutdown with its drain, crash, `SweepOrphans` at the start |
| `Push`, `EditProject`, `DeleteProject` | the world |

`RunLifecycle` knows nothing of queue, worker, process or restart: a run is
queued, runs alone, may release while it runs, and ends once; releases of a
service never go back. `Implements` is its specification under the mapping
`Lifecycle` (record states and released commits).

### Certificates

A pass asks the sources in turn (the CA, the operator's files, this node's own
CA) for what the declared routes need, and each hands what it has to the
publisher, which merges all into one file. A certificate is the names it covers
and the time it was issued at; a unit of time is the interval between two checks
of the loop, in which passes and polls of the edge take no time. The CA, the
renewal tool, the operator and applies are the environment.

| Action | Code |
|---|---|
| `PassBegins` (with `Wakes`, `certRequests`, `PlanRequests`), `Load` | `runCertificates`' select and timers; `syncCertificates` and each source's read of what it has |
| `AcmeKeeps`, `ObtainFails`, `ObtainDns`, `Save` | `Sync`, one request at a time |
| `Present`, `Verify`, `Validate`, `CleanUp` | the HTTP-01 challenge: written for the edge, seen at the edge, looked at by the CA, withdrawn |
| `ProvidedEnsure`, `SelfSignedEnsure`, `Publish` | the other sources; `SetCertificates` (`write`, `merged`) |
| `SetAuth` | the reconciler's write of the same file |
| `EdgeLoads`, `RingRestarts`, `CertRestarts`, `Declare`, `Rewrite`, `CertTick` | the edge's watcher; restarts; the environment |

`CertFaults` names the kinds of failure. Bounds: two routes, one with a generated
name, so that a second one turns it into a wildcard; certificates that live two
units, followed for two, so that a renewal is due, may fail, and is tried again
with the old one expired; one failure or restart and one edit, at any point but
in the last unit, in which everything recovers.

### Registry, Attach, LoadBalancer, AuditLog, RateLimiter, Relay

| Action | Code |
|---|---|
| `BeginPush`, `MountBlob`, `StartUpload`, `PutUpload`, `AbortPush`, `PutManifest`, `PutMarker`, `PutTag`, `SweepAfterPush`, `Restart`, `Age` | a push's requests, the writes inside the last, the sweep before its answer and at boot, age of sessions |
| `Adopt`, `AttachDone`, `AttachRefused`, `AttachFails`, `AttachCrashes`, `Detach`, `RepairIdentity`, `DaemonDies`, `DatapathInit` | `Attach` ending after each step of its plumbing; teardown; what a restart finds and rebuilds |
| `BeginSync`, `Turn`, `PutBackend`, `CommitService`, `DeleteService`, `DeleteBackend`, `Caches`, `WriteFails`, `LbCrash` | a pass, frontend by frontend, one map write at a time, and the daemon's cache of what it wrote |
| `AuditRecord`, `PruneOnce`, `Reopen` | an entry under any clock reading, one batch of a prune, a restart |
| `Allow`, `Relimit`, `SweepIdle`, `Ticks` | the buckets, beside one that is never dropped |
| `OpenSession`, `Register`, `SendFails`, `ReplyEnds`, `ReplyReleases`, `ExpireIdle`, `CloseSession` | a udp session: reader, reply loop, janitor |
| `Accept`, `Take`, `Acquire`, `RelayEnds`, `Done`, `CloseConn` | a tcp connection |
| `UpdateUDP`, `UpdateTCP`, `WithdrawUDP`, `WithdrawTCP` | configurations and the end of a port |

What holds one lock and makes no call that can fail half-way is one step; where
the kernel, the disk or another goroutine can see the middle, each write is a
step. `MCNode` declares the relay's backends, its connections and the udp clients of one
source symmetric. Bounds: two manifests that share a layer, two repositories and two
tags, retention of one; two addresses for three allocs of two services; two
frontends with sets of none, one and two backends in two generations; three clients for two buckets; three udp
clients, two of one source, two tcp connections, and two places on the node.

## 3. Runs

| Run | Properties | Shows |
|---|---|---|
| `replication` | `NoChangeLost`, `RestoreNotStale`, `NewestRestores`, `EventuallyShipped` | the loop with its snapshots, a fault or a crash at any point; every write reaches the sink |
| `repl_staged` | `NoBootOnPartial` | a staged restore that fails anywhere, with late landings and empty batches |
| `reconciler` | `RollingBound`, `StepsBeforeTask`, `BudgetHolds`, `OutagesAreFree` | a checked service with an init step under two edits and one fault or death at any point |
| `reconciler_live` | `OneMigration`, `ConvergesOrStalls` | two init steps, a dependency, an edit and an exit; it comes up, or is in the one circle of waits of section 5 |
| `service` | `OnlyOwnFields`, `CooldownHolds`, `ShrinkWatched`, `NoBadRollback`, `RevertParks`, `UsedSurvives`; `OpenSurvivesRestart`, `NoDoubleCount` | the record under its writers with each controller in turn; the breaker with writes in either order and crashes |
| `events` | `Accounted`, `PendingLeaves`; `StartsAll`; `VipsUnique`; `NextExact`; `VolumeBack`; `EdgeFollows` | dispatcher, functions, addresses, schedules, a volume, the edge |
| `delivery` | `RunsHeld`, `Implements`, `NoResurrection`, `PushSynced`; `WorkingKept`, `CertsServed` | two syncs, a full queue, an edit, a delete, a stop or a crash; certificates from three sources through failures of the CA, the Store, the files, the edge and the daemon |
| `node` | `Pullable`; `OneAddress`; `SetsWhole`, `PassConverges`; `ChainUnbroken`; `NoFreeTokens`; `SlotsCounted`, `NoneOutlives` | the six keepers of state, each through its failures |
| `repl_cut_batch` (violated) | `NoChangeLost` | the read limit cuts a batch; the rest is pruned unshipped |
| `rec_wedge` (violated) | `Converges` | one failed call or crash leaves a container that no later pass gets running |
| `attach_crash` (violated) | `AttachComplete` | a crash inside an attach; the retry takes the half-made link for a finished one |
| `edge_blind` (violated) | `RoutesKept` | one pass that cannot read the attachments withdraws every route and published port |

`FiresOncePerTick` (a schedule fires once for each of its ticks) and `VipsStay` (a
service keeps its address) are further properties of `Invoker` and `Frontends`
that hold with `Events.cfg`, and the second is proved; `TypeOK` of the core modules holds with their
configurations and is proved for the breaker.

Deadlock is checked for the reconciler: a pass can always begin. The other
models stop at their bounds on writes, time, events or failures.

**Fairness.**

- Replication: the loop keeps taking its steps while the daemon is up, an API
  call once begun runs on, the service manager restarts the daemon; the operator,
  faults and crashes are not fair.
- Reconciler: weak fairness of the pass (the loop is driven by a ticker and its
  calls return); strong fairness of the deadlines and of the dependency coming
  up, because in the model they may only act between passes, while real time
  passes during them as well. Exits, edits, faults and deaths are not fair, and
  bounded.
- Dispatcher: time passes, `Run` finishes what it is in, and takes a tick that is
  ready again and again (strong: Go's select chooses among ready cases at
  random). Its sends have a timeout, so an attempt returns.
- Functions: signals are passed on, an invocation returns (it has a timeout), and
  the goroutine takes a wake that stays ready. Nothing is assumed of operators,
  publishers or passes.
- Volumes: the reconciler and the supervisor are driven by tickers; a backoff
  ends; the driver gives up on a probe. The server's return is not fair:
  `VolumeBack` supposes that it stays up.
- Edge: passes that see everything happen, and the edge polls, on their tickers.
  Blind passes, damage, restarts and other programs are not fair, and bounded.
- Pipeline: the worker, both syncs and the daemon's exit and boot go on; pushes,
  failures, edits and stops are not fair.
- Certificates: the loop goes on (its calls have timeouts) and the edge polls;
  time passes. Failures, restarts and edits are not fair, and bounded.

## 4. Proofs

Each theorem is about every value of the constants that meets the assumptions of
the module that declares them. Numeric bounds that TLC needs (`Max...`) stay in
the guards but may be any number. Where a hypothesis is named below, section 5
has the behaviour without it.

| Module | Theorem | Property | Hypothesis |
|---|---|---|---|
| `BreakerProofs` | `BreakerTypeOK`, `TripSurvivesRestart`, `TripsCountFreshFailures` | `TypeOK`, `OpenSurvivesRestart`, `NoDoubleCount` | Cooldown > Window, in `Breaker` |
| `ReplicationProofs` | `ReplicationLosesNothing`, `CursorTellsTheTruth` | `NoChangeLost`, every change up to the cursor is in the sink | `Alone` |
| | `RestoreIsNotStale` | `RestoreNotStale` | `Forward` |
| | `NewestAlwaysRestores`, `OneFaultStillRestores` | `NewestRestores` | `Gapless`; boots that list the sink, or one fault |
| | `PartialIsNotBooted` | `NoBootOnPartial` | no `AutoRestore` |
| `ReconcilerProofs` | `RolloutsAreBounded`, `CrashesAreBounded`, `OutagesCostNothing` | `RollingBound`, `BudgetHolds`, `OutagesAreFree` | |
| | `StepsFinishFirst` | `StepsBeforeTask` | until the second trouble |
| | `StepsRunAlone` | `OneMigration` | until the first trouble |
| | `RecordsKeepTheLedger` | `KeepsLedger`: it implements `AllocLifecycle` | |
| `ServiceProofs` | `RollbackTargetsWorked`, `RevertsStayParked` | `NoBadRollback`, `RevertParks` | |
| | `PartialUpdatesKeepTheRest`, `ChangesAreApart`, `ShrinksAreWatched`, `UsedImagesSurvive` | `OnlyOwnFields`, `CooldownHolds`, `ShrinkWatched`, `UsedSurvives` | |
| `DeliveryProofs` | `PipelineImplements`, `RunsAreHeld`, `DeletedStaysDeleted` | `Implements`, `RunsHeld`, `NoResurrection` | |
| | `WorkingStays` | `WorkingKept` | |
| `NetworkProofs` | `WithdrawnPortsEnd`, `SlotsAreHeld` | `NoneOutlives`, `SlotsCounted` | |
| | `AddressesAreApart`, `AddressesStay` | `VipsUnique`, `VipsStay` | |
| | `EventsAreAccounted` | `Accounted` | |
| `CronProofs` | `ScheduleIsExact` | `NextExact` | |
| | `ScheduleSkipsNone` | what `Next` answers is a match, and none lies before it | |
| `NodeProofs` | `TrailVerifies` | `ChainUnbroken` | |
| | `TagsArePullable` | `Pullable` | |
| | `AddressesAreUnique` | `OneAddress` | no `TeardownFails` |
| | `LimitsHold` | `NoFreeTokens` | `BurstsRefill` |
| | `SetsAreWhole`, `PassesConverge` | `SetsWhole`, `PassConverges` | no `Renames`; no failed `"delete"` |

Every one but `DeletedStaysDeleted` and those of `CronProofs` rests on an inductive
invariant, because the property is not inductive as it stands. The arguments:

**Breaker.** `BreakerInv`: finitely many failures; no time lies in the future; a
failure that was counted is no younger than the trip in force or older than a
cooldown (`SpentInv`); every trip time in the record or on its way there is
covered by the trip in force unless there was a reset (`WriteInv`).
`OpenSurvivesRestart` alone says nothing of a write under way that may land
later, `NoDoubleCount` nothing of how old a counted failure is.

**Replication.** `Alone` says that only the loop takes snapshots, that an `Apply`
writes one record and that there is no restore; late landings and empty
batches are allowed. `IInv`: the log is what `Apply` changed from some index on
(`LogInv`); a segment makes everything up to its end safe (`SegInv`); later
archives cover more and the newest is intact (`ManInv`); and what the loop knows
at each of its steps (`JobInv`), such as: between the read and the put the batch
is a prefix of what is pending. The run `repl_cut_batch`, and a rollback and two
snapshots at once (section 5), violate `NoChangeLost` without `Alone`.

`HistInv` stands by itself, for any number of goroutines that snapshot and prune
beside the loop (`Forward`: one record per `Apply`, no restore in between; both are
needed, section 5). Each change in the log and in a segment is what happened at its index; a segment holds
every change between its ends, since the loop's batch is the whole log between
its own (`TrueBatch`) and nothing but the loop prunes the log; a copy is no older
than its manifest says (`TrueArchives`), because `Create` reads the index first
and ids are taken once (`TrueJob`: two snapshots under way never share one). The theorem then
needs what the replay computes: the recursive function `Replay` is unfolded from
its definition (`ReplayIs`, with the least element of `WFMin` for the induction,
which is stated about sets), and `ReplayReaches` is an invariant over its
steps: after the group of index n, each key has its value of n or of the copy,
whichever is later. `ChainCovers` says what the chain check is for: a chain that
is not refused has no hole.

`ChainInv` is for the newest archive: the segments above it meet end to end and do
not overlap, the cursor is the highest index of the sink once the loop has stored
it, and every index that is neither in the sink nor above it is still in the log.
`Gapless` adds to `Alone` that batches change something and that no failed put has
landed, without which the chain breaks (section 5). A boot that cannot list the
sink starts from zero and ships again what overlaps: hence `Listed`, or, in
`OneFaultStillRestores`, the observation that such a boot is itself the one fault,
so that the sink it could not list was empty (`FirstBoot`).

`PartialIsNotBooted` needs none of this: `MarkerInv` says that what a failed
replay left lies there only while the daemon is down with the marker beside it.

**Reconciler.** `Spec` with any number of edits, failed calls and deaths.

- `RollInv`: the allocs that replacements took down, together with those that the
  plan under way will still replace, are no more than max_parallel. The step that
  matters is `Begin`: replacements that fit have different numbers of
  replacements ahead of them, all below what the budget leaves
  (`LaterHasMoreAhead`, `BudgetBounds`).
- `BudgetInv`: an alloc has crashed at most once more than its charged restarts
  and the troubles there were (`AllocOK`). The one more is a crash that is still
  to be charged, or was the last (`Owing`): otherwise the record has a crash in
  hand (`Spare`). A task that runs while its record says *init* has two in hand
  (`Twice`), for it got there by a lost write and the sequence may be run again.
  `ActionOK` says what a plan made earlier in the pass may still rely on when it
  comes to an action: between the two, containers exit and calls fail.
- `FreeInv`, on top of it: the restarts charged to an alloc never exceed its
  crashes, odd states and failed calls (`Credit`); one cause is in hand for a
  container that is paused, for one that backs off and is known to have run
  (`Watched`), and for a restart from the plan to the write (`Due`).
- `OrderInv`, also on top of it: while the leader has a container, no init step
  runs, and if its record still says *init* every step is done. That combination
  lasts longer than a moment only after a trouble (a lost write, a death between
  the start and the record), so the one trouble allowed is spent and no teardown
  may fail half-way on it, which is the step that fails for two troubles
  (section 5). `SequenceAction` carries the same through a plan: "done" is still
  applied to finished steps that nobody reaps, and a step is still started where
  no container is. It needs that there is a live step or all are done
  (`LiveFacts`), by the least element of a set of step numbers.
- `SequenceInv`, without troubles: a step's container is there only if the steps
  before it are done (`Prefix`), or the leader's own action is over and every
  container of the sequence is being removed (`Leaving`). A sequence is thus
  reaped as a whole and never beside the start of another (`ReapOK`).
  `OneMigration` alone would allow a plan that starts a step beside one that
  still runs. The theorems say "until the n-th trouble" (`Trouble <= 1`,
  `Trouble = 0`), whatever `MaxTrouble` is.

- `LedgerInv`, for `KeepsLedger`, on top of `BudgetInv`: a pass works on what is
  declared; until there is a trouble no container is left created, and an alloc
  that was given up does not run, unless the pass has just started it for
  another spec and still has to write that; a plan touches such an alloc only for
  another spec (`LedgerAction`, `LedgerOK`). Every action then leaves each record
  alone or moves it as `AllocLifecycle` allows (`Moves`); `Begin` moves all of them
  at once, hence `Record`. No configuration here checks `KeepsLedger`; tried
  beside them, TLC finds it held for one alloc without steps (two edits, three
  exits, two troubles, 397323 states), one alloc with a step (62939) and two
  allocs (806704), and violated when a restart keeps the old ledger only if it is
  charged, when a record that is used up is forgotten, when a failed alloc is
  restarted for the same spec, and when `IsFound` is left out.

**Service record.** All writers run at once (`ServiceWriters`; the run gives each
controller the record's other writers in turn). `ServiceInv` has a part for each
way in which what was read goes stale before it is used: a compare-and-set
request that would land differs from the record in its writer's fields only
(`ReadInv`); the watcher's is a check, a pin or the end of an update *of the
record as it now is* (`SweepInv`); a digest that is pinned and settled, a
rollback target, and what the allocs are healthy on are not in doubt
(`DoubtInv`); the check clock is never behind the poll that a parked digest
came from (`ParkInv`); the time of the last change is the same in the memory, in
the Store and in the record's history (`CoolInv`); every evaluation since the
service is tracked is in the window (`WindowInv`); what was named or ran since
the collector began is among what it has read (`GcInv`).

**Pipeline.** `PipeSpec` without the bounds on disturbances that `MCDelivery` adds.
Every step is one move of one record, a release, the sweep, or a stutter of
`RunLifecycle` (`LifecycleStep`). `PipeInv`: the channel, the worker and the
submitters hold different runs, those of the channel and of the submitters are
queued (`MadeInv`, `QueueInv`, `WorkerInv`); what is running while the process is
up is the worker's (`LifeInv`, which a crash breaks and the sweep restores before
a worker exists); nothing newer than the worker's commit was released
(`CommitInv`).

**Certificates.** `CertInv`: inside `Sync`, names whose certificate is in the Store
are still to be looked at, are being obtained, or are among what `Sync` will
return (`Accounted`). It is needed because the promise is about a step, the
publish, whose content was put together over many.

**Published ports.** `RelayInv`: a session's number is its own wherever the session
is (being opened, in the table, leaving), one reader opens sessions
(`NumbersInv`), and the listener's table holds exactly the connections whose
goroutine will still leave it (`LiveInv`). Without the first, closing one session
could take two off the counts; `CountInv` adds that the sets are finite.

**Addresses of services.** `VipInv`: the addresses of both families are apart
(`Apart`). An allocation gives the services that have none the
addresses that are free, the first the lowest and so on; that two places of that
order are two addresses is an induction over finite sets, for which the library's
`FS_Induction` and the least elements of `WFMin` serve, stated about sets.

**Notifications.** `DispInv`: an event is in the queue once, and before it is taken
(`QueueInv`); what a route still has was filed, has not ended and is there once
(`CopyInv`); only active routes hold events, a digest on its way has left its
route, and a reload or the end visits every route that holds any (`PassInv`).
`Accounted` is an equation of cardinalities: each step that ends a copy must
take it from exactly one place, or the counter would run ahead. The theorem is
of the dispatcher by itself (`DispSpec`), with any publisher.

**Schedules.** What is hard is not the state but the search, and the theorems hold
because of a lemma about `NextFire` for every time and expression (`SearchIsExact`).
A turn of the loop that goes from u to n passes no match (`Passes`): the month, the
day or the hour of every minute between is that of u. For the month this needs
that the months of a year follow one another (`MonthsRise`) and that a jump ends
within the year it began in (`NextMonthIs`); for the hour, that the hour of a
time is the remainder of its hours (`QuotientOfRemainder`); the divisors are
constants, not numbers. The search is a recursive function: the first match from
u on satisfies its equation (`FirstIsTurn`), and by the greatest time at which they
would differ nothing else does (`TurnsAgree`). `MatchMeans` is about the day
fields: a field counts as `*` exactly when it does not restrict the day, and then
permits every day, of the longest month as of the shortest. This is where `*/n`
in a day field fails (section 5) and is left out; `ScheduleSkipsNone`, about the
parsed fields, includes it. The calendar of the model has years of equal length.

**Node.**

- `AuditInv`: the key and the hash in memory are those of the newest entry, unless
  everything was pruned, and every entry that has an older one carries the hash
  of the nearest older one (`Linked`). A prune keeps the links because it takes
  the oldest keys.
- `RegInv`: every recorded manifest is whole (`MarkersWhole`), not only the tagged
  ones, since a later tag may name any of them; a tag names a recorded manifest
  (`TagsMarked`); what the push under way has checked stays whole until it ends
  (`PushInv`), because nothing is swept under a push. Pushes are one at a time,
  as in the model.
- `AttachInv`: while the daemon runs, its two indexes are each other's inverse
  (`PoolInv`) and hold the address of every alias (`AliasInv`); a daemon that is
  gone leaves only the aliases, from which the next one rebuilds both.
- `RateInv`: a bucket in force would hold, if its subject came now, no more than
  is due to the subject (`OwedInv`), and who has none in force has spent nothing
  (`FreshInv`). `BurstsRefill` is what the comment on `idleFactor` takes for
  granted.
- `WholeInv`: an id belongs to one frontend at a time, also the id of the one about
  to be committed (`IdsInv`: once nothing is left to withdraw, what is there has
  the id it is wanted with, and ids are wanted once); the puts of a flip are those
  of a generation nobody points at, its deletes those of one that nobody points
  at any more (`GenInv`).
- `CachedInv`: the cache says the truth but of the frontend between its commit
  and its cache entry, and whatever does not match what is wanted is still to
  be done in this pass (`CacheInv`).

Only model-checked: liveness, which is `EventuallyShipped`, `ConvergesOrStalls`,
`PendingLeaves`, `StartsAll`, `VolumeBack`, `EdgeFollows`, `PushSynced` and
`CertsServed`. Fairness and ENABLED are out of the prover's reach.

## 5. Where code and comments disagree

The four violated runs are findings in PROJECT.json. The following were met on
the way; each can be reproduced by changing the constants of the base
configuration as said and checking the named definition.

| Definition | Configuration and changes | What happens |
|---|---|---|
| `ListedArchivesIntact` | `Replication`, `Retention = 1`, `MaxArchives = 2` | a prune that stops between its two deletes leaves a listed archive without its data (`archive.go:491`) |
| `KeptArchivesRestore` | `Replication` | a snapshot moves the cursor past changes no segment holds, so the chain of every older archive has a gap (`restore.go:142`) |
| `StagedArchiveKept` | `Replication`, `MaxRestores = 1`, `Retention = 1` | the loop prunes the archive a restore was staged for (`cmd/kanea/backup.go:125`) |
| `RestoredStateExisted` | `Replication`, `Keys = {1, 2}`, `MaxChanges = 1`, `MaxArchives = 1` | the copy is newer than its index and the replay stops between: a mixture of two states (`archive.go:113`) |
| `ReplayKeepsNumbers` | `Replication` | the restored file has another index than the replayed changes (`restore.go:192`) |
| `FullBatchContinues` | `Replication`, `MaxListLimit = 1` | the clamp of `Changes` makes a full batch look short (`replicate.go:232`) |
| `NewestRestores` | `Replication`, `MissingDeletes = TRUE`, or `LateLanding = TRUE` | an index without changes, or a segment that landed late and was sent again with more in it, breaks the chain (`bbolt.go:350`, `restore.go:151`) |
| `NewestRestores` | `Replication`, `MaxFaults = 2`, `MaxArchives = 2` | a crash after a put, and then a `Resume` that cannot list: what is shipped again from zero overlaps the chain (`replicate.go:126`, `restore.go:151`) |
| `NoBootOnPartial` | `ReplStaged`, `AutoRestore = TRUE`, `MissingDeletes = FALSE`, `LateLanding = FALSE` | a first boot's restore leaves no marker: a failed one is booted (`restore_boot.go:64`) |
| `NoChangeLost` | `Replication`, `Threads = {"run", "api"}`, `Retention = 1` | a snapshot of the API and one of the loop interleave their moves of the cursor and their prunes (`replicate.go:249`) |
| `NoChangeLost` | `Replication`, `Spec`, `MaxWrites = 4`, `MaxArchives = 2`, `MaxRestores = 1` | after a restore that skips the replay, the cursor of the abandoned history covers new changes (`segment.go:214`, `replicate.go:127`) |
| `RestoreNotStale` | `Replication`, `Spec`, `Keys = {1, 2}`, `MaxBatch = 2`, `MaxChanges = 1` | a batch the read limit cuts: a segment that ends inside an index is replayed as if it held all of it (`replicate.go:203`) |
| `RestoreNotStale` | `Replication`, `Spec`, `MaxRestores = 1` | after a restore that skips the replay, the segments of the abandoned history are replayed on the archive by the next one (`restore.go:142`) |
| `FailuresBoundedByThreshold` | `Service` | the list grows with failures inside the window (`breaker.go:35`) |
| `Converges` | `RecLive`, `Steps = 1`, `HasDependency = FALSE`, `MaxExits = 0` | one edit: the leader's replacement waits for the budget, the absent follower spends it and waits for the leader (`plan.go:105`, `plan.go:99`) |
| `MigratedFirst` | `Reconciler`, `MaxCount = 1` | an init container without a task counts as finished (`containerd.go:376`, `init.go:163`) |
| `MigratedFirst` | `Reconciler`, `MaxTrouble = 0`, `MaxExits = 1` | the followers start after the leader's init step failed (`init.go:113`; `init.go:102`, `PRD.md:954` say otherwise) |
| `StepsBeforeTask` | `Reconciler`, `MaxCount = 1`, `Checked = FALSE`, `MaxTrouble = 2` | a task whose start failed stays created; a deploy whose teardown fails half-way removes the init containers and leaves it; back on its first spec the sequence begins anew, a step times out, and the next pass starts the created task while that step still runs (`plan.go:300`, a created container is started without a look at the sequence) |
| `OneMigration` | `Reconciler`, `Steps = 2` | a crash before a timed-out step is reaped, or a teardown that fails half-way, and then a deploy: two steps run |
| `DecisionNotStale` | `Service` | `SetCount` reads the index it compares with after the decision: a count decided for one version lands on a later one (`cmd/kanea/scaling.go:57` against its comment at 73) |
| `GenerationKept` | `Service` | a sync puts the record blindly and resets the restart generation (`cmd/kanea/pipelines.go:262`; the comment is in `api/server.go` `applyServices`) |
| `RevertParks` without its `parked.polled # 0` | `Service` | an apply while an update is in flight zeroes `ImageCheckedAt` (`server.go:993`), so the watcher pins the digest it has just reverted again at its next tick (`autoupdate.go:218` "Not retried on the next tick") |
| `NoBadRollback` with `Theirs(d) == IF d.upd = 0 THEN {d.pin} ELSE {}` | `Service`, `MaxEdits = 3` | an operator's own apply brings back a rollback target that had failed before; it is the operator's choice, which `Theirs` records |
| `ShrinkObserved` | `Service` | evaluations without data count as an observed window (`evaluator.go`, comment on `serviceState.since`) |
| `TriggerWired` | `Events`, `FnSpec` | a reload that runs before the pass gives the address leaves the trigger out; writing the address wakes nobody (`reconcile.go:608`, `invoker.go` `Wake`) |
| `NextMeans` | `Events` | a day field `*/n` is taken for `*`, and the other day field alone decides (`cron.go`) |
| `UnusedLetGo` | `Events`, `VolSpec` | a release deletes the entry before it unmounts; an unmount that fails is not retried (`manager.go:260`; `reconcile.go:1866` "the next pass retries") |
| `ServesConfig` | `EdgeBlind`, `Modes = {"http"}` | reconfiguring an http listener keeps the route compiled when it was bound (`listeners.go:264`; `listeners.go:177` says it is swapped) |
| `BindRetried` | `EdgeBlind` | a port that could not be bound is tried again only when the file changes (`watch.go:165`, `listeners.go:192`; `PRD.md:450` "the next poll retries") |
| `EdgeFollows` | `Events`, `Untrusts = TRUE` | the reconciler leaves a file whose content is right, the edge refuses it for its permissions, for ever (`routes.go:75`, `watch.go:132`) |
| `SessionsOnBackends` | `Node` | a session opened with the old configuration registers after the update has collected the orphans (`udp.go` `openSession`, `update`) |
| `EditsKept`, `RecordedIsApplied` | `Delivery` | two syncs, or a sync and an edit: the later write of the project's record, or of its services, is the older one's |
| `ServedThroughRestart` | `Delivery`, `CertFaults = {"crash"}` | the first write after a restart, the reconciler's or a challenge's, publishes a bundle without certificates before the loop has reached its own (`publisher.go:143`, `publisher.go:156`; `cmd/kanea/certs.go:58` "every kanead restart is a TLS outage" is what it is there to avoid) |
| `CertsServed` | `Delivery`, `CertFaults = {"publish"}` | the publisher remembers a bundle before it has written it: one failed write, and the pass that is repeated for it finds nothing to write (`publisher.go:215`) |
| `SetsWhole` | `Node`, `Renames = TRUE` | an address that passes to another port name is programmed over a live set |
| `PassConverges` | `Node`, `FailOps` with `"delete"`, `MaxGen = 3` | a failed delete of the old set leaves entries that a later generation meets |
| `OneAddress` | `Node`, `TeardownFails = TRUE` | an address is released while its link is still there |
| `NoFreeTokens` | `Node`, a limit with `burst > requests` | `Sweep` drops a bucket before it would have been full (`ratelimit.go:26`) |

A restore after the loss of the disk (`Keys = {1}`, `MissingDeletes` and
`LateLanding` true, `MaxWrites = 3`, `MaxArchives = 2`, `MaxFaults = 2`,
`MaxRestores = 1`, `Staging = FALSE`) satisfies `RestoreNotStale`.

Read from the code while modelling it, without a definition of their own:

- *Reconciler and breaker.* The breaker never pauses rollouts (only
  `scaling/loop.go:137` asks it; `reconcile.go:172` says both); a container
  without a record is never rolled and, once unwanted, never found
  (`plan.go:122`); a scaled-in alloc that exhausted its budget is removed again on
  every pass (`plan.go:59`); a container whose state cannot be read is restarted
  at the expense of the budget and outside `max_parallel`; a record not written,
  followed by a rollback, leaves the other spec running; a leader whose
  replacement is cut off by a crash and then rolled back is charged a restart,
  which is why `OutagesAreFree` leaves out a leader with init steps; an alloc
  that was given up is replaced for a new spec, the daemon dies before the record
  is written, and the next pass finds it running under the old record
  (`AllocLifecycle!IsFound`).
- *Service record.* `handleRestart` reads and then puts blindly, as do apply's
  carry-over and `settings_service.go:200`; a revert deadline as long as the poll
  interval lets a bad digest be pinned again at once; the collector's two reads
  are not one snapshot.
- *Events.* Events in the queue at shutdown are lost uncounted; a failed reload of
  the triggers is not retried before the next wake; a due schedule is skipped when
  a reload wins the select; `allNotifyRoutes` loses the node's routes on one
  failed read; an address that a deleted service held may go to another service
  in the same pass; the four-year horizon of a schedule is too short around 2100.
- *Volumes.* A stuck probe makes the supervisor remount a healthy mount on every
  tick; a mount that recovers by itself is never announced as recovered.
- *Edge.* A missing file is refused by the trust check, so the watcher's branch
  for it is not reached; one service whose route does not compile stops the
  projection of all.
- *Certificates.* A failed issuance is no error of the pass, so it is tried again
  after twelve hours and not after fifteen minutes (`certs.go:42`, `certs.go:263`),
  and no event tells of it; a certificate that was served but could not be saved
  is ordered again on the next pass, and given up if that fails (`acme.go:219` says
  "rather than reissue on the next pass"); a self-signed leaf whose renewal cannot be stored is
  withdrawn while it is valid (`selfsigned.go:129`), as are the names of a project
  that turns to a wildcard when that cannot be had, and an operator's pair
  that does not match for a moment; a bundle that cannot be written ends the pass
  before the sources that follow (`certs.go:182`).
- *Pipeline.* `Runs.Prune` has no caller; `LastCommit` is recorded before the runs
  are submitted; a full queue and a client that went away leave a record "queued"
  until the next boot; a crash after the release records the run as failed; a
  webhook delivery is marked seen before the wake it may lose.
- *Datapath.* A crash between the commit of a flip and its deletes leaves the old
  generation's entries behind; the name server's zone is set only at the end of a
  pass that succeeded; a link that crashed before it had its alias is not found
  by the reaper.
- *Limits and audit.* `Sweep` stops at the first live bucket, in order of use and
  not of expiry; a prune between two pages of `Verify` shows as a break.

## 6. Not modelled

- Contents: images, volumes, secrets, network set-up are calls that succeed or
  fail. Encryption of archives, object names and timestamps are left out.
- Several services at once in `Reconciler`: they share a pass but not state,
  except through dependencies (`dep`) and addresses (`Frontends`).
- Probe thresholds and history: a probe answers either way.
- The kernel's programs (C), the HTTP proxy itself (matching, headers), the
  builder, git and containerd.
- Authentication, secrets and request signing: credentials and cryptography
  around a handful of store writes.
- The CA's protocol (accounts, orders, DNS updates), the minting and parsing of
  certificates, grants of several projects, the API listener's own certificate.
- Job specification, configuration, API layer, MCP, command line, dashboard,
  provisioning, devices: pure, sequential, or I/O; their order of steps is the
  order of the text, and their tables of tests reach what there is to reach. They
  are most of the repository's lines.

## 7. Plan

What would add most: several services in one pass of `Reconciler`, sharing
dependencies.
