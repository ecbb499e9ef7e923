# TLA+ models of K8s-Lite

These modules model the declarative control loop of K8s-Lite (`src/`):
- the registry and its watch protocol;
- the ReplicaSet and Deployment reconcilers;
- the scheduler and the node agent (kubelet);
- lease-based leader election;
- the Service/Endpoints reconciler and the service proxy;
- the registry's file persistence across a kill and restart.

Every module is written from the Go source. `PROJECT.json` maps each definition to the lines it models. The same file lists the runs, the mutants that show each checked property can fail, the findings and the hazards.

## 1. The system

| Part | Source | State | Operations |
|---|---|---|---|
| Registry | `internal/storage/memory.go` | `data` map, `watchers` slice, one `RWMutex`, a JSON file | Create (Conflict if present), Update / Delete (NotFound if absent), Get, List(prefix), Watch(prefix), Stop; every mutation ends with `sync`, which rewrites the whole file with `os.WriteFile`; `NewMemoryStore` `load`s it |
| Resource server | `internal/apiserver/server.go` | none (stateless handlers) | CRUD handlers map HTTP to registry calls; `handleWatch` streams a watcher's channel until the client goes away |
| Client | `internal/client/client.go` | none | One HTTP call per method. `DeletePod` treats 404 as success. `GetLease` returns nil on 404. No timeout. |
| ReplicaSet reconciler | `internal/controller/replicaset/controller.go` | none between ticks | Every 5 s: list ReplicaSets, list pods, then per ReplicaSet create or delete pods to match `spec.replicas` |
| Deployment reconciler | `internal/controller/deployment/controller.go` | none between ticks | Every 5 s, per Deployment: list ReplicaSets, find the one named by the template hash, create it if missing, set its replicas, set the other owned ReplicaSets to 0 |
| Service reconciler | `internal/controller/service/service_controller.go` | none | Every 5 s: list Services; per Service with a selector, list pods, build the subsets of Running pods with IPs, GetEndpoints, then CreateEndpoints or, if not `reflect.DeepEqual`, UpdateEndpoints |
| Scheduler | `internal/scheduler/scheduler.go` | none | Every 3 s: list pods, list nodes, bind each unscheduled pod with a full-object PUT |
| Kubelet | `internal/kubelet/agent.go`, `runtime.go` | docker containers named `k8s-lite-<pod>-<ctr>` | Register the node. Every 5 s: list pods bound here, list containers, start missing ones, restart exited ones, stop orphans, PUT the pod status. |
| Leader election | `internal/leaderelection/election.go` | the Lease object | `tryAcquireOrRenew` = GetLease, then CreateLease or UpdateLease. `renewLoop` renews every RetryPeriod. Losing the lease calls `log.Fatalf`. |
| Proxy | `internal/proxy/proxier.go` | `listeners` (port → listener), `endpoints` cache (Service → Endpoints) | Every 5 s: list Services, record each nodePort's Service and refresh its cached Endpoints, open a listener for each new port, close those no longer desired; each listener forwards to a random cached endpoint of the Service it was opened for |

**How the parts interact.** The registry is the only shared object. Every component is a loop of list, then decide, then write, over HTTP. Each call is atomic at the registry, because `MemoryStore` serialises writes under its lock. A pass as a whole is not atomic: other loops and clients interleave between its calls, and its decisions come from lists that may be stale by the time it writes.

Nothing carries a resourceVersion check:
- `Update` replaces the stored object whatever it has become since it was read.
- Every writer sends the full object it listed.

**What makes it hard:**
- interleaved passes that act on stale snapshots;
- full-object writes that overwrite each other;
- a watch send that blocks while the store lock is held;
- time in leader election, where a captured `now` is used after unbounded HTTP latency;
- partial failures in the middle of a pass;
- label-selector overlap between generations of ReplicaSets.

## 2. Modules

| Module | Models | State ↔ code |
|---|---|---|
| `ClusterState` | registry keys shared by the reconcilers | `deployments`, `replicasets` (`<<d, t>>` is the RS created for deployment d and template t, i.e. `<d>-<hash>`), `pods` (name → template), bounded HTTP `failures`; the two `labelsMatch` functions |
| `ReplicaSetController` | `replicaset/controller.go` | `rcPc` is the point in `reconcile`. `rcRS` is the listed ReplicaSets. `rcOps` is the create/delete calls the pass decided from its one pod list. Each call is its own action. |
| `DeploymentController` | `deployment/controller.go` | `dcPc`, `dcList` (listed Deployments not yet synced), and `dcOps` (calls of the current `syncDeployment`). `SyncDeployment` computes the call sequence exactly as the code orders it: create, then scale the new RS, then scale each old one. |
| `ControlLoop` | `cmd/controller-manager` without `--leader-elect` | composes both reconcilers with client Create/Update/Delete of Deployments (`handleCreate` / `handleUpdate` / `handleDelete`) |
| `LeaderElection` | `leaderelection/election.go` | `lease` is `[holder, age, transitions]`. Each process has a `role` (acquire loop, renewLoop, exited) and a `phase` (waiting, or GetLease answered). `timer` is the ticks to the next attempt; `nowAge` is the age of the captured `time.Now()`. |
| `WatchStore` | `storage/interface.go` | The abstract specification of the Store's watch promise: `data`, `count`, each stream's `sub` (kind or none), `queue` and `delivered`. A mutation queues its event for every matching stream in the same step. |
| `Registry` | `storage/memory.go` with `handleWatch` | `lock`, `watchers` (the slice, in order), `chan` (each watcher's buffered channel), writer `wPc`/`wIdx` (position in `notifyWatchers`), watch goroutine `xPc`. `history`, `subAt` and `received` are ghosts for the fidelity property. |
| `PodLifecycle` | `scheduler.go`, `kubelet/agent.go`, `runtime.go` | `pods` (`[gen, node, phase, ip]`; gen is the spec a client created), `nodes`, and `containers` (per node, name → `[gen, docker state]`). Scheduler and kubelet program counters and their listed copies. Ghosts `live`/`latest` record what clients created and deleted. The liveness probe is `LivenessFails`: `Probed` is the set of pod specs with a probe, `AddrAnswers` says whether an exited container's probed address (its stale IP, or localhost when it has none) still answers. Docker commands may fail, at most `MaxDockerFailures` times (`dockerFails`): `RunResults` (a failed `docker run` creates nothing), `StopResults` (a failed `docker stop` returns early and leaves the container; a failed `docker rm` is ignored and leaves it `exited`, holding its name), `RestartResults` (stop then run, and run skipped when the name is still taken). `ContainerIP` is `GetContainerIP`: only a running container has an address. |
| `Services` | `service_controller.go`, `proxy/proxier.go`, composed with `PodLifecycle` | `services` and `endpoints` in the registry; controller `cPc` (point in `syncServices`/`reconcileService`), `cSvcs` (listed Services not yet reconciled), `cCur`, `cDesired`, `cExisting` (the locals of `reconcileService`); proxy `pPc`, `pSvcs`, `pDesired` (`desiredPorts`), `listeners` (port → the Service its accept loop serves) and `cache`. Endpoints are `[isNil, list]`, the list being the subsets of `<<pod, node>>` addresses, so the omitempty JSON round trip (empty list read back as nil) is visible to `DeepEqual`. |
| `Persistence` | `storage/memory.go` `sync`, `load`, `NewMemoryStore` | `data` (the map), `file` (a store, `Missing` or `Truncated`), `pc` (idle, a mutation holding the lock before its sync, down); ghosts `acked` (map of the last mutation answered with success) and `tried` (map of the mutation whose sync is in progress). |

Each MC module gives the constants model values.

**Abstractions:**
- **Time.**
  - Reconciler ticks are not modelled: a pass may start whenever the previous one ended.
  - In `LeaderElection`, time is a `Tick` action that ages the lease, the captured times and the retry timers.
  - Ages are capped at `LeaseDuration`, so the clock is unbounded while the state stays finite.
- **Names and hashes.**
  - A template hash is injective on the model's templates.
  - A pod name from `uuid` is any name nobody holds.
- **Watch prefixes.** Prefix `/registry/<kind>` is kind equality, since no resource name is a prefix of another.
- **Scheduler predicate.** `podFitsResources` is always true: every registered node stays Ready=True, and `getRequest` always returns `"0"`.
- **Failed writes.** A write that the registry rejects (Conflict, NotFound) changes nothing, so it is modelled as the `Read` stutter.

## 3. Runs

The `violation` runs each check one property the spec states and TLC finds it violated. The traces are summarised under Findings.

| Run | Bounds | Checks | Result |
|---|---|---|---|
| `ScaleOnly.cfg` | 1 Deployment, 1 template, replicas ≤ 2, 4 pod names, 2 client writes, 1 failed call | TypeOK, DeploymentRolledOut, ReplicaSetConvergence | pass |
| `RolloutPods.cfg` | 1 Deployment, 2 templates with equal labels, 2 client writes | ReplicaSetConvergence | violation |
| `Failover.cfg` | 2 electors, LeaseDuration 3, RetryPeriod 1, 1 failed call, crashes | TypeOK, FailoverEventually | pass |
| `DualLeader.cfg` | 2 electors, no failures | LeaderExclusivity | violation |
| `WatchBackpressure.cfg` | 2 writers, 2 watchers, 2 kinds, channel capacity 1, 3 writes, clients disconnect and re-watch | TypeOK, WatchFidelity, WatchStoreRefined | pass (943,846 states) |
| `WatchDeadlock.cfg` | 1 writer, 1 watcher, capacity 1, 2 writes | WritesReturn | violation |
| `PodConvergence.cfg` | 2 nodes, 2 pod names, 2 creates, no name reuse, 1 container exit, 1 failed docker command, every pod probed, no other process answers at a probed address | PodsConverge | pass (134,400 states) |
| `PodRecreate.cfg` | 1 node, 1 name created twice | ClientStateRespected | violation |
| `ServicesConverge.cfg` | 1 node, 1 pod name (created, exits once, deleted), 1 Service with selector `{}` or `app=web` and nodePort 0 or 30080, 2 Service writes | ServicesTypeOK, EndpointsConverge, ProxyConverges | pass (159,847 states) |
| `ProxyPortReuse.cfg` | no pods, 2 Services that may both take nodePort 30080, 3 Service writes | ProxyConverges | violation |
| `DeploymentDelete.cfg` | 1 Deployment of replicas 1, created and then deleted, no failures | ReplicaSetsFollowDeployments | violation |
| `StoreCrash.cfg` | 1 key, 2 values, 3 mutations, 1 kill, sync never fails | RestartKeepsAcked | violation |

**Why the bounds are enough:**
- **Watch channels.**
  - Capacity 1 with 3 writes makes blocking sends happen.
  - Watchers disconnect and watch again, so a watcher re-registers behind the other one in `s.watchers` and misses the writes made while it was away.
- **Reconcilers.** Two templates and two client writes cover a rollout followed by a scale. A create followed by a delete is the shortest behaviour that leaves a ReplicaSet without its Deployment. `DeploymentRolledOut` after a template change is not checked by a passing run: with equal labels the rollout never settles (`RolloutPods`).
- **Leader election.**
  - `LeaseDuration` 3 against `RetryPeriod` 1 lets a renewal happen before expiry.
  - It also leaves room for an expiry between two calls.
- **Pods.** Two names on two nodes cover binding to either node, deletion of a bound pod, and orphan clean-up. One exit lets a container exit before or after its IP is published, which are the two probe targets. One failed docker command lands on a first run, a restart or an orphan stop, each of which the next tick must repair.
- **Services.** One pod that goes Pending → Running → exited → deleted, and a Service whose selector and nodePort clients change, give every branch of `reconcileService` (no selector, not found, different, equal) and every proxy branch (port opened, closed, kept) against pod changes in between. A second pod or node multiplies the composed state space by about ten without reaching a new branch. Two Services on one port are what the port-reuse run needs.
- **Persistence.** One key and three mutations reach create, update and delete; one kill at any point covers a kill before, during and after a sync.

**Deadlock checking.** It is on everywhere except in the two watch runs.
- `WatchDeadlock.cfg` reports the stuck state through `WritesReturn`.
- In `WatchBackpressure.cfg` the same stuck state is reachable, because clients may disconnect while a writer is blocked. The registry really does stop there, so that run checks only the safety invariants.

**Fairness.** Weak fairness on the steps of every loop that runs on a `time.Ticker`:
- the reconcilers' successful steps;
- the scheduler, the kubelets, the electors' GetLease/Create/Update and `Tick`;
- the registry's `Notify`/`WriteDone`, and the watch goroutine's `Receive`/`Stop`;
- the Service controller's and the proxy's steps (each as one fairness condition over its loop: `Run` ticks every 5 s and every call returns);
- `Persistence`: a sync completes and a killed registry is started again.

Their HTTP calls return because the API server answers; the failures are bounded.

These are not fair: clients, container exits, crashes, failures (HTTP and docker), and watch-client disconnects.

## 4. Properties

- **DeploymentRolledOut** (`ControlLoop`), spec 4.5. It eventually holds for good:
  - each Deployment has its template's ReplicaSet at `spec.replicas`;
  - every other owned ReplicaSet is at 0.
- **ReplicaSetConvergence** (`ControlLoop`), spec 8.5. The pods matching each ReplicaSet eventually equal its replicas, for good.
- **LeaderExclusivity** (`LeaderElection`), spec 8.7. Never two processes in renewLoop at once.
- **FailoverEventually** (`LeaderElection`), scenario S5. With nobody leading and someone alive, eventually someone leads or all are dead.
- **WatchFidelity** (`Registry`), spec 8.3. What a watcher has written out plus what is queued:
  - is a prefix of its kind's mutations since it registered;
  - equals all of them whenever no write is in progress.
- **WatchStoreRefined** (`Registry`), the refinement. `Registry` implements `WatchStore` under the mapping `Abstract`: a watcher is open while it is in `s.watchers`, its abstract queue is its channel followed by the event of the write under way if `notifyWatchers` has still to reach it (`Pending`), and the abstract count is the length of `history`. So the locked one-watcher-at-a-time notification, blocking sends on full channels, and `Stop` under the lock add no behaviour that an atomic write-and-notify would not have. Only safety is refined: `WatchStore` states no liveness, since a write can block forever (`WatchDeadlock`).
- **WritesReturn** (`Registry`), section 9. Every write that began notifying eventually returns.
- **ClientStateRespected** (`PodLifecycle`). The registry holds exactly the pods clients created and have not deleted, each with its latest spec.
- **PodsConverge** (`PodLifecycle`), scenarios S1 and S2:
  - every pod eventually ends bound and Running with an IP, with its own running container on its node;
  - no node keeps other containers.
  In `PodConvergence` it holds with container exits because every pod has a liveness probe: the Exit test never fires, but the probe of an exited container fails and the kubelet stops, removes and runs it again. It holds with a failed docker command because the next tick retries: a container left `exited` by a failed `docker rm` is listed by `docker ps -a` and found again. Listing only running containers (`docker ps` without `-a`) makes TLC find it violated.
- **EndpointsConverge** (`Services`), spec 8.8. Eventually, for good, every Service with a selector has Endpoints equal to the subsets of its Running pods with IPs (as stored, after the JSON round trip).
- **ProxyConverges** (`Services`), spec 4.9. Eventually, for good, the proxy listens on exactly the Services' nodePorts, each listener serves the Service that now declares its port, and that Service's cached Endpoints are the stored ones.
- **ReplicaSetsFollowDeployments** (`ControlLoop`), spec 4.5 step 5 and scenario S4. Eventually, for good, every ReplicaSet has the replicas its Deployment wants: the Deployment's count for its current template's ReplicaSet, 0 for every other, and 0 when the Deployment was deleted.
- **RestartKeepsAcked** (`Persistence`), spec 4.1. A restarted registry holds the map of the last acknowledged mutation, or of the one whose sync was interrupted.
- **ServicesTypeOK** (`Services`) is the type invariant of the composed model. `ClientStateRespected` is not checked there: with each pod name created once, it could only fail through a dropped existence check, which `PodRecreate` already exercises.

## 5. Findings

1. **Rollout never settles** (`RolloutPods`). The root is `deployment/controller.go:157`.
   - Old ReplicaSets are scaled to 0 but keep the Deployment's selector.
   - Pods carry only template labels, so the old ReplicaSet claims the new pods and deletes them (`replicaset/controller.go:88-99`).
   - The new ReplicaSet re-creates them, forever.
2. **Two leaders** (`DualLeader`).
   - `now` is captured before the calls and written after them.
   - A leader never steps down on its own: `RenewDeadline` is unused.
   - Trace: p1 creates a lease that is already expired by the time it is written; p2 takes it over while p1 still leads.
3. **Watch deadlock** (`WatchDeadlock`). Trace:
   - a write blocks on a full channel with the lock held;
   - the watch client disconnects;
   - `Stop` waits for the lock;
   - nothing can proceed and every later request blocks.
4. **Stale bind overwrites a re-created pod** (`PodRecreate`).
   - The scheduler PUTs its listed copy of a pod that was deleted and created again meanwhile.
   - The root is `MemoryStore.Update` (`storage/memory.go:85`): it has no resourceVersion check, whereas spec 4.8 and section 9 require writes to be conditional.
   - The same unconditional Update lets two electors that read the same expired Lease both write it. That is the `UpdateLease` action of `LeaderElection`.
5. **A nodePort that changes Service keeps serving the old one** (`ProxyPortReuse`). `proxier.go:89` opens a listener only for a port without one, and `serve` keeps the Service name it was started with. Trace: s1 takes port 30080 and the proxy opens it for s1; s1 is deleted and s2 created with 30080 before the next sync; the port stays desired, so the listener is kept and keeps serving s1, whose cached Endpoints (never pruned, `proxier.go:77`) are all the listener reads. With no pods in this run s1 has no endpoints, so every connection to 30080 is closed instead of reaching s2, forever.
6. **A kill during sync loses the registry** (`StoreCrash`). `os.WriteFile` (`memory.go:60`) truncates the file and rewrites it in place. Trace: a create is synced; an update starts its sync and the process is killed with the file half written; `load` fails, `NewMemoryStore` prints a warning and starts empty, and the acknowledged create is gone. Spec 4.1 says write a temporary file and rename it.

7. **A deleted Deployment keeps its pods** (`DeploymentDelete`). `reconcile` (`deployment/controller.go:47`) syncs only the Deployments it lists, and nothing owns the ReplicaSets of a deleted one. Trace: a client creates d1; the Deployment reconciler creates its ReplicaSet at 1; the ReplicaSet reconciler creates its pod; the client deletes d1; from then on the ReplicaSet stays at 1 and every ReplicaSet pass keeps its pod. Scenario S4 says its replicas reach 0. The same property states the empty-selector hazard: `labelsMatch` (`deployment/controller.go:218`) accepts an empty selector, so a Deployment with selector `{}` treats every ReplicaSet as its own and would scale another Deployment's current ReplicaSet to 0. No kept configuration gives a Deployment an empty selector, so that case is not checked by any run here.

Noted while modelling, with no run of their own (the run budget went to the ones above):
- A takeover copies `leaseTransitions` unchanged: `election.go:143` has only the comment "Increment transitions if trackable", whereas scenario S5 says it is incremented by 1. `LeaderElection` keeps the field as the code leaves it; a unit test reaches this directly.
- Two controller-managers with the default `--leader-elect=false` (`controller-manager/main.go:25`) each run every reconciler. A two-manager composition of `ControlLoop`, checked while modelling and not kept among the runs (it is not reproducible from this directory), found `ReplicaSetConvergence` violated: both ReplicaSet reconcilers list no pods and each creates one, then both list two and each deletes a different one, forever. Its run gave its place to `DeploymentDelete`.
- A Service whose `targetPort` is a name gets Endpoints port 0 (`service_controller.go:108-116`); spec 4.6 says to use the service port. Ports are not modelled; a unit test reaches it.
- `reconcilePod` tests `HasPrefix(state, "Exit")` against docker's lower-case `exited`, so an exited container is never restarted by that test and the pod is published Running (spec 4.7). Only a liveness probe restarts it. A configuration of `PodLifecycle` with a container exit and no probe (not kept among the runs; set `Probed` to `{}` in `PodConvergence.cfg` to reproduce it) violated `PodsConverge`.
- A pod whose container exited before its IP was published is probed at localhost on the node (`prober.go:40`). With `AddrAnswers = {FALSE}` (some host process answers on the probe port) TLC finds `PodsConverge` violated: the exited container is never restarted.
- `parseCPU` (`scheduler.go:183-195`) truncates `float64` cores times 1000, so `"4.35"` gives 4349 millicores, not 4350 as spec 4.3 implies; parse errors give 0. Reproducing IEEE-754 rounding is beyond TLC's integers, `getRequest` always returns `"0"` and `registerNode` sets no capacity, so only `parseCPU("0")` and `parseCPU("")` are ever evaluated and the edge is unreachable; it is not modelled.
- The desired Subsets of a Service without ready pods are `[]`; the stored JSON omits them, `GetEndpoints` reads back nil, and `reflect.DeepEqual(nil, [])` is false (`service_controller.go:145`). So such Endpoints are rewritten on every tick and every Endpoints watcher sees a Modified event each time. `Services` models the round trip (`RoundTrip`); `EndpointsConverge` still holds because the rewrite is idempotent.

## 6. Not modelled

- **Proxy connections.** `serve`/`handleConnection` (pick an endpoint, dial, copy bytes) are I/O and stay out; `Services` models what they read, the listener's Service and the cache.
- **Containers that hang.** A running container answers its probe in the model; a hung one, a hung docker command, and a failing `docker inspect` in `GetContainerIP` are not modelled.
- **Persistence with watches.** `Persistence` leaves watch notification to `Registry`; a write whose sync fails has already been announced to watchers (`memory.go:77-78`).
- **Pure operators:**
  - the label selector against spec 8.4;
  - `parseCPU` against the spec's parsing rule;
  - the IntOrString JSON round-trip (spec 8.9).
- **Two controller-managers with leader election.** Composing the reconcilers with `LeaderElection` (overlapping leaders, see `DualLeader`) is beyond the state budget.
- **Refinement of the lease.** The code does not implement an exclusive lease (`DualLeader`), so there is no refinement to show there.
- **Left out.** Readiness probes, TLS/auth, metrics and the `hack/` tools.
