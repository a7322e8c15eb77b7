# A TLA+ development for MNCS Fabric

This directory specifies the part of MNCS Fabric whose correctness depends on
the order of things: what a worker does with a dispatch that arrives twice or
across a crash, how the controller carries detached work over restarts, how
worker-initiated sessions bind commands, responses and revocations, how workers
are enrolled over a ledger that several processes append to, how a fleet is
scheduled, updated and rolled out while its machines change, how a broker runs
privileged operations, and how bundles and packages get from one disk to
another. The modules are translated from `src/mncs_fabric/`; TLC checks them on
small instances, and TLAPS proves the guarantees of the worker, of detached work, of
the two together, of the rendezvous, of the controller service, of the lifecycle and
its ledger, and of the broker for every value of the constants.

Source lines below are those of `src/mncs_fabric/`.

## 1. The system

| Part | State it keeps | Operations | Interacts with |
|---|---|---|---|
| Worker (`worker.py`) | append-only ledger; in memory the replay dictionaries `_dispatch_by_request`, `_result_by_request` and the management state | `handle`: dispatch, management, describe/inventory/maintenance/certify/package-artifact/capability, bundle messages; constructor replays the ledger | endpoint or rendezvous client call it; executor runs the workload |
| Worker endpoint (`transport.py`, `TLSWorkerServer`) | connection semaphore, threads | `serve_forever`, `_handle_connection` | one request per connection, 1..n connections at a time |
| Rendezvous (`rendezvous.py`, `TLSRendezvousServer`, `TLSRendezvousWorker`) | rendezvous ledger; in memory the sessions, each with at most one pending command | `open`, `message`, `close`, `dispatch`/`submit`, `states`, `revoke_worker` | listener threads, dispatching threads, worker client loop, lifecycle membership |
| Detached execution (`controller_service.py`) | `detached-execution.jsonl`, result files; in memory the thread registry | submit, run, recover, status, result | service connections; dispatches through worker client or rendezvous |
| Controller dispatch (`controller.py`, `api.py`) | controller ledger, remote worker states, active slots | `dispatch_via`, scheduling, refresh | transports |
| Ledger (`store.py`) | a JSONL file with sequence and hash chain, a verified-prefix cache | `append`, `append_if`, `append_many_if`, `recover`, reads | every durable component |
| Lifecycle (`lifecycle.py`) | one ledger: requests, authorizations, memberships, presence | request, authorize, consume, enroll, revoke, presence | commissioning, rendezvous, controller service |
| Service transport (`service_transport.py`) and replay cache | owner lock, socket, persisted request ids | accept, check-and-record | CLI and API clients |
| Scheduled work (`work_queue.py`, `availability.py`) | queue ledger, a shared projection of it in memory | enqueue, pause, resume, tick | controller service |
| Targets (`targets.py`, `target_index.py`) | admission and evidence ledgers, rebuildable index | admit, dispatch, record | controller service, worker |
| Bundle transfer and cache (`bundle_transfer.py`, `bundles.py`) | per transfer `.staging/<id>` with `state.json` and `archive.part`; `bundles/<identity>`; `.publish-*` while publishing | begin, chunk, progress, commit, `root_for`, `gc` | worker handlers, controller service (under `_consumer_bundle_lock`), the cache command in another process |
| Package artifacts (`package_artifact.py`, `supervisor.py`) | the stage directory with descriptor, builds and named copies, `previous/`, `upgrade-request.json`; in memory one transfer session | offer, chunk, commit; stage, apply, roll back | controller transfer client, providers, systemd upgrade unit |
| Fleet manager (`fleet_ops.py`, `update_lifecycle.py`, `management.py`) | the management ledger: state, desired state, certification, conformance, update transaction of each worker | plan, reconcile, certify, drain, resume, quarantine, observe, complete, roll back, recover | worker through management and maintenance messages |
| Rollout (`rollout.py`, `controller_service.py` 1835-1870) | the latest `management.rollout` record | plan, execute, resume | a reconcile per worker |
| Desired state, maintenance, conformance (`desired_state.py`, `maintenance.py`, `providers.py`, `conformance.py`) | none (they act on the host) | evaluate, plan, apply | fleet manager, worker |
| Retained observations (`controller.py`, `worker_state.py`, `fleet_refresh.py`, `runtime.py`) | descriptions, liveness, slots and runtime observations of each worker, replayed from the ledger at start-up | refresh, probe, observe, restore | dispatching threads |
| Capability broker (`capability_broker.py`) | host profile; lease, audit and result ledgers | grant, revoke, expire, clean, request, reconcile | adapters of the host, worker |
| Admission (`scheduler.py`, `resources.py`, `capability_resolution.py`, `capabilities.py`) | none | pure decisions | controller, worker |
| Documents (`protocol.py`, `contracts.py`, `evidence.py`, `receipts.py`, `provenance.py`, `inventory.py`, ...) | none | build and validate | everyone |

What is hard about it, and where it bites, is the `hazards` list of
`PROJECT.json`. In short:

* *check, then act* with the lock released in between: the replay check of a
  dispatch, the projection a submission acts on, the membership check of a
  session message;
* *a durable record, then memory, then an effect*: a crash between any two, and
  an append that raises although its line is in the file;
* *deadlines that race late answers*: a command times out and its response
  arrives in the next command's time;
* *request threads without a lock*: two operations on one worker's management state
  and update transaction, two handlers of a worker's bundle cache;
* *memory that outlives what it describes*: slots, observations, probes and
  rollout snapshots are acted on after the worker has changed;
* *several files for one fact*: a chunk and its counter, a build and its
  descriptor, the admission cache and the ledger it was read from;
* *start-up order*: the controller serves submissions while it still recovers,
  and recovers before the rendezvous listener is bound.

What makes each part correct:

* worker: one execution per request id, one answer, nothing begun or told that
  the ledger does not know;
* detached execution: accepted once, carried by one thread, never lost, settled;
* end to end: executed once although both processes crash; a recorded completion
  is durable at the worker;
* rendezvous: one active session per worker, generations that never regress, a
  response only to the command that waits for it, every wait ends;
* ledger: a verified prefix stays; a torn tail is the only thing recovery removes;
* lifecycle: an authorization is consumed once and never after its revocation;
* controller service: a request is handled once within its deadline; a work is
  admitted once; an execution on a target has one durable evidence, which a
  retry of the same client finds and another client never gets;
* fleet: a worker is scheduled on what it was within the lease, and runs what it
  admitted on what it was after the dispatch arrived; slots are given back; a target
  rests on an administrator's word;
* update and rollout: an update is certified at the version it announced; where the
  operations on a worker follow each other, no work while its package is replaced, and
  READY on evidence of one inventory; canaries first, over restarts;
* broker: a privileged operation once per request unless the record of its run was
  lost, under a lease that held, with one answer;
* bundles and packages: what the service publishes or a worker installs is what was
  offered, whatever a crash left on the disk; the cache keeps its limit up to a stated
  excess; an upload or update ends.

## 2. Modules

| Module | Models | State and actions |
|---|---|---|
| `WorkerReplay` | `worker.py` 34-357, `transport.py` 293-410, `management.py` 32-51, `store.py` 279-316 as the worker sees it | `h[c]` is the handler in connection slot `c`, one step per point where another handler can run or the process can die: `CheckAcceptsWork` (256), `CheckPrior` (277-298), `Admit` (299-312), `AppendDispatch` (314), `PublishDispatch` (316), `StartExecution`/`FinishExecution` (318-343), `AppendResult` (354), `PublishResult` (356), `Respond` (transport 397). `Manage` and `Observe` are the other requests. `Reject`, `AppendFails`, `HandlerRaises`, `Crash` are the ways out; `Restart` is the constructor's replay. |
| `Detached` | `controller_service.py` 345-784, 1893-1997 | `log` is the ledger, `th` the threads, `registry` is `_detached_threads`, `sub` the submissions between their steps, `todo` the items of a recovery, `phase` how far `run` has come. |
| `Execution` | `controller.py` 416-447, `api.py` 1093-1102 | Extends `WorkerReplay` and takes `Detached` as the instance `D` (`SystemInit`, `SystemNext`, `SystemSpec`): a thread's dispatch is a `Receive` of the worker, a response a `ThreadReturn`. `link[t]` is the connection the thread waits on: both processes crash independently, a reply may find nobody, a deadline may pass while the worker goes on, and a connection whose worker died is `Broken` until the thread notices (`Closed`). |
| `Rendezvous` | `rendezvous.py` 78-383, `transport.py` 512-551 and 610-649, `controller_service.py` 826-828 | `sess[s]` joins the coordinator's session, the listener thread that serves it and the worker's client; `disp` are the dispatches; `revoker` is a revocation between its durable tombstone and the closing of sessions. |
| `Ledger` | `store.py` 104-468 | `lines` is the file: numbered lines that are whole, lack their newline or are torn. `Write` is an append under the lock, `WriteStops` one that ends at any line, `Recover` the tail repair. |
| `Lifecycle` | `lifecycle.py` 149-517 | Extends `Ledger`. `op[p]` is the operation process `p` is in between its read (`Begin...`) and its append (`Commit`, `CommitStops`, `Raises`), with the time it took at its beginning; statuses are derived from the lines as `_record_status`, `_request_status` and `_latest_membership` do. |
| `WorkQueue` | `work_queue.py` 44-253 | `qlog` is the ledger, `cache` and `token` are `_state_cache` and `_state_token`, `heap` the map objects, `qth[t]` the operation of thread `t` with the map it holds a reference to. `EnsureCached`, `EnsureScan`, `EnsureInstall` are `_ensure_state`; the `Finish...` actions are what each operation does to the projection after its append. |
| `TargetEvidence` | `controller_service.py` 1654-1763, `target_index.py` | `tlog` is the ledger, `index` and `indexFile` the evidence index with the signature of the ledger each claims to reflect, `lock` its lock, `ran` what the worker remembers (external). `Add` and `AddWrite` are the two halves of `add`: appends of other threads come between them. |
| `Service` | `controller_service.py` 63-160, 1491-1512 | The replay cache, and the composition: `Arrive` takes the time, `Accept`, `Refuse`, `PersistFails` are the locked check, and an accepted request becomes an operation of `WorkQueue` or `TargetEvidence` on its thread (`RequestThreads`). `Crash` and `Restart` reset all memory. |
| `ExecuteOnce` | the promise of a worker about dispatches | Begun once, recorded or lost for good, only the recorded result told. `WorkerReplay` states that a serial endpoint implements it (`Once`, `ImplementsOnce`): a request is lost when its workload began, nobody carries it and no result is in the ledger. |
| `CapabilityPolicy` | `capability_broker.py` 40-700, 770-1310 | Families, operations, argument shapes, profiles, leases and requirements as operators, and what the two adapters do to the host, a function from resources to values. A probe answers what the code makes of the tool's outcome, not what is so: `dpkg-query -W` succeeds for a removed package whose configuration files are left, and an observation that is not allowed is SKIPPED. |
| `Broker` | `capability_broker.py` 1313-1989, 2176-2192 | `leaseLog`, `auditLog`, `resultLog` are the ledgers, a lease is the set of its positions in the first (`LeaseEvents`), `handler[h]` a call of `request` or `reconcile` between two accesses to them. `Recover`, `Authorise`, `Execute`, `AppendAudit`, `AppendResult` are the steps of `request`; `AuditFails` and `ResultFails` are appends that raise, their line written or not, with the server serving on; `StartReconcile`, `NextItem`, `ItemDone` are the steps of `reconcile`, which calls `request`. |
| `Inventory` | `inventory.py` | What an inventory shows of a machine: services and their managers, runtimes, tools, disk, the package. |
| `DesiredState` | `desired_state.py`, `conformance.py` 40-152 | Desired states per profile, what an inventory lacks of them, and conformance. |
| `Maintenance` | `maintenance.py`, `providers.py`, `certify.py` | The plan, what each provider does to a machine when it applies an action, and certification. |
| `UpdatePolicy` | `management.py`, `update_lifecycle.py`, `conformance.py` 187-291 | The transition tables, `ObserveReconnect` and `EvaluateReady`. |
| `FleetManager` | `fleet_ops.py`, `controller.py` 230-336 | Composes the four above with the machines. The latest record of each kind is a variable. `op[t]` is the operation of a request's thread: what it has in hand (inventory, transaction, certificate, conformance, decision, the state it is about to replace) and, in `todo`, what is left of it, one reading, one record or one call to the worker per step. Threads run side by side without a lock, as the service's do; `ControllerRestart`, `LoseCall` and a refused transition leave what was appended before them. |
| `Rollout` | `rollout.py`, `controller_service.py` 1835-1870 | `record` is the latest snapshot, `job[t]` what a request's thread executes. |
| `Resolution` | `capability_resolution.py`, `scheduler.py`, `management.py` | Resolving a query against a worker and against a fleet, with its reasons, and the scheduler's order. |
| `Placement` | `resources.py` 279-487 | Validity of a placement request, its evaluation, and `Fits`, the reference definition `RunsAsAdmitted` and `SelectedWasTrue` compare it with. |
| `TargetAdmission` | `targets.py` 354-503, `capabilities.py` | The admission decision of an exact target. |
| `Fleet` | `controller.py`, `api.py`, `worker_state.py`, `fleet_refresh.py`, `worker.py` 252-312 | Composes the three with workers that change. `call[t]` is a thread's probe, dispatch, observation or ingest between its read and its write; `handling` the dispatches a worker's endpoint is handling, which go through `Accept` (256-268), `AdmitPlacement` (299-304), `AppendDispatch` (314) and `Execute` (318) whether or not the client still waits; `Start` puts a stopped worker's process back on whatever machine and interpreter it then finds; `stored` what a restart replays; `was`, `raced`, `ran`, `answer` are history. |
| `Bundles` | `bundle_transfer.py`, `bundles.py`, and their callers | `staging`, `published`, `temporary` are the directories, `thread` the handlers one file operation at a time, `client` the uploaders. `root_for` changes no state and is not an action. |
| `Artifacts` | `package_artifact.py`, `supervisor.py` 340-420, `providers.py` 230-325, `worker.py` 380-442, `controller.py` | `stage`, `previous`, `request` are the files, `session` and `inbox` the transfer, `job` the worker's request; a write may be torn where the code writes in place. |
| `LedgerFacts` | nothing of the code | Facts about appending to a ledger that the proofs use. |
| `..._proofs` | | The theorems, section 4. |
| `MC...` | | One per component: the instance TLC checks, with its symmetry where one is used. |

Definitions whose comment begins with *Mutant* are deliberately wrong forms of
the definition that follows them. No specification uses them; each is what its
definition would look like with a plausible bug, and the property it is paired
with in `PROJECT.json` fails for it.

Abstractions worth knowing:

* A dispatch is a request id and a binding; an execution record is the number of
  the execution that produced it. Messages are not tracked in `WorkerReplay`: any
  dispatch may arrive at any time and any number of times, which contains loss,
  duplication, reordering and every retry policy.
* In `WorkerReplay` and `Detached` a ledger append is atomic, or raises with or
  without its line in the file. Torn lines are `Ledger`'s subject: they stop every
  reader and writer until an explicit repair.
* In `Lifecycle` an authorization id stands for its token, and a request for its
  authorization, worker and key. `submit_request` takes a token and does not use
  it, and neither does the model. A submission for an authorization that is not
  active when it begins can only raise, since a status never returns to active,
  and is left out.
* In `WorkQueue` and `TargetEvidence` the length of a ledger stands for the size,
  time and digest the code compares, since every append changes them. Reading the
  ledger is one step with taking its signature: what the code may read beyond the
  signature only makes it read again. Whether a worker is eligible for a work, and
  what an admission decides, is any outcome.
* The executor, TLS, framing and validation are left out; what they can do to a
  handler (refuse, raise, time out) is a nondeterministic step.
* In `Rendezvous` a dispatch may find any open session of a member; freshness
  and placement only narrow that choice.
* In `Broker` a text argument is a name, and the shape of the arguments the set of
  their field names. Each adapter operation has the outcomes the code tells apart.
* In `Broker` an append that raises leaves its line in the file or not. A torn line
  makes every later read of that ledger raise (`StorageError`), which is a stop of the
  process as far as requests are concerned. `reconcile` has no caller in the package; the
  model lets the one handler make it.
* In `FleetManager` a machine is a record of what an inventory looks at, and
  somebody may turn it into another one at any time (`Hosts`, `MaxChanges`). A
  deadline has passed or not. Identities of inventories, desired states and
  certificates are small numbers that are equal when their documents are. A thread reads
  the ledger itself where the code reads the store's cache of it, which threads share
  without a lock. Between two calls to the worker a thread reads nothing of it, so what
  happens to a worker happens before its next call.
* In `Rollout` a reconcile returns any of the results `FleetManager` can produce.
* In `Fleet` time is counted in ticks of one description lease, and workers are
  remote: in-process workers share the code and not the transport.
* In `Bundles` and `Artifacts` a byte string is the sequence of its chunks or the
  build it comes from. A rename is atomic, a write in place may be torn, and what
  was fsynced stays. In `Bundles` the verification of an entry and its discard are one
  step. What a consumer does with the path `root_for` returned is outside: it copies
  file by file (`artifacts.py:106`) while a collection or a publication may remove the
  directory, and nothing is claimed of such a copy.
* In `Resolution` an emulated worker satisfies no requirement on the architecture, `any`
  included (`env_satisfies`), but the reasons name the architecture only where it was
  asked for (`EnvUnmet`, `capability_resolution.py:605`).

## 3. Runs

Every run passes. The properties of a run are those of its configuration; each
is stated in words above its definition.

| Run | What it shows |
|---|---|
| `worker` | One and two connection slots. `WriteAhead` for both; for one, `AtMostOnce`, `SameAnswer` and `ImplementsOnce`: the endpoint implements `ExecuteOnce`. |
| `detached` | `CarriedOnce` (accepted once, one thread, attempts in order) and `NoLostWork`, for a rendezvous-only controller, whose recovery can meet the unbound listener. |
| `execution` | `CompletedIsDurable` and `WorkSettles` for an endpoint controller and a serial worker, both of which crash. |
| `rendezvous` | `SessionsInOrder`, `CommandBound`, `NoGhost`, and that every closed session loses its listener thread (`ClosedEnds`). |
| `lifecycle` | `ChainVerifies` of the file; `SingleUse` and `EnrollmentSound` (decisions agree, no rebinding, nothing without its approval and request) of what it records. |
| `service` | `ReplayWindow` of the replay cache, `QueueExact` of the queue, `OneEvidence` and `EvidenceIsDurable` of target execution. |
| `broker` | `RunsOnce` (again only where the record of the run was lost), `RanUnderLease`, `OneAnswer`, over stops and appends that raise at any step. |
| `update` | Two request threads. `VersionVerified` for any interleaving; `SettledWhenSchedulable` and `ReadyIsEarned` for a worker whose operations follow each other. |
| `rollout` | `CanariesFirst`, `CompletedIsEarned`. |
| `fleet` | `SelectedWasTrue`, `RunsAsAdmitted`, `SlotsBalanced`, `TargetWasVouched`. |
| `bundle` | The service's cache and a worker's. `PublishedIsVerified` for the service, `CacheBounded` for both, each with its own excess, and `UploadSettles`. |
| `artifact` | `VerifiedIsInstalled`, `UpdateSettles`. |

Type invariants (`TypeOK` and its like) and a few narrower properties stand in the
modules without a place in a run: `AcceptedSettles` of `Detached`,
`InterruptedStays` and `DrainedStartsNothing` of `WorkerReplay`,
`MissingOnlyInFlight` of `TargetEvidence` and `AppendOnly` of `Ledger`, the last four
of which are proved. Each holds when it is added to the configuration of its module.

### Claims the code does not keep

These definitions state what a document, a comment or a docstring of the repository
says, and TLC refutes each of them: add the name as an `INVARIANT` to the
configuration named (for `NotDispatchedAgain` with `Requests <- ScheduleRequests`,
`Expiry <- ScheduleExpiry` and `Capacity = 3`).

* **`DuplicateIsIdempotent`** (`worker`). `docs/CONTROLLER_WORKER_PROTOCOL.md:40`:
  "A duplicate request with the same request identity is idempotent". Two copies on
  two connections both pass `_prior_dispatch` before either has appended its
  dispatch, and the workload runs twice. The units the supervisor writes serve one
  connection at a time, where it is proved.
* **`TerminalIsFinal`** (`detached`). `controller_service.py:387`: "Completed work
  remains authoritative in the append-only ledger". A second submission reads
  `QUEUED`, the first one's thread runs to `COMPLETED` and leaves the registry, and
  the second starts a thread for it: `RUNNING` follows `COMPLETED`. Recovery has
  the same window, since the socket is open before it. The worker's
  `AtMostOnce` limits the damage: the work is still run once.
* **`RevokedGetsNothing`** (`rendezvous`). `rendezvous.py:353`: "Immediately
  terminate every live session for a revoked identity." A listener thread that has
  read the membership under the lock hands the pending command out after
  `revoke_worker` returned; `ClosedEnds` shows that the session ends eventually.
* **`BatchIsOneDecision`** (`lifecycle`). `store.py:374-375`: "an authorization
  consumption and its enrollment request must become one durable controller
  decision". `append_many_if` writes a line per record; a write that stops after
  the first leaves, directly or once `recover` has cut the torn rest, a consumed
  authorization without its request, or an approval without its membership, and no
  operation completes it.
* **`NotDispatchedAgain`** (`service`). `work_queue.py:3-4`: "Recurrence identity
  plus idempotency prevent duplicate recurring triggers." `enqueue` patches the
  shared projection after its append without a lock: when a tick dispatches the
  work first, it becomes `QUEUED` again and the next tick dispatches it again.
* **`NeverRepeated`** (`broker`). `capability_broker.py:1708-1709`: "A crash after
  the adapter completed but before the result ledger was appended must not repeat a
  privileged operation." The audit record is written after the adapter. A stop between
  the two, or an audit append that raises without its line (1755) and is caught by the
  server, which goes on (1943, 1970, 2123), leaves no trace, and the next copy of the
  request runs again. `RunsOnce` shows that a lost record is the only way.
* **`NeverReadyInUpdate`** (`update`). `docs/FLEET_MANAGEMENT.md:199`, of the conditions
  of READY: "AND no unresolved update/restart transaction makes the worker unverified".
  Each request has a thread of its own (`service_transport.py:297-310`) and nothing keeps
  two off one worker. A `certify` that has read that there is no transaction
  (`fleet_ops.py:461`, 482) writes READY (493) over the state of a worker whose package
  another thread's `reconcile` is replacing by then. `SettledWhenSchedulable` and
  `ReadyIsEarned` are for workers no two operations have overlapped on.
* **`RanWhereAllowed`** (`fleet`). `docs/FLEET_MANAGEMENT.md:173`: "The scheduler
  ignores any worker whose management state is not `READY` or `BUSY`." The slots
  the network controller schedules from carry no management state
  (`controller.py:966`), and the worker's own starts READY (`worker.py:80`): a
  worker quarantined in the store that restarts runs work.
* **`AnswerIsHonest`** (`fleet`). `docs/CAPABILITY_RESOLUTION.md:6-8`: "When none
  qualify, the result is `NO_ELIGIBLE_WORKER` with per-worker machine-readable
  reasons". The consumer result of a dispatch for which no worker qualifies has no
  disposition of its own and takes the default, `EXECUTED` (`api.py:172`).
* **`VerifiedIsTrusted`** (`artifact`, with `ChunkCount = 1`, `Transfers = {1}`,
  `MaxUpdates = 4` and `MaxFaults = 3`). `supervisor.py:442`: "a mismatch fails closed so a substituted artifact
  can never be pip-installed as a trusted update". A rollback whose own descriptor under
  `previous/` was torn is checked against the next candidate, the descriptor of the stage
  directory (`supervisor.py:460`). When the retained file is a stale copy of the same name
  and size that `installable_upgrade_source` keeps, and that copy is the staged build, the
  rollback is VERIFIED and installs the build it was to replace. `VerifiedIsInstalled` is
  about the descriptor beside the file.
* **`ExactIsPrevious`** (`artifact`). `docs/FLEET_MANAGEMENT.md:231-236`: "If the
  previously running version predates content-addressed storage: [...] rollback
  capability = partial". With nothing retained, `read_previous_artifact` retains
  what is staged, which is the build being installed, and the apply claims an exact
  rollback; so do two stagings before one apply.

Other behaviours of the code that the models show, and that a property excuses or
leaves alone:

* A failed append of "connected" leaves a session nobody closes (`NoGhost` is
  stated for `faults = 0`); a failed append in the controller can leave accepted
  work without a thread until the next restart (`NoLostWork`).
* A copy of a request that waits for the replay cache's lock beyond its deadline
  may be handled again, once the first entry is pruned (`ReplayWindow`).
* `CapabilityBroker.reconcile` raises for a denied capability whose family has no
  status operation without arguments.
* The operator's `certify` makes a worker READY and leaves its transaction
  CERTIFYING. A controller that restarts in VERSION_VERIFYING while the worker is
  away starts a rollback. A missed reconnect deadline ends FAILED and DEGRADED,
  where `docs/WORKER_UPDATE_PROTOCOL.md:46` says "quarantines the worker". An
  answer lost during the apply leaves UPDATE_APPLYING, which no automatic step
  leaves (`SettledWhenSchedulable` names its two exceptions).
* A remainder worker that is still pending does not stop a rollout, which may end
  COMPLETED; a second request for a rollout in progress executes it a second time
  at once, and a resumed snapshot may drop later successes.
* Observing a runtime without a placement in the request makes the worker refuse
  the dispatch (`worker.py:268`), and the client marks it UNAVAILABLE.
* A worker without a lock around its bundle handlers may publish an archive whose staged
  bytes another handler was still writing; `root_for` verifies what it finds and refuses
  it, so `PublishedIsVerified` is stated for the service.
* An observation written over a slot loses the dispatches another thread counted
  in between (`SlotsBalanced` and `SelectedWasTrue` leave such workers out).
* A crash between `archive.part` and `state.json` leaves a transfer no retry can
  repair; abandoned `.publish-*` directories and staging directories are never
  collected and can fill the cache or its transfer limit (the four conditions of
  `UploadSettles`). Capacity is checked for the archive and charged with content and
  metadata besides, and by each of a worker's handlers on its own (`CacheBounded`).
* A stale copy of another build with the same name and size blocks an update for
  good (`UpdateSettles`).

### Bounds

Every unbounded counter is cut by a named constant in a guard.

* `MaxMessages = 3`, `MaxExits = 2`: a dispatch, its duplicate and a conflicting
  or management request, over two restarts. The theorems have no such bound to
  rely on: they hold for all values.
* `Conns = {c1, c2}` with `slots` any non-empty subset: serial and concurrent
  endpoints in one run.
* `Bindings` has two members, so that a retry can be identical or conflicting.
* `MaxSubmits = 3`, two clients, two variants, two threads: racing equal and
  conflicting submissions, and a thread that outlives the submission it raced.
  `MaxCrashes = 2` makes recovery itself crash. `MaxFaults = 1`.
* `Execution`: one work item, one controller crash, one worker exit, two messages
  to the worker: an attempt, and a retry after either end failed.
* `Rendezvous`: one worker (workers share only the lock), two requests, one
  dispatcher, two sessions, one crash, one revocation, one failed append. One
  dispatcher is enough for a late response to meet the next command; a second one
  that finds a command in flight is refused at once (`rendezvous.py:121`).
* `Lifecycle`: two processes, two authorizations, one worker that may be approved
  under a second name, two keys, an authorization meant for somebody else.
  `MaxLines = 10` is two complete enrollments of different keys; `MaxStop = 3`
  lets a write stop in any record of the first of them; `Ttl = 1` and
  `MaxTime = 1` let the clock pass the expiry between an operation's two steps.
* `Service`: two threads, three arrivals out of nine requests: a work submitted
  under two request ids, a tick, a pause and a resume, and two executions, one of
  them requested again by its client and by another. `Capacity = 2` fills the
  cache; two requests expire at `MaxTime = 1`; `MaxFailures = 1` is a crash or a
  failed save. Three arrivals are what it takes to sign the index for a ledger it
  does not reflect, crash, and look up what it lacks.

* `Broker`: one handler, since both servers serve one connection at a time; a
  reboot under a lease and a malformed request, each sent at will; two plans, one of
  which names a denied capability beside a service; a Linux and a Windows profile;
  `MaxLeaseEvents = 2` is a grant and its end; `MaxTime = 1` lets a lease run out;
  `MaxFaults = 1` is a stop or a failed append, at any step; one reconciliation.
* `Update`: one worker, since workers share no record, and two threads; two versions;
  three machines chosen so that each decision of the plan goes either way (`MCUpdate`);
  three operations or controller restarts and one change of the machine: an update, its
  interruption and what takes it up again. `Beside` names the pair that may run at a
  time, a certify asked for while a reconcile runs, and an operation beside another
  counts twice; while two run, the worker stays as it is, although a call to it may be
  lost. With every pair of operations in `Beside` the run has no error either; it takes longer.
* `Rollout`: three workers, so that there are one or two canaries and a remainder;
  two requests at once; five reconciles, which is every worker once and two of them
  again; one restart.
* `Fleet`: one worker with one slot, two client threads, three operations, a clock
  of two ticks with a lease of none: any fact is either of this tick or too old.
  Three machines: one that fits, one that is too small, one of another profile that
  lacks the tool.
* `Bundle`: two archives of two chunks, of one bundle or of two, two handlers, two
  faults. An entry is of 4 units and the limit is 7: one entry fits with the archive of
  the next, two do not, and an abandoned publication takes the place of one.
* `Artifact`: two builds of one version and one size and a third; two chunks, four
  transfers, two updates, two faults.

`CHECK_DEADLOCK FALSE` is set because bounded inputs run out: a system with no
request left to serve stops, and a worker process that ended for the last time
allowed may stay idle.

### Fairness

* A handler, listener, client or work thread that can take its next step takes
  it: these are operating system threads that wait for nobody else inside a step.
* A process that ended is started again: systemd and task-scheduler units restart
  it (`supervisor.py`).
* A wait ends: every receive, request and `submit` has a deadline.
* In `Bundles`, a handler or an uploader that can act again and again does so in
  the end (strong fairness): the service's lock and its listener are taken by
  waiting threads, not in order, but none is passed over for ever. In `Artifacts`
  the operator keeps trying, the worker handles what it is sent, and the deadline
  of an abandoned transfer passes.
* Nothing is assumed of the network, of other clients, of operators, or of how a
  dispatch ends. A torn ledger tail, which would keep a process from starting, is
  outside the models.

## 4. Proofs

A component's theorems are in the module `<component>_proofs`, which extends it.
`Execution_proofs` has those about `WorkerReplay` too, which `Execution` composes, and
`Delivery_proofs`, which extends `Rollout`, takes the other two ways in which something is
delivered to a worker as named instances over constants and variables of its own: `A` is
`Artifacts`, `B` is `Bundles`. In the same way `Lifecycle_proofs` goes on from the
enrollment of a worker to its management, `F` being `FleetManager`, and
`Rendezvous_proofs` from the sessions of workers that connect to the controller to the
client of workers that are connected to, `G` being `Fleet`. An instance does not
assume what its module assumes, so those theorems have the assumption as a hypothesis.
What several modules need of ledgers (a least and a greatest position, what an append and
an update leave alone) is in `LedgerFacts`. Every theorem holds for all values of the
constants, so for any number of clients, threads, sessions, processes, requests and
crashes.

| Module | Theorem | Statement |
|---|---|---|
| `Execution_proofs` | `TypeCorrect` | `Spec => []TypeOK` |
| | `WriteAheadHolds` | `Spec => []WriteAhead`, any number of slots |
| | `SerialInvHolds` | `Spec => [](TypeInv /\ SerialInv)` |
| | `ExecutesAtMostOnce` | `Spec => []AtMostOnce` |
| | `AnswersAgree` | `Spec => []SameAnswer` |
| | `DrainHolds` | `Spec => DrainedStartsNothing` |
| | `InterruptedForGood` | `Spec => InterruptedStays` |
| | `WorkerImplementsOnce` | `Spec => ImplementsOnce`: the refinement of `ExecuteOnce` |
| | `CompletedWorkDurable` | `SystemSpec => []CompletedIsDurable` |
| `Detached_proofs` | `DetachedTypes` | `Spec => []TypeOK` |
| | `WorkCarriedOnce` | `Spec => []CarriedOnce` |
| | `WorkNeverLost` | `Spec => []NoLostWork` |
| `Rendezvous_proofs` | `RendezvousTypes` | `Spec => []TypeOK` |
| | `SessionsFollow` | `Spec => []SessionsInOrder` |
| | `CommandsBound` | `Spec => []CommandBound` |
| | `NoGhostSession` | `Spec => []NoGhost` |
| | `SlotsGivenBack` | `NoneIsNoDescription /\ G!ClientAssumption => (G!Spec => []G!SlotsBalanced)`, of `Fleet` |
| | `RunsWhatItAdmitted` | under the same hypotheses `G!Spec => []G!RunsAsAdmitted`, of `Fleet` |
| | `SelectedOnTruth` | under the same hypotheses `G!Spec => G!SelectedWasTrue`, of `Fleet` |
| | `TargetsVouchedFor` | under the same hypotheses `G!Spec => G!TargetWasVouched`, of `Fleet` |
| `Service_proofs` | `ServiceReplayWindow` | `Spec => []ReplayWindow` |
| | `QueueIsExact` | `Spec => []QueueExact` |
| | `TargetOneEvidence` | `Spec => []OneEvidence` |
| | `TargetEvidenceDurable` | `Spec => []EvidenceIsDurable` |
| | `LookupMissesOnlyInFlight` | `Spec => MissingOnlyInFlight` |
| `Lifecycle_proofs` | `LedgerVerifies` | `Spec => []ChainVerifies` |
| | `EntriesAreKept` | `Spec => AppendOnly` |
| | `AuthorizationsSingleUse` | `Spec => []SingleUse` |
| | `EnrollmentsSound` | `Spec => []EnrollmentSound` |
| | `VersionsVerified` | `F!Spec => F!VersionVerified`, of `FleetManager`, any number of threads |
| `Broker_proofs` | `OperationsRunOnce` | `Spec => []RunsOnce` |
| | `OperationsUnderLease` | `Spec => []RanUnderLease` |
| | `OneAnswerGiven` | `Spec => []OneAnswer` |
| `Delivery_proofs` | `CompletedEarned` | `Spec => []CompletedIsEarned`, of `Rollout` |
| | `CanariesGoFirst` | `Spec => CanariesFirst`, of `Rollout` |
| | `VerifiedInstalls` | `A!Spec => []A!VerifiedIsInstalled`, of `Artifacts` |
| | `PublishedAsOffered` | `B!BundleAssumption => (B!Spec => []B!PublishedIsVerified)`, of `Bundles` |
| | `CacheStaysBounded` | `B!BundleAssumption => (B!Spec => []B!CacheBounded)`, of `Bundles` |

### Assumptions

* `None`, and in `Execution` the mark of a broken connection, is none of the values it
  stands beside (`NoneAssumption`, `DetachedNone`, `RendezvousNone`, `LinkAssumption`).
* Bounds, times and the cache's capacity are natural numbers (`BoundAssumption`,
  `DetachedBounds`, `RendezvousBounds`, `LifecycleAssumption`, `ServiceAssumption`);
  there are finitely many threads and works, and works are numbered
  (`ThreadsAssumption`, `WorksAssumption`).
* A request of the service names an operation of the queue or of a target
  (`ServiceAssumption`).
* The broker serves one connection at a time (`HandlersAssumption`), as
  `UnixCapabilityBrokerServer.serve_forever` and the named-pipe server do. Nothing in
  `CapabilityBroker.request` keeps two calls of one request apart: with two handlers
  both find no audit record and both run the adapter. `reconcile`, which has no caller in
  the package, is taken to be made by that same handler; a caller that made it from another
  thread would break the assumption.
* The profiles and plans of the broker are documents its validation lets through
  (`ProfilesAssumption`, `PlansAssumption`): lists are lists, and a mapping has one value
  per key. Nothing is assumed of requests, leases, of the host or of what the tools return.
* For the fleet manager nothing is assumed: the theorem about it has no hypothesis.
* For the bundle cache, sizes and limits are positive, and there is a finite number of
  handlers, at least one (`BundleAssumption`).
* For the client of remote workers, nothing absent is a description or an age
  (`NoneIsNoDescription`); workers are finitely many and ordered, for the order in which
  they are chosen; memory is measured in natural numbers or unknown; a request is one the
  code's validation lets through, with a number of replicas, finitely many preferred
  tokens and, for an exact target, a registered worker; and what a probe measures is a
  runtime or an offload (`ClientAssumption`). Nothing is assumed of tokens, environments,
  policies, profiles or precisions.

### The worker

`TypeInv` strengthens `TypeOK` with what a handler's position says
about its fields: a handler that carries a dispatch has a request and a binding,
and only the endpoint's own slots are busy. `WriteAhead` is not inductive: a
workload about to start must already have its ledger entry and a response not yet
sent must already be durable, which `Durable` adds, with the same for the results
in memory. Serial endpoints need more, collected in `SerialInv`:

* `RunsInv`: executions of one request id are one execution; its binding is that
  of the latest dispatch entry of the request, and, while the process is up, the
  one in `dispatchBy`;
* `ResultsInv`: a result entry, a result in memory or a sent answer names an
  execution of its own request (an answer, of its own binding too);
* `HandlerInv`: a handler past the replay check and not yet executing carries a
  request that never ran, in a schedulable state; one that executes or answers
  carries the execution of its own request and binding.

The ledger may hold several dispatch entries of a request that never ran, left by
appends that raised after writing, with different bindings. A restart keeps the
latest: that the latest is the binding of the execution, when there is one
(`LatestBinding`), is why `SameAnswer` survives a failed fsync.

The refinement maps each step to a step of `ExecuteOnce` or to a stutter, by the same
invariant: beginning a workload is its begin, the append of a result its record, and a
crash, a failed append or a raising handler that drops a workload its loss.

### Detached work

`CarriedOnce` and `NoLostWork` lean on each other's causes, so one invariant has both:
a live thread is the one registered for its work and its attempt has a `RUNNING` event
(`ThreadsOK`, `RegistryOK`); recovery holds a start for every item with arguments and a
retry only of an attempt that ran (`ItemsOK`); a thread that only has to leave the
registry has recorded the end (`PopsOK`). `Lossless` is `NoLostWork` sharpened: a
submission counts as a holder of the work only while its last event is not `RUNNING`,
because a submission that reads `RUNNING` leaves the work to the thread.

### Controller and worker

Every step of the system is a step of the worker or leaves it alone, so the worker's
invariants carry over, `AtMostOnce` among them. What is new is
`CompletedIsDurable`: the controller's `COMPLETED` must rest on a result of the same
work. `LinkOK` says that a connection carries the dispatch of the one thread that waits
on it, `RecordsOK` that a record a thread was given is of its own work, `RanBefore` that
results come after executions. The proof found a fault in an earlier form of the model:
a connection whose worker had died stayed linked to its thread, and the slot, reused
after the restart, could have answered with another work's result. TCP does not do that;
`Broken` and `Closed` model what it does.

### Rendezvous

`SessionsInOrder` and `NoGhost` are nearly inductive. `CommandBound` needs `WaitersOK` (a
waiting dispatch has its command pending in its session, and no two dispatches wait in
one session) and `ResponsesOK` (a session holds no response but one to its pending
command): a late response is dropped because the pending command has changed, and that
is an invariant of all sessions, the closed ones included.

### Client of remote workers

Three of the four theorems share one invariant, `ClientInv`. It follows each description of a
worker from the moment it was made, through an answer not yet applied (`RepliesOK`), the
client's memory and the ledger a restart reads (`MemoryOK`), and says of it that it was
true then and, while the lease lasts, is still in the history `was` (`Real`). The
history forgets at each tick, and `RealKept` is the argument that it forgets only what
no lease covers. A worker is AVAILABLE only if it has been described, in memory and in
every record that a restart may restore the liveness from; without this part a restored
AVAILABLE worker would be scheduled with no description and so with no age, which
`FreshnessOf` takes for fresh. A slot shows the description in memory (`Current`) and
counts the dispatches that hold it (`Balanced`), for the workers whose slot no
observation was written over.

`SelectedWasTrue` then rests on what the resolution and the placement promise
(`ScheduledServes`, `EligibleServes`, `PlacementSuits`): that a decision to admit names a
mode in which the workload fits the snapshot, over every branch of the CPU, the
accelerator and the offload decision. `RunsAsAdmitted` needs nothing of what the client
knows, only an invariant of what the workers' endpoints are handling (`HandlingInv`): a
dispatch that was accepted carries proofs of the profile the process has, one that was
admitted was admitted on a description of that process, and between the two and the start
the process may change its resources but not its profile, which only a restart does, and a
restart drops what was being handled. `P!Fits` is thus about the moment of admission; what
the resources are at the start is left open, as the documentation says.
`TargetWasVouched` needs that the admission cache holds trusted entries of the ledger
(`TrustedOK`, `IngestOK`), whichever ingest was cached last. The order of the chosen
workers is a `CHOOSE`; that a sorted sequence exists is proved without induction, by
counting for each worker those before it (`PlaceIs`, `SortedIs`).

### Controller service

The invariant has a part per component of the composition.

* *Target execution.* `EvidenceIsDurable` and the lookup rest on `FreshOK`: what the
  index lacks of the ledger's evidence is in flight, that is, appended by a thread that
  has not left `add`. It holds of the entries a lookup would use and of those the lock's
  holder will sign, and the file is never signed for more; `RanOK` makes the thread that
  records an execution the only one.
* *Queue.* `QueueExact` is stated for operations that do not overlap (`overlapped` is
  its history variable): `Alone`, and the projection in memory and the map a thread
  holds are those of the ledger up to what the thread has just appended. What holds
  with overlaps is that nothing unknown to the ledger is ever in a map (`HeapKnows`,
  `ThreadsKnow`) and that a work is admitted once (`AdmittedOnce`).
* *Replay cache.* A thread in the check has no operation yet (`CheckFirst`).

### Ledger and lifecycle

Operations decide on what they read before they take the lock, so the invariant must not
speak of reads: it says what the ledger holds. `Commit` re-reads under the lock, and what
it re-reads decides; the `Story` is the same for every prefix a stopped write can leave.
`CreatedOnce` and `DecidedKnown` (only submitted requests are decided) are the facts a
decision needs of its request's authorization. `EntriesAreKept` is the step form: what a
step does to the readable lines, repair included (`Later`).

### Fleet manager

`VersionVerified` holds whatever runs beside an operation, because an operation moves the
copy of the transaction it has in hand and checks the version against the inventory it has
in hand; what other threads append in between cannot change either. The invariant
`VersionInv` says so of each thread: of the steps it has left at most the next one
certifies, and if it does, the inventory in hand shows the version that the transaction in
hand expects (`Checked`). The readings that put such a step in front (an observation that
finds the worker back, a late return) check it in the same step; every other operation and
step puts only steps in the list that certify nothing (`Plain`, `Calm`).

`SettledWhenSchedulable` and `ReadyIsEarned` are stated for a worker whose operations do
not overlap, and are checked, not proved.

### Broker

`RunsOnce` counts runs and lost records, which no step does; the invariant `RunsOK` gives
each run its account: the runs of a request are those whose record was lost, with the
process or with an append that raised before its line, and one more exactly if the audit
ledger or a handler that has just executed accounts for it. A handler past the recovery has
found no audit record of its request (`HandlersOK`), and with one handler it stays so until
it writes it: `AuditedOnce`, from which `OneAnswer` follows, since results and answers are
only ever copied from the audit ledger (`Vouched`). The lease
ledger is described by `LeasesOK`: the first event of a lease is its grant, and no later
event makes it active. An active lease has therefore one event at the time of the check,
and what a handler saw of the ledger when its request arrived (`seen`) is a prefix of it
(`UnderLease`), whatever is appended later.

### Rollout

A rollout's record is replaced as a whole by whichever thread persists last, and a thread
that takes one up again starts from the results it read. The invariant `Inv` therefore
follows the results wherever they are, in the record and in each thread: a success in them
is in `ready` for *that* rollout (`Sound`), a thread's results are those of the first workers
of its plan and what is next follows on them (`Fits`), results beyond the canaries' are there
only if every canary let the rollout go on (`Gated`, `Open`), and a thread about to record
COMPLETED has all canaries behind it, none pending and none failed (`Complete`). `ready` only
grows, so what other threads do in between cannot disturb this.

### Package artifacts

`DiskInv` assumes nothing of the bytes on the disk, which may be torn or another build's at
any time. It says that the build an apply was asked for is the one described in the stage
directory until the apply ends, and the one of a rollback the one described in `previous/`,
unless that descriptor is torn (`StillNamed`); and that the file pip will read is the one
that was verified against it (`Checked`). The worker handles one request at a time and stages
under the same loop, which is why the descriptor cannot change between the two.

The proof failed for the property as it was first stated, of every installation that is
reported VERIFIED, and TLC then found the behaviour at larger bounds: see
`VerifiedIsTrusted` above.

### Bundles

One invariant carries both. In the service only the holder of the lock is within a handler,
and what it holds is what it verified: from the check in `commit` to the publication the
staged archive is the one offered, and so is the copy under `.publish-*` (`Guarded`). No
step of another handler comes between, since entering takes the lock, and a handler whose
client has given up keeps it. A worker's handlers have no lock, which is why
`PublishedIsVerified` is not claimed of them.

`CacheBounded` is a count: every handler that has found room and has not yet published
may add one entry (`Bounded` adds their number to the entries). One that goes on to publish
saw that its archive fits; there are then at most `Publishers` of them, the holder of the
lock in the service and any of the handlers in a worker, and each step that adds an entry
takes one handler from the count.

### Only model-checked

* The liveness properties (`WorkSettles`, `ClosedEnds`, `UploadSettles`, `UpdateSettles`):
  the prover handles neither fairness nor ENABLED.
* `SettledWhenSchedulable` and `ReadyIsEarned` of `FleetManager`. The order of the steps of
  every operation, and that no other operation is under way on the worker, would both have
  to be in the invariant; the run enumerates them.

Every other invariant and action property a run checks is stated by a theorem.

## 5. Not modelled

Listed with reasons in `PROJECT.json` under `components`. Four kinds: host I/O
(executor, containment, probes, topology, service managers, commissioning files);
documents (protocol, contracts, evidence, receipts, provenance, challenges) and
pure encodings; single-writer files (the trust store and the registry); and code
that nothing in the package calls (`ChallengeReplayStore`, `gc_package_artifacts`,
`mark_busy`, a work queue with its own dispatcher). Of `lifecycle.py` the sessions
and presence (532-657) and of `store.py` the compaction are left out.

## 6. What remains

1. **Presence** (`lifecycle.py` 532-657) over `Lifecycle`'s ledger, composed with
   `Rendezvous`.
2. **Larger fleets**: two workers in `Fleet`, for the fan-out of a dispatch to
   replicas on different workers.
