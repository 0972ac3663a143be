# Verification of koprs

TLA+ models of [koprs](../src), a Rust library for writing Kubernetes operators on top of kube-runtime: `crates/koprs` (controller run loop, leader election, finalizers, resources, watchers, status), `crates/koprs-external` (polling of sources outside the cluster), `crates/koprs-admission` (webhook server) and three example operators. The models are checked with TLC on small instances; the central ones are also proved with TLAPS for every value of their constants.

Source lines are given as `file:first-last`, relative to the crate. `PROJECT.json` maps every definition to its lines.

## 1. Inventory

What the system consists of, the state each part keeps, what acts on it, what is hard about it and what makes it correct.

| Component | State | Operations | What is hard | Correct when |
|---|---|---|---|---|
| Leader election (`leader.rs`) | the Lease on the API server; per replica the last version observed and when, the last renewal | `acquire`, `renew_until_lost`, `release`, all through `try_acquire_or_renew` (GET, then POST or PUT) | several processes, a server, lost replies, dropped requests that still land, timers, restarts under the same name | one replica leads; it has stopped before another may take over; a release frees only the own lease; somebody leads in the end |
| Run loop (`controller.rs`) | readiness flag, shutdown channel, the task that waits for the signal, reconciles in flight | `ControllerBuilder::run` | three tasks and a scheduler, a signal at any moment, loss of the lease with reconciles in flight, time-outs | no reconcile outside the leadership; nothing that changed or failed is forgotten; shutdown ends |
| Finalizers, status, owners (`finalizers.rs`, `status.rs`, `owners.rs`) | objects on the API server, and copies of them that are out of date | guarded JSON patches, conditions, label mappers | every call works on a stale copy and may fail, or succeed with its reply lost | cleanup always happens, foreign changes survive, the child converges to the spec |
| configmapsync example | one custom resource, its ConfigMap | `reconcile`: finalizer, apply, collect, label, status; cleanup | edits, deletion and re-creation between two calls of a reconcile; calls that land after the reconcile was dropped | no orphaned child; the child converges |
| External watcher (`koprs-external/watcher.rs`) | what the source last knew, error count, a bounded channel | poll, diff, send, back off, end | the source changes while it is listed, a poll is dropped half-way, a full channel, a receiver that goes away | the consumer can mirror the source: nothing lost or reordered |
| Object store and HTTP pollers (`store.rs`, `http.rs`) | ETags known; whether the endpoint was seen and the validators of its last answer | `poll` | missing tags, 304 and 404, a body that breaks off after the answer was accepted | every change and removal is reported once, as what it is to the consumer |
| Watchers (`koprs/watcher.rs`) | the stream of a watch and a bounded channel | `watch`, `watch_objects`, `watch_events`, all through `spawn_watcher` | writes before the first list, a full channel, the first error (it ends the task), closed receivers | a reader that reads all knows every object |
| Garbage collection (`gc.rs`, `scope.rs`) | children listed by label, in a namespace or all | `gc_resources` | children that are replaced, relabelled or deleted between the list and their delete; deletes that fail | what it found is deleted, and nothing else |
| Resource helpers (`resources.rs`) | the sleep of a wait | `apply`, `ensure`, `delete`, metadata patches; `wait_for_resources` and `wait_for_condition`, which poll | writes between the GET and the apply of `ensure_resource`; errors while waiting | what others wrote stays; outcomes are true; waits return |
| Webhook server (`webhook.rs`) | readiness flag, connections, shutdown channel | `run`, `serve`, `serve_connection` | drain of connections, slow TLS handshakes | every accepted connection is served or timed out; shutdown ends |
| TLS reload (`tls.rs`) | current certificate and the time stamps it was loaded from | `current`, `maybe_reload` | certificate and key are replaced one after the other; concurrent handshakes | a handshake never uses a pair that does not fit; a new pair is used in the end |
| Admission review (`review.rs`) and apiconfigsync's validator (`validator.rs`, `url_policy.rs`) | none; the policy is fixed at start-up | parse, `admit`, `validate`, reply | reviews that do not parse, time out or are cut off by the drain; objects stored under another policy | what the rules refuse is never stored; every review ends |
| apiconfigsync, multicontroller examples | custom resources and children, the URL and the Secret with its token | `reconcile` | as configmapsync; a source that sends no events, children nobody watches | children converge |
| Builder types, metrics, events, scopes, errors | none, or counters | construction | - | - |

How they interact: `run` owns everything in one process. It spawns the signal task, which shares an `AtomicBool` (readiness) and a watch channel (shutdown) with it; it calls the elector first, then runs kube-runtime's controller and `renew_until_lost` in one `select!`, and cancels the controller when the lease is lost. The scheduler calls `reconcile`, which calls the helpers, which call the API server. Watches lead from the API server back to the scheduler, for children through the mappers of `owners.rs`. Replicas share nothing but the API server. The external watcher and the watchers are tasks of their own that talk to the rest through channels; the reconcile of apiconfigsync calls a fresh `HttpPoller` instead. The helpers keep no state between two calls: what they share is the API server, where users and other controllers write as well. The API server calls the webhook server for every create and update of an ApiConfigSync, those of the operator itself included, and stores nothing the webhook has not allowed (`failurePolicy: Fail`).

## 2. Modules

| Module | Models | Composition |
|---|---|---|
| `LeaseLock` | abstract specification: a lock with a name on it and those who act under it | |
| `LeaderElection` | `leader.rs` as `run` drives it, replicas, API server and time | implements `LeaseLock` (`Lock == INSTANCE LeaseLock WITH holder <- lease.holder, leading <- {r : Leading(r)}`) |
| `MCLeaderElection` | the view for TLC | extends `LeaderElection` |
| `LeaderElectionLive` | finitely many disturbances, fairness | extends `LeaderElection` |
| `LeaderElection_proofs` | theorems | extends `LeaderElection` |
| `ControllerRun` | `ControllerBuilder::run`, the signal task, the scheduler as `run` configures it | the election as seen from one replica |
| `ControllerRun_proofs` | theorems | extends `ControllerRun` |
| `ChildSync` | the four reconcilers of the examples (configmapsync, secretsync, serviceaccountsync, apiconfigsync) call by call with the helpers they use, users, cache and server | |
| `ChildSync_proofs` | theorems | extends `ChildSync` |
| `ApiServer` | the objects of one kind on the API server, their users and the controllers of others | |
| `Finalizers` | `finalizers.rs` | extends `ApiServer` |
| `GarbageCollection` | `gc.rs` | extends `ApiServer` |
| `Resources` | `resources.rs` | extends `ApiServer` |
| `Watchers` | `koprs/watcher.rs`, and a reader of the channel | extends `ApiServer` |
| `Helpers` | a helper among outsiders | extends the four, over one `ApiServer` |
| `MCHelpers` | the places of the objects for TLC | extends `Helpers` |
| `Helpers_proofs` | theorems | extends `Helpers` |
| `CertReload` | `ReloadingCertResolver`: handshakes that share a pair of files | |
| `CertReload_proofs` | theorems | extends `CertReload` |
| `Webhook` | `WebhookBuilder::run`, the signal task, connections | |
| `Webhook_proofs` | theorems | extends `Webhook` |
| `Admission` | reviews on the connections of the webhook server, the validator, and the server that stores what was allowed | extends `Webhook` |
| `MCAdmission` | policy and specs for TLC | extends `Admission` |
| `Admission_proofs` | theorems | extends `Admission` and `Webhook_proofs` |
| `ExternalWatcher` | `watch_external_with_config` with an `ObjectStorePoller` or an `HttpPoller`, and a consumer | |
| `ExternalWatcher_proofs` | theorems | extends `ExternalWatcher` |

In every module an action is a whole handler between two awaits: what the code does without awaiting is one step. Seeded faults (`ObserveKeepsTime`, `DrainedAtOnce`, `DeleteByName`, ...) stand before the definition they would replace; no specification uses them. They record which slip of the code each property catches.

### LeaderElection

`role[r]` is where `run` of replica r is, `step[r]` where its attempt is. An attempt of `try_acquire_or_renew` takes these steps: `BeginAttempt` (`started` is taken, the GET is sent), `ServeGet`, then `YieldToHolder` (`Attempt::HeldByOther`) or `SendClaim`, then `AcceptWrite` or `RejectWrite` on the server, then `Held` or `Conflict`. `Fail` loses the request or its reply at any point, `Timeout` is the `timeout`/`timeout_at` around the attempt, `GiveUp` the deadline found passed after a sleep. A write the replica no longer waits for goes to `orphans` and may land later (`LandOrphan`) as long as its resourceVersion is current; with an older one the server refuses it, so it need not be kept.

Time. `Instant`s are modelled by the time since them. `Tick` is disabled while a timer is due: tokio's timers are assumed to fire promptly relative to the unit of time. Clocks of different replicas run at the same speed, which is what the code assumes by comparing its own `Instant`s with another process's durations. All replicas have the same configuration. `ReadDelay` is an assumption about the API server: a GET that is served at all is served within that time of the start of the attempt. The code's only bound is `renew_deadline` (`ReadDelay = RenewDeadline` is allowed by the assumptions; `SafeTiming` then asks for more).

`lease_duration` counts whole units, so the conversion to `leaseDurationSeconds` is exact. The Lease is not deleted by others.

### ControllerRun

`phase` is where `run` is, `signal` where the signal task is; between `Received`, `Stored` and `Sent` any other task may run. `queued`, `delayed` and `running` are the scheduler's state, `changed` and `failed` remember what is owed to each object and appear in no guard. `LoseLease` stands for every return of `renew_until_lost`, `Acquire` for the return of `acquire`.

### ChildSync

One custom resource of one of the four operators (`op`, chosen at the start), and one child per namespace. `ConfigMapSync`, `SecretSync`, `ServiceAccountSync` and `ApiConfigSync` are the calls of the reconciles in order, one list for each path; what the calls do is the same. `at` is the call the reconcile makes next and `job` the copy it works on. `Serve` is what each call does on the server, `Allowed` when it is accepted: a finalizer patch carries a test of the finalizers in the copy, the URL must satisfy the policy and the Secret must be there, the other calls are applied or deleted unconditionally. `Error` fails a call before or after the server has handled it. `Drop` is a reconcile that is cancelled (time-out, lost lease, crash): its call stays in `late` with the data it carries and `Land`s at any time, or never. The GET of `ensure_resource` is not a step of its own: whether an Event follows the apply is left open instead.

The data of the child is the number of the edit it was made from, `Drift` for data somebody else wrote and `Blank` for the empty child of a URL that answers 404. `remote` is what the URL serves, `body` what the reconcile has read of it, `left` the namespaces some resource pointed to that was edited away from them, or is gone while the next one would point elsewhere; it appears in no guard. Abstractions: server-side apply replaces the whole content, so that keys that leave a spec leave the child with it; the bearer token is always configured; a URL that resolves to a private address is a poll that fails.

### ApiServer and the helpers

`objects` maps each place (namespace and name) to its object, with a uid that is new for every incarnation, a resourceVersion that is new for every write, `finalizers` in a list, labels and data. `Put` is the one way to write: no new version when nothing changes, the end of a terminating object with its last finalizer, an event for the watch in `stream`. Users create, edit and delete, others add and remove their finalizer and label; `held` remembers what others have put on an object and not taken off, and appears in no guard of the code. `Keys`, the places, is finite: a list ends.

`Helpers` runs one helper at a time. The helpers share nothing but the server, and a write one of them makes there is one an outsider can make, so nothing is lost by it.

- `Finalizers`: `copy` is the copy the caller works on, read at any time before. A patch carries its test: the whole list for an addition (`add_finalizer_patch`), the entry at the index found in the copy for a removal. `PatchFails` is a failed test, a 404 or a lost request. `remove_finalizers` takes everything, as documented, and is taken not to break a promise.
- `GarbageCollection`: `List` chooses scope and desired set and keeps place and uid of what is to go (`todo`, `orphans`); each delete is a step with its uid as precondition, in the namespace `object_api` gives.
- `Resources`: each request is a step. `ensure_resource` is `EnsureGet` and `EnsureApply`; a lost reply is `Return("Err")` with or without the write. The waits are `StartWait`, `Poll`, `PollFails`, `Wake`, with the length of the sleep in `delay`. Annotations are patched as labels are.
- `Watchers`: `StartWatch` lists, `TakeEvent` takes the next event, `Send` waits for room; without a receiver the message is dropped and the task goes on, as `.ok()` has it. `WatchFails` ends the task, for `try_for_each` stops at the first error. The reader keeps `mirror`; of a signal it makes a list.

### ExternalWatcher

`Read(p)` reads one object of the listing, so that the store may change between two of them; an HTTP endpoint is one object, read when it answers. `Listed` is the end of a poll: diff and what is remembered, no await. For the store these are `Diff` and `Remember`, for the endpoint `HttpDiff` (with `NotModified` for the conditional request and its 304) and `HttpRemember`, where a 404 resets both fields. A Last-Modified date is taken to change with the body. `PollFails` is an error, another status, a body that is too long or breaks off, or the poll time-out, at any point. `Send` waits while the channel is full. The consumer applies the events to `mirror`.

### CertReload

A load reads two time stamps and two contents, each with a system call, so each is a step (`StatCert`, `StatKey`, `ReadCert`, `ReadKey`); `Install` or `Keep` ends it. `at` says where a handshake is, `lock` who holds the write lock; `due` stands for `last_check.elapsed() >= reload_interval`. Pairs are numbered; `Torn` is the content of a file that was truncated and not written yet. Every change gives a file a newer time stamp: two changes within the resolution of the clock of the file system would go unnoticed by the code and are not modelled, nor are files that are missing for a moment.

### Webhook

`phase` is where `run` is, `conn[c]` what a connection waits for and `age[c]` how long the time-out of that stage has been running; `drained` is the time since the drain began. `watchers` is what the drain sees: the connections whose watcher has been taken and not dropped. `Accept` takes it with the slot (webhook.rs:674), before the spawn; the task starts (`StartTask`) and does the handshake afterwards, and drops the watcher when it ends (`End`). `Return` waits for `watchers`, not for connections. Reading a body has no time-out in the code and none in the model. The process is taken to end when `run` returns: what is still open then is cut off. `graceful_shutdown` is set.

### Admission

`Webhook` with a meaning for one of its requests at a time: `review` is the write of an ApiConfigSync that waits for the verdict, on its connection, with the object it was made from. `Decide` is the reply of the handler: an allowed write is stored unless the object has changed since. A review whose connection ends in any other way (time-out, disconnect, drain, end of the process) was not allowed. A review is denied with 400 when its object or its oldObject does not parse, so that a stored object that does not parse cannot be repaired through the webhook; the operator's typed client cannot read one and makes no write of it. A spec is a record of what the rules look at: whether it parses, scheme, credentials and host of its URL, whether its names are filled in. What is stored at the start was stored by an earlier process, with any policy. The uid of a review is its connection.

## 3. Runs

| Run | What it asks | Bounds |
|---|---|---|
| `leader_safety` | `MutualExclusion`, `StoppedBeforeExpiry`, `ReleaseReplacesOwnLease`, the implementation of `LeaseLock` and the inductive invariant under `SafeTiming` | 2 replicas, lease 5, deadline 2, retry 1, read delay 1: the smallest timings at which the leader can sleep past its deadline, a read can be late and a candidate can wait out a lease. Crashes, failures, restarts, shutdowns and late writes are not bounded |
| `leader_liveness` | `StableLeadership`: with finitely many disturbances one replica leads for good, unless all are shut down | 3 disturbances (crash, failed request, shutdown, unit of time during a request): enough for the leader to crash, the write of the successor to be lost and the first one to come back |
| `leader_slow_retry` | `MutualExclusion` with lease 5, deadline 4, retry 3, which `validate` accepts | violated: section 5 |
| `controller_run` | `ReconcilesInLoop`, `NothingForgotten`, `StandbyIsReady`, `ChangesReconciled`, `FailuresRetried`, `ShutdownCompletes` | 3 objects for 2 slots: an object must wait while two are in flight; changes, failures and restarts are not bounded |
| `controller_readiness` | `NotReadyAfterSignal` | violated: section 5 |
| `sync_converges` | `ChildGuarded` and `Converges` for each of the four operators | 3 edits (create, edit, retarget, delete, tamper or re-create, publish, remove the Secret), and one failed call or one dropped reconcile whose call lands late; 2 namespaces |
| `sync_retarget` | `NothingLeftBehind` | violated: section 5 |
| `external_watch` | `NothingLost`, `EventsFit`, `MirrorCatchesUp`, for the store and for an endpoint | 2 objects, 2 tags, 3 changes, 3 failed polls, a channel of 1: removed and re-added between two polls, full channel, back-off at its ceiling |
| `helpers` | `HeldKept` (finalizers, resources), `GcSpares` and `GcThorough` (gc), `EnsureReports` and `WaitReturns` (resources), `WatchFaithful` (watchers), each helper in turn | one name in each of 2 namespaces, one other controller, 2 values of data, 3 writes of outsiders, 3 calls that write or fail, a channel of 1, an interval of 45 s: delete and re-create between two requests, the back-off at its ceiling of 60 s, a full channel |
| `cert_reload` | `RotationNoticed`, `NeverOlder`, `RotationServed` | 2 handshakes at a time, any number one after the other, 3 pairs: a load can meet the first, the second and a half-written third |
| `webhook_admission` | `DrainIsComplete`, `HandlersFinish`, `ShutdownReturns` of the server; `FailsClosed`, `ReviewsEnd` of the reviews on it | 2 connections, the code's time-outs in units of 5 s (10, 10, 10 and 15 s): head and request together outlast the drain; 3 specs: good, refused by the policy, not parsed. `Webhook.cfg` checks the server alone with 3 connections, `Watched` included |
| `admission_cleanup` | `CleanupAdmitted` | violated: section 5 |

Deadlock is not checked in `ChildSync`, `ExternalWatcher`, `Helpers`, `Webhook` and `Admission`: when the bounded users are done operators and helpers really come to rest, a watch task has ended, and so has a process that returned.

resourceVersions are compared only for equality: `View` forgets their names. Six versions are enough for two replicas (at most five are in use), so that `Store` always finds a fresh one.

### Fairness

- `LeaderElectionLive`: processes that were not shut down take their steps and are restarted after a crash, the server answers, time passes. What is not assumed: that an abandoned write lands, or that a replica that was shut down returns.
- `ControllerRun`: the tasks of a process run (`WF`), a requeue that is due fires, a reconcile that hangs is timed out, and kube-runtime does not starve an object (`SF` of `BeginReconcile`: its queue is ordered by time, so an object that is due is served before those that become due later). What is not assumed: that a lease is won, a reconcile succeeds, or a pod is restarted.
- `ChildSync`: watch events arrive and the reconcile goes on. The 300 s requeue is assumed to fire only where no watch tells of a change: a child that is not watched (multicontroller), a URL. Elsewhere convergence rests on the watches and on the requeue of `error_policy` alone. Not assumed: that users stop (they are bounded), that a late call lands.
- `ExternalWatcher`: the task runs and the consumer reads.
- `Helpers`: a wait polls and wakes, a watch task takes and sends what it can. Not assumed: that a poll succeeds (failures are bounded), that the reader reads, that outsiders stop.
- `CertReload`: handshakes arrive and go on, time passes, a start-up that failed is repeated. Not assumed: that whoever replaces the files finishes; `RotationServed` speaks of files that rest at a pair that fits.
- `Webhook`: tasks start and run, timers fire, time passes; `SF` of `BeginDrain`, because `tokio::select!` picks among its ready branches at random and failing accepts disable the shutdown branch for 50 ms only. Nothing is assumed of clients and validators. `Admission` adds `SF` of `Tick`: time passes although accepts fail over and over.

## 4. Proofs

`LeaderElection_proofs`, from `ConfigAssumption` and `NamesAssumption`, for any replicas, versions and timings:

- `TypeCorrect`, and `ReleaseSafe` (`ReleaseReplacesOwnLease`), without any further assumption on the timings;
- under `SafeTiming` (`ReadDelay + RenewDeadline + RetryPeriod < LeaseDuration`, the condition `validate` would have to check): `NoTwoLeaders` (`MutualExclusion`), `LeaderStopsFirst` (`StoppedBeforeExpiry`), `ElectionImplementsLock` (`ImplementsLock`).

The argument. `MutualExclusion` is not inductive: a state in which a leader's lease has been rewritten by nobody knows whom leads to two leaders. `ElectionInv` adds what keeps a second claim out. `BaseInv` (types, `PhasesOK`, `TimersOK`, `VersionsOK`) holds whatever the timings; it says that a leader's time since its renewal is at most the deadline plus one sleep, and that a resourceVersion stands for one content. `ClaimsSafe` says of every replica that leads, or will when its accepted claim is answered: the lease names it, no other write can succeed, and nobody who knows the current version counts more than `ReadDelay` beyond its own count. Its own count is at most `RenewDeadline + RetryPeriod`, so under `SafeTiming` nobody finds the lease expired (`OthersYield`). Each action preserves `ClaimsSafe` for the replica that moves (`OwnStep`), for the others (`OtherStep`), and `Tick` adds the same to all counts (`TickClaim`). TLC checks `ElectionInv` itself in `leader_safety`.

`ControllerRun_proofs`, from `SettingsAssumption`: `TypeCorrect` (with the concurrency limit), `ReconcilesEndWithLoop`, `NothingIsForgotten`, `StandbyReady`. Each is inductive with `TypeOK`.

`CertReload_proofs`, from `LoadersAssumption`: `TypeCorrect` (with: the files are read exactly under the write lock); `NoRotationOverlooked`, by `TimesOK`: a loader's time stamp of a file is older than the file's as soon as what it read is not in the file any more, because the time is read before the content; `PairsOnlyAdvance`, by `OrderOK`: nothing a loader has read is older than the pair, because nobody else installs while it holds the lock.

`Webhook_proofs`, from `TimeoutsAssumption`: `TypeCorrect` (with the time-outs of the connections); `ConnectionsAreWatched` (`Watched`: whatever a connection waits for, its watcher is held) and, from it, `DrainEndsInOrder` (`DrainIsComplete` is not inductive by itself: `Return` looks at watchers only); and, under `PatientDrain` (`request_timeout < DRAIN_TIMEOUT`, which the builder does not check), `HandlersAreAnswered`.

`Admission_proofs`, from `TimeoutsAssumption` and `AdmissionAssumption`: `AdmissionIsAWebhook`, the refinement: every step of the reviews and of the API server is a step of `Webhook` or leaves it alone, so that its theorems hold with reviews under way too (`ReviewsAreDrained`, and `ReviewersAreAnswered` under `PatientDrain`). `ReviewsAreHandled` (`AdmissionTypeOK`) rests on it: the connection of a review that is under way is always with the handler, whichever action ends it. `WebhookFailsClosed` (`FailsClosed`) needs, besides, that `Decide` is the only step that stores a spec of a user.

`Helpers_proofs`, from `ApiAssumption`, `WaitAssumption` and `CapacityAssumption`, for any objects, controllers, data, channel and bounds:

- `OthersAreKept` (`HeldKept`), `SparesTheRest` (`GcSpares`), `NoOrphanIsLeft` (`GcThorough`), `UnchangedIsTrue` (`EnsureReports`). `HeldKept` needs that a mark belongs to one object and to none yet to come: `HeldInv` adds that uids are unique and no greater than the clock (`NumbersOK`) and that whoever is marked is there (`MarksKept`). Every write is a `Put`, so that one lemma (`PutKeeps`) carries the invariant over any write that `Honours` the marks, and each call of a helper is shown to make such a write. The lemma also says that an object either is new or goes on as it was (`Continues`), which is what `NoOrphanIsLeft` rests on: an orphan off the list is gone or terminating, and neither is undone.
- `TypeCorrect`. That no finalizer is listed twice needs to know what a write does to the list: `OneWrite` says that every step of a helper or an outsider leaves objects alone or is one `Put` that keeps the list, empties it, takes an entry out or appends one that is not there. The watch has `WatchOK`: nothing on its way is newer than the clock, and only the mode `signal` sends signals.
- `ReaderCatchesUp` (`WatchFaithful`). `Words(k)` is what the reader knows of k and what is on its way to it, in order: mirror, channel, the message about to be sent, the events not taken; the property is that its last word on k is the latest version. `AllWords` says what each of these words is. A write puts its news at the end (`WriteKeeps`), `TakeEvent` and `Send` take out or put in an empty word (`Shorter`, `Longer`), `Receive` takes out the mirror or the word it repeats, and the list of `StartWatch` has each selected object once and none that is not (`ListingOK`). In the mode `signal` a word is whatever version the reader will find when it lists.

`ExternalWatcher_proofs`, from `WatchAssumption`, for a store and an endpoint of any size, any tags, channel, intervals and bounds:

- `TypeCorrect`, with the ceiling of the back-off: 2^n is taken one power at a time up to the exponent the code stops at.
- `NoEventIsLost` (`NothingLost`). It is inductive with the types and `OnePerPath`: a poll makes at most one event per object. A failed poll must leave `known` alone; a finished one has an empty queue before it, and either reports an object or found it as it was known (`UnreportedIsKnown`).
- `EveryEventFits` (`EventsFit`), if the objects of a store have tags (`~TagsMissing`; `ExternalUntagged.cfg` shows what happens otherwise). `FitInv` turns `NothingLost` around: what is known is exactly the last word (`KnownExactly`), and each event in the channel fits what is told before it (`SentFit`), each one waiting fits the channel (`PendingFit`).

`ChildSync_proofs`, from `SyncAssumption`, for any namespaces, targets, edits, errors and late calls, and each of the four operators: `TypeCorrect`, and `ChildrenAreGuarded` (`ChildGuarded`). The difficulty is that a reconcile works on a copy that may be several versions old, while the resource is edited, deleted and created again. `GuardInv` therefore speaks of all versions somebody still acts upon, from the oldest: the copy of the reconcile, the cached one, those on their way; the last is the resource itself. They are in order (`InOrder`): a finalizer that one of them shows is there until a copy in deletion has been seen (`HeldNow`, `HeldBeforeDeleting`, `FreshBeforeDeleting`), at most one deletion lies ahead of a version without a finalizer (`OneDeletion`), and a target that changes is in `left` (`TargetsLeft`). A watch event drops versions from the front, a write appends one. With it `StageOK` says that the calls after the first find the finalizer on the server, and that `RemoveFinalizer` comes when the child of its copy is gone; `ChildrenOK` that every version in deletion names the namespace of a child there is.

Only model-checked: all liveness, for the prover has no ENABLED (`StableLeadership`, `ChangesReconciled`, `FailuresRetried`, `ShutdownCompletes`, `Converges`, `MirrorCatchesUp`, `WaitReturns`, `RotationServed`, `ShutdownReturns`, `ReviewsEnd`), and the violations. Every invariant and every safety property of an action that a run checks is proved. The properties of `LeaderElection` (but its types and the release) need `SafeTiming`, `HandlersFinish` needs `PatientDrain`, `EventsFit` needs `~TagsMissing`: in each case a configuration or a run shows that the code does not ensure it, or the builder does not check it.

## 5. Where the code does something else than its text says

Each is a run TLC finds violated; the quotes are in `PROJECT.json`.

- `leader_slow_retry`: the deadline is looked at after a full `retry_period` of sleep, so that the leader runs up to `renew_deadline + retry_period`; `validate` does not compare that sum with `lease_duration`.
- `controller_readiness`: the signal task may store `not ready` before `run` stores `ready`.
- `sync_retarget`: after `targetNamespace` is edited the ConfigMap in the old namespace is never deleted.
- `admission_cleanup`: the validator checks the URL of every object it is sent, those in deletion included; an object that parses but was stored before the policy was tightened can no longer lose its finalizer.

More configurations stand beside them and are violated too; they are not part of the runs because they concern narrower windows or wordings:

- `LeaderSlowRead.cfg` (`MutualExclusion`): the age of an observed lease is counted from before the GET that read it (`leader.rs:207`), so a GET served late shortens the lease; this is why `SafeTiming` has `ReadDelay` in it.
- `LeaderShutdown.cfg` (`ShutdownFreesLease`): a candidate that is shut down after its claim was stored and before it has handled the reply leaves the lease behind, where `leader.rs:18-20` says that shutdown releases it.
- `WebhookReadiness.cfg` (`NotReadyAfterSignal`): the race of `controller_readiness` in `WebhookBuilder::run` (`webhook.rs:636` and `644`).
- `LeaderRelease.cfg` (`ReleaseRefusedOnlyIfLost`): a renewal dropped by the end of the drain lands between the GET and the PUT of `release`, which is then refused although the lease never changed hands.
- `ChildSyncDropped.cfg` (`NothingLeftBehind`): the apply of a dropped reconcile lands after the cleanup.
- `ChildSyncStamp.cfg` (`ReadySinceKept`): a reconcile of a copy from before the first status write overwrites `lastTransitionTime` although Ready stays True.
- `ExternalUntagged.cfg` (`RemovalsReported`): an object without ETag is reported as added, with every poll again, and never as removed (`store.rs:3-5`).
- `WatchersErrors.cfg` (`OutlivesErrors`): the first error of a watch ends the task, where `koprs/watcher.rs:219-220` speaks of its restart. `WatchersShutdown.cfg` (`TaskShutsDown`): without a receiver the task goes on.
- `ResourcesUpdated.cfg` (`UpdatedWrote`): `ensure_resource` says `Created` or `Updated` although its apply wrote nothing, when somebody else wrote between its GET and the apply (`resources.rs:27`).
- `ExternalBackoff.cfg` (`FirstRetryAfterInterval`): the first retry waits for twice the interval; `ExternalShutdown.cfg` (`EndsWithoutReceiver`): without a receiver the task polls on as long as nothing changes.

## 6. Plan

Done: the election (with its abstract lock and proofs), the run loop (with proofs), the reconciles of the four example operators and the external watcher with both pollers (with proofs), the helpers against a busy API server (with proofs), the admission server with its certificates (with proofs) and the reviews it answers (with proofs).

Next, in this order:

1. Proofs: the safety half of the liveness properties, as steps that bring the goal nearer and are never undone (`Settled` under `GuardInv`, the drain of the run loop).
2. The pure functions as operators: the merge of conditions (`status.rs`), `lease_duration_secs`, checked against reference definitions.
3. The two controllers of multicontroller in one process: `try_join!` ends both when one fails.

## 7. Not modelled

- Metrics and their rendering, the probe servers' HTTP parsing, builder plumbing, traits, error types, events, metadata and owner references: data construction or pure I/O, without state that a step could get wrong.
- The optional fields of a review a validator may read, and the wording of replies.
- The classification of addresses bit by bit and the guarded resolver of apiconfigsync: hosts are classes, a refused address is a poll that fails.
- The removal of single keys from a child under server-side apply: the content is one value.
- hyper, tokio-rustls, kube-runtime and the API server are modelled from how the code uses them.
- Build files, scripts, manifests and tests.
