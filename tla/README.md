# Verification of shared-volume-controller

TLA+ models of the shared volume controller, the TLC runs that check them and the
theorems TLAPS proves about them. Paths are relative to `src/`; the two long files are
abbreviated *base* (`internal/controller/volume_controller_base.go`) and *sync*
(`internal/controller/sync_controller.go`).

## 1. The system

The controller is one process (one leader at a time) that gives pods access to shared
directories. A user creates a `SharedVolume` (namespaced) or `ClusterSharedVolume`; the
controller provisions an NFS server for it, a PV, a PVC, a ReplicaSet that runs the
syncer and a Service in front of it, and tells the syncer, at an interval, to copy data
from a source. Webhooks validate volumes and inject claims into pods that ask for them.

| Component | State it keeps | Operations | Shared with |
|---|---|---|---|
| Volume reconciler (*base*, two thin wrappers) | none of its own; finalizer, `spec.referenceValue`, `spec.nfsServer`, `status.phase` of the volume, and the children named after the reference value | ensure finalizer, generate NFS server, assign reference value, create children, check readiness, write status, clean up, release | API server through an informer cache; orders to the sync scheduler |
| Sync scheduler (*sync*) | `syncTimers`, the timers and the closures they run | start, stop, recovery at start-up, scheduled runs | both reconcilers, the recovery, its own timer goroutines, under one mutex |
| Sync requests (*sync*, `buildSyncRequest...`) | none | build a request from a source and its secrets, post it | called by the runs |
| Pod webhook (`internal/webhook/v1/pod_webhook.go`) | annotations, volumes and finalizer of a pod; PV and PVC per pod namespace | admit, clean up on deletion | volumes, PVs and PVCs |
| Pod cleanup reconciler (`internal/controller/pod_cleanup_controller.go`) | finalizer of pods | add finalizer, force deletion, in-use check, delete PV/PVC | pods, PVs and PVCs |
| Validation webhooks (`internal/webhook/validation`, `.../v1alpha1`) | none | validate create and update | guards of what users and controllers write |
| Manager wiring (`cmd/main.go`) | leader lease | start everything, recovery runnable | all |
| Generated code, manifests, build files | - | - | - |

How they interact:

* Reads go to informer caches that follow the API server in order but lag; writes are
  accepted only for the current resourceVersion. Cached reads after a write may be old.
* Each controller has one worker; the controllers of the two kinds, the pod cleanup, the
  recovery (5 s after becoming leader), the timers and the webhooks run concurrently.
* Both volume controllers and the recovery share one `SyncController`.
* Children carry an owner reference (not PVs), so the garbage collector deletes most of
  them on its own, and their watches enqueue the volume.

What is hard: stale copies of objects that have been deleted and created anew under the
same name; crashes between two API calls that belong together; conflicts and retries that
read the same stale cache again; a phase that must be revoked by somebody; timers that
have fired and cannot be stopped any more; admission of pods during cleanup. Every place
where this bites is listed under `hazards` in `PROJECT.json` with the properties that
cover it, or the reason why none does yet.

What makes each component correct:

* reconciler: children of a volume can always be found by its cleanup; no stale copy ever
  harms a newer object; deletion completes; a volume becomes Ready and does not stay so
  without cause; nothing is left behind; data is synced while it is Ready;
* scheduler: a registered timer is alive; a Ready volume keeps being synced; a gone one
  stops; the configuration that is synced is the current one;
* pods: no pod escapes its finalizer, a deleted one goes, and what the last one leaves goes
  too; claims exist as long as a pod uses them (they do not, finding 6);
* validation: what is admitted, the controller can write back, delete and build requests
  from; exactly the sound specs become Ready (not those that rely on the defaults of both
  durations, finding 2);
* deletion of a volume in use: no PVC or PV of any namespace is forgotten, the servers
  outlive the PVs, and the volume goes.

## 2. Modules

| Module | Role |
|---|---|
| `VolumeReconciler` | the reconciler, one action per API call, with its environment |
| `VolumeInvariant` | its inductive invariants `ReconcileInv` and `AttendInv` |
| `VolumeContract` | what the reconciler promises about a volume: no caches, retries or crashes |
| `VolumeRefinement` | the mapping under which `VolumeReconciler` implements it (`Implements`) |
| `MCVolumeReconciler` | symmetry for TLC |
| `VolumeTypeProofs`, `VolumeSafetyProofs`, `VolumeStepProofs`, `VolumeContractProofs` | proofs: types, invariants, action properties, refinement |
| `VolumeSpecs` | specs, their validation and defaults, sync requests: operators without state |
| `VolumeAdmission` | a whole spec on its way through webhook, reconcile and timer |
| `MCVolumeAdmission` | the specs users write |
| `AdmissionProofs` | its invariants proved: what is stored, what a reconcile holds, what becomes Ready |
| `SyncScheduler` | the sync scheduler, one action per critical section or lookup |
| `SyncProofs` | its invariants and its action property proved |
| `PodClaims` | pod webhook and pod cleanup reconciler around one PV and PVC, call by call |
| `PodProofs` | its invariants proved, and that it implements `ClaimContract` |
| `VolumeTeardown` | volume cleanup, pod webhook and pod cleanup together, over several namespaces |
| `MCVolumeTeardown` | namespaces and pods for TLC |
| `TeardownProofs` | its invariants and its action property proved, and that it implements `ClaimContract` |
| `ClaimContract` | what pod webhook, pod cleanup and volume cleanup promise about pods, PVs and PVCs |

The code is cut where its parts touch at few points. `VolumeReconciler`, `VolumeAdmission`
and `VolumeTeardown` each follow a reconcile: the first with every call, stale copy and
crash but a spec of two fields; the second with the whole spec and the webhook that judges
each write, but a cache that keeps up; the third only its cleanup of PVCs and PVs, with
the pods that come and go meanwhile. `SyncScheduler` and `PodClaims` have the other two
concurrent parts call by call.

### VolumeReconciler

State. `vol` is the stored version of each volume; `watch` the versions its informer has
not delivered; `cache` what a Get returns. A version carries uid, resourceVersion (`rv`),
`st` (live, deleting, gone), the finalizer, `nfs`, `ref` (referenceValue) and the phase.
`kids` are the children by kind and reference value, `seen` what lagging informers show
of them. Per volume, `pc`, `mem`, `latest`, `want`, `retries` are the locals of the
reconcile in progress; `queued` is the workqueue; `armed` the last order to the sync
scheduler. `claim` records which volume a reference value was first used by.

| Actions | Code |
|---|---|
| `Fetch`, `EnsureFinalizer` | ReconcileGeneric, HandleFinalizerLogic, ensureFinalizer |
| `GenerateNfsServer`, `CreateNfsServer` | GenerateAndCreateNfsServer, CreateAndOwnNfsServer |
| `CheckNfsServer`, `AssignRef` | ReconcileNfsServer, ReconcileNfsServerComplete |
| `EnsureKid` | ReconcileRequiredResources (PV, PVC, ReplicaSet, Service) |
| `UpdateSync` | the StartSync calls of ReconcileNfsServerComplete |
| `CheckNfs`, `CheckPvc`, `CheckRs` | CheckResourceReadiness, DeterminePhase |
| `GetForStatus`, `WriteStatus`, `Callback` | UpdateReadinessStatus, UpdateStatusWithRetry, the callbacks |
| `StopSync`, `CleanupKid` | CleanupResourcesInNamespace |
| `GetForRelease`, `WriteRelease` | RemoveFinalizerWithRetry |
| `UserCreate/Edit/Delete`, `Deliver`, `DeliverKid`, `BecomeReady/Unready`, `GarbageCollect`, `Crash` | users, informers, Kubernetes and the NFS operator, loss of leadership |

Every failing write is a disjunct of its action (conflict, NotFound, or an error while
`FaultOps` and `MaxFaults` allow it). A crash forgets all locals; the next leader lists
everything anew, which is why `cache` becomes `vol`.

Left out here: pods and their PVCs and PVs in cleanup (`VolumeTeardown`); rejection of the
controller's own updates by webhooks, a managed NfsServer named by the user, users filling
an empty `referenceValue` or `nfsServer` later (`VolumeAdmission`). Left out altogether
(the component is listed `partly`): the separate calls with which the Force* helpers strip
finalizers; the replacement of a ReplicaSet or Service with a wrong port; the controller
namespace; messages in the status; answers lost after a write took effect. Assumed:
RandString never repeats a value, and users do not give one reference value to two names.
There is one worker per volume where the code has one per kind: a superset of its
interleavings.

### VolumeContract

A volume is absent, new, held (by the finalizer) or leaving (`life`), has a reference value
(`name`) and children (`made`). `Create`, `Hold`, `Name`, `Make`, `Leave`, `Unmake`, `Go`
say what may happen: a child is made only for a held or leaving volume and under its
stored value, unmade only while it leaves, a value is given once, a held volume never
vanishes without leaving. `VolumeRefinement` maps the stored version and the children of
the present object to these; children of an earlier object of the name do not count, so a
reconcile that touches the wrong generation is no step of the contract. The contract has no
`map` entry: it translates no code, `VolumeReconciler` does.

### ClaimContract

What is left of pods, PVs and PVCs without caches, queues, single calls and restarts. A pod
goes from none through admitting, live, dying and released to gone and skips no stage
(`Admit`, `Store`, `End`, `Release`, `Leave`; admissions that fail are a `Drop`); a PV or PVC
is made only for a pod being admitted to its namespace (`Make`), begins to go only when a pod
of that namespace has ended or the volume is being deleted (`Take`), and what terminates
never lives again (`Vanish`). Two models implement it: `PodClaims` with one namespace and a
volume that stays, where a pod is admitting while a request for it is at a PV or PVC and
released once the finalizer is off; `VolumeTeardown` with all namespaces and the volume's own
cleanup. It does not promise that a claim in use stays: the code does not keep that
(finding 6). Like `VolumeContract` it translates no code and has no `map` entry.

### VolumeSpecs and VolumeAdmission

A text is what is asked of it: empty or not, equal to the old one, a duration or not, a
quantity or not. Three classes of reference value (the user's, one no Service can be named
by, a random one) and a few server names and URLs (with a dot or without, equal, generated)
tell apart all that IsExternalNfsServer and the API server do. `obj` is the stored volume,
`mem` the copy the reconcile works on, `servers` the NfsServers that are ready, `timer` the
armed timer with the namespace of its key and the spec it captured.

| Actions | Code |
|---|---|
| `Create`, `Edit`, `Delete` | users, judged by ValidateCreate, ValidateUpdate |
| `Fetch`, `EnsureFinalizer`, `FillAndValidate` | ReconcileGeneric, HandleFinalizerLogic, FillAndValidateSpec |
| `GenerateNfsServer`, `CheckServer`, `AssignReference` | GenerateAndCreateNfsServer, ReconcileNfsServer with UpdateVolumeStatus, ReconcileNfsServerComplete |
| `Provision` | ReconcileRequiredResources, the start of syncs, readiness and status |
| `Release`, `Lookup` | handleDeletion with RemoveFinalizerWithRetry; the run of a timer whose volume is gone |

Each Update carries the whole copy, defaults included, and passes the webhook as a user's
would (`Accepted`): the interplay the module is for. Left out: lagging caches, failures and
crashes (`VolumeReconciler`); a timer's runs other than the last (`SyncScheduler`); the
children, which come up at once if the API server takes them (`Provisionable`); servers
that go down.

### SyncScheduler

A timer, the run it fires and the next timer that run arms form a *chain* (`chain`);
`timers` is the map `syncTimers`. `call` is where each caller - a volume's reconciler or
the recovery - is between the critical sections of Start and Stop, with the copy of the
spec it was given; `listed` and `stage` are the recovery's. `obj` and `due` are the
volumes as the process sees them and the workqueue. `synced` is set while a run of the
volume has triggered a sync and is not over.

| Actions | Code |
|---|---|
| `Start`, `AlreadyRunning`, `SafetyStop`, `Arm` | StartSyncFor(Cluster)SharedVolume, startSyncCommon |
| `Stop`, `Release` | StopSync... in cleanup and in the not-ready callback, then the finalizer (an update that wakes the reconciler) |
| `Reconcile` | what a reconcile asks of the scheduler |
| `RecoveryList`, `RecoveryStart` | RecoverSyncOperations |
| `Fire`, `Lookup`, `Drop`, `Trigger`, `Rearm` | scheduledSyncCommon |
| `UserEdit`, `UserDelete`, `PhaseChange` | users and the status, as the informer delivers them |

`Stopped` frees a chain only when its timer is still pending: `time.Timer.Stop` does not
end a run that has begun. A SharedVolume's start stops the old timer before it parses the
interval; a ClusterSharedVolume's parses first and does not ask for phase Ready. An interval
is `unset`, `set` or `malformed`: the webhook parses it only when a timeout is given too
(common.go 483), so that "1d" can be stored; the controller fills in an unset one in its
copy (`Filled`), and only "set" `Parses`. `Stored` says which a user gives: none where there
is no source.

Behaviours start with the process and any volumes, which is also what a restart looks
like. `AfterFunc` and the store of its timer are one step (an interval is far longer than
the time to take a mutex). Left out: `initialSyncDone` (it feeds one log line), lookups
that fail other than with NotFound, volumes re-created under a name, the outcome of the
request, the length of intervals, and the namespace in the key of a ClusterSharedVolume's
timer: it is `spec.resourceNamespace` of the copy, so the recovery's stored copy may have
another key than the reconciler's filled one, and each key its own chain (`KeyNamespace` in
`VolumeAdmission` has the key; here a volume has one). `scheduledSync` has no caller and is not modelled. A
reconcile of a Ready volume is assumed to find its NFS server up. `VolumeReconciler`
keeps only `armed` of this component.

### PodClaims

The PV and the PVC (`obj`) through which the pods of one namespace use one volume. `pod` is
the pods as stored, `seen` as the informer cache has them, `request` where the webhook is
in a request about each pod, `job` the single worker of the cleanup reconciler, `due` its
queue. `wasted` records that an admission was refused when the PV was there already.

| Actions | Code |
|---|---|
| `Create`, `Ensure`, `CreateObject`, `Store`, `Reject` | Handle, processSharedVolume, ensurePersistentVolume(Claim)Generic on a new pod |
| `Touch`, `WebhookLists`, `WebhookDeletes`, `WebhookReleases` | handlePodDeletion, cleanupSharedVolumeIfUnused, removePodFinalizer on an update of a terminating pod |
| `Refresh`, `Reconcile` | the event filter, the start of Reconcile |
| `ForceDeletePod`, `ListPods`, `StripObject`, `DeleteObject`, `RemoveFinalizer` | forceDeletePod, isVolumeStillInUseByRef, forceDeletePVC, forceDeletePV, removeFinalizer |
| `Delete`, `Kubelet`, `Protect`, `Unprotect`, `Crash` | users, kubelet, PV and PVC protection, restarts |

A webhook does not see the deletion of a pod (it is registered for create and update), so
the reconciler does most of the work; its own updates pass the webhook with the finalizer
already off and change nothing there. The cache follows each pod separately, which allows
more than the one watch of all pods does. The last Get of forceDeletePVC may or may not
show the deletion, hence the choice in `DeleteObject`.

Left out here: pods of other namespaces, PVC and PV caches that lag, a volume that goes
(`VolumeTeardown`). Left out altogether: several volumes per pod, mount paths, pods that
predate the webhook (addFinalizer, orphans of a ReplicaSet), a volume without reference
value, failing writes and their retries. Each of these that is a hazard is listed as one.

### VolumeTeardown

One volume (`vol`, and `there` in the cache) with a PV and a PVC per namespace (`claim`; for
those in `Lagging` the cache is `seen`). `request` is where the webhook is for each pod,
`job` the pod cleanup worker, `cleanup` the reconcile that deletes the volume. `owed` is a
history variable: what the cache had when the deletion (or its last attempt, after a
crash) began and that is still there.

| Actions | Code |
|---|---|
| `Begin`, `List`, `DeleteListed`, `Wait`, `DeleteServers`, `Release` | CleanupResourcesInNamespace: CleanupAllPVCsInNamespace, CleanupAllPVsWithWait, Service and NFS server; RemoveFinalizerWithRetry |
| `Admit`, `Ensure`, `Store` | processSharedVolume |
| `Reconcile`, `CheckUsers`, `DeleteForPod` | the pod cleanup's Reconcile, isVolumeStillInUseByRef, cleanupPodSpecificResourcesByRef |
| `DeleteVolume`, `DeletePod`, `Kubelet`, `Deliver`, `DeliverVolume`, `Unprotect`, `Crash` | users, kubelet, informers, protection controllers, restarts |

`ForceDelete` stands for the strip, delete, look and strip again of ForceDeletePVC and
ForceDeletePV: the object is gone, or terminates because a finalizer stayed or came back.
The wait may end at any time (`Deadline`): two minutes against the informers' lag and the
kubelet is a race either side may win, and `late` records that it was lost.

Cleanup step 1 (pods that use the volume) looks for annotations
`sharedvolume.sv/<name>: "true"`, but the webhook admits pods by `sharedvolume.sv: <names>`:
it never finds one, and the model leaves it out. Left out too: a Delete that fails; names
that match by prefix without being the volume's; the release of a pod before its cleanup
when a write conflicts, and a pod's update by users (`PodClaims`). What a late admission
makes after the lists stays for ever; `NoneForgotten` and `Torn` speak of what was owed.

## 3. Runs

| Run | Checks | Instance |
|---|---|---|
| ReconcilerSafety | `TypeOK`, `ReconcileInv`, `KidsFindable`; `NoOrphanCreation`, `RefStable`, `FinalizerKept`, `LiveKidsKept`, `Implements` | one name created twice, one user-chosen and two random values, lagging PV informer, one crash |
| ReconcilerLiveness | `VolumesAttended`; `DeletionCompletes`, `ReadyRevokedForReplicaSet`, `ReadyUnlessAbandoned`, `ReadyIsSynced`, `NothingLeft` | one edit, failed call, crash and flap; managed or external server; lagging PV informer |
| ReconcilerStaleReady | `ReadyRevokedForNfs` is violated | an NFS server down for good |
| ReconcilerCrashStuck | `BecomesReady` is violated | one crash |
| SyncTimers | `SyncInv`, `RegisteredAlive`, `SyncAttended`; `GoneStaysStopped`, `GoneStops`, `KeepsSyncing` | a volume of either kind, two edits, one phase change, recovery; a ClusterSharedVolume's interval set or malformed |
| SyncRecovery | `KeepsSyncing` is violated | a SharedVolume whose interval is left to the default |
| SyncOldSource | `OldConfigurationEnds` is violated | one edit of the source, long after start |
| PodClaims | `ClaimsInv`, `ClaimsAttended`; `Reclaimed`, `PodsGo`, `KeepsContract` | two pods, one update of a terminating pod or restart |
| PodClaimRace | `DeletedUnused` is violated | two pods, no restart |
| Admission | `AdmissionInv`, `RequestsBuild`, `SecretsWhereDeclared`, `CopyInv`, `ReadyIsSound`, `WritesAccepted`; `SoundBecomesReady`, `DeletingEnds`, `EditReachesTimer` | `SomeSpecs`, two objects, one edit, both kinds |
| AdmissionDefaults | `DefaultsSuffice` is violated | `SomeSpecs`, one object, no edit |
| Teardown | `TeardownInv`, `NoneForgotten`; `TeardownEnds`, `Torn`, `KeptForPvs`, `KeepsContract` | two namespaces, a pod that runs and one that may come, one lagging PV, one restart |

Bounds. One volume name suffices for what the properties tell apart: volumes share
nothing but the namespace of reference values, which `claim` keeps apart, and the map of
timers, keyed by name; the proofs cover any number. Two uids per name are needed for a
stale copy of a deleted predecessor to meet its successor, and three reference values for
both lives to have one each plus a user-chosen one. `RetryLimit` is 1 where the code
retries 3 times: one retry reaches both "retried from the same stale cache" and "gave
up". One edit, fault, crash and flap each make every conflict, failure and interruption
possible once, at any point. `Chains` is 3: a caller never finds all three in use (the
state space does not grow with a fourth), so the bound hides nothing. In SyncTimers a
ClusterSharedVolume's interval is not left unset: what would come of it, a recovery that
cannot parse the stored spec beside a reconcile that starts the filled one, also comes of a
malformed one that is listed and then edited (with all three the run passes too, on four
times the states); and of SharedVolumes only those with a stored
interval can be asked to keep syncing (finding 4). Two pods are enough
for a last one, one that goes with it and one that comes meanwhile (a third terminating
pod adds nothing the pairs do not show; the proof covers any number); `MaxFaults` allows
one update of a terminating pod or one restart, at any point. PodClaims is run for a
ClusterSharedVolume, whose pods pass the event filter by the finalizer only, the harder
case. `SomeSpecs` has a plain spec and, around it, one or more for each thing that the
webhook, the controller, the API server or a request looks at, the combinations of
server, reference value and durations in full; an edit takes a source and durations, or
everything, from any of them. In Teardown the pods are in different namespaces, since
those of one are PodClaims' matter, and the lagging PV is that of the pod yet to come: it
can be created unseen before, during or after the deletion's lists. Deadlock is not checked
because the system stops by design once users do nothing and
nothing is queued.

Fairness. Workers, informers and timers are goroutines that Go and client-go keep
running: weak fairness of each worker, delivery, caller and chain (`ControllerFairness` for
the reconciler, under which ReconcilerLiveness runs). What also needs Kubernetes and the
NFS operator to make ready and collect what they can states it as its premise
(`ClusterFairness => ...`). Users, failures, crashes and loss of readiness are
never forced. For pods, requests, events and the worker go on, the kubelet and the
protection controllers do their part, and the workqueue hands out every pod in turn
(strong fairness of `Reconcile`: it is first in, first out; the same in `VolumeTeardown`).
Weak fairness of a chain means a pending timer either is stopped or fires;
reconciles that come more often than the interval for ever (each restarts the timer) are
thereby bounded by the finite number of edits - a hazard without a property.

`ReadyUnlessAbandoned` excepts volumes whose server was stored but not created because of a
crash or a failed create, for which the code is wrong (finding 3); `NothingLeft` is
about cleanups that begin when the cache shows every child of the volume: they leave none,
without help of the garbage collector, unless a call fails meanwhile (the code logs a
failed Delete and goes on). A PV just created that the cache does not show yet counts as
gone (base 1386, 1422) and stays for ever, with no call failed: its volume is outside the
property, and the run's lagging PV informer makes that happen. `Reclaimed` (and
`ClaimsAttended` with it) says nothing
after a restart, an admission refused half-way or an update of a terminating pod: in each
case the code can leave PVC and PV behind (the hazards say how). `Torn` is what remains
true then: the deletion of the volume takes them, unless a pod still runs on them.

Each property of a passing run has a mutant of the code that violates it, defined next to
the action it mutates: a swallowed error, a value replaced, a server created before its
name is stored, a finalizer only set in memory, a PV forgotten, an entry of the map that
survives its timer, a run that does not look its volume up, and so on.

## 4. Where the code differs from what it says

1. A Ready volume whose NFS server goes down stays Ready (base 342-344): the computed
   phase is never stored, although a comment says the caller does it.
2. A volume with a source but neither `syncInterval` nor `syncTimeout`, both optional by
   README and samples, never becomes Ready (base 119): the defaults 60 s and 120 s fail the
   webhook's timeout < interval when the controller stores them. Only one with an external
   or existing server and a given reference value escapes: nothing is stored for it.
3. A crash (or failed create) between storing `spec.nfsServer` and creating the server
   leaves a volume that waits for ever (base 250).
4. The recovery ends a sync instead of resuming it when the stored spec of a SharedVolume
   has no interval (sync 140): the running timer is stopped before the parse fails. An
   interval left to the default is stored with the reconciler's first Update; it stays
   empty when the source is added by a later edit, or the server is external and the
   reference value given. The same happens to one stored malformed when the recovery lists
   it and corrected before the recovery starts it.
5. A run in flight when the configuration changes re-arms with the old configuration
   (sync 348), and two chains go on.
6. The clean-up after the last pod lists pods and then deletes PVC and PV, finalizers
   first; a pod admitted in between reuses them and runs without (pod cleanup 438).

## 5. Proofs

Proved for every value of the constants (the named assumptions `ConstantsAssumption`,
`SyncAssumption`, `ClaimsAssumption`, `SpecsAssumption`, `NoneAssumption`,
`AdmissionAssumption` and `TeardownAssumption`, which say which sets are subsets of which and that bounds are naturals):

* `TypeCorrect`, `ReconcileInvariant`, `KidsAlwaysFindable` (`VolumeSafetyProofs`);
* `RefNeverReplaced`, `OnlyDeletedReleased`, `CreationNeverOrphans`,
  `LiveVolumesKeepKids` (`VolumeStepProofs`), the four action properties of
  ReconcilerSafety;
* `VolumesAlwaysAttended` (`VolumeStepProofs`): no wake-up of the reconciler is lost;
* `ReconcilerImplementsContract` (`VolumeContractProofs`): the refinement;
* `SyncInvariant`, `RegistrationsAlive`, `AlwaysAttended`, `GoneNeverStarted` (`SyncProofs`);
* `ClaimsInvariant`, `ClaimsAlwaysAttended`, `ClaimsImplementContract` (`PodProofs`);
* `AdmissionInvariant`, `RequestsAlwaysBuild`, `SecretsAsDeclared`, `CopyInvariant`, `ReadySound`,
  `ControllerWritesAccepted` (`AdmissionProofs`);
* `TeardownInvariant`, `NothingForgotten`, `ServersOutlivePvs`,
  `TeardownImplementsContract` (`TeardownProofs`).

The argument for the reconciler. `KidsFindable` speaks of the stored volume, but children
are created from a copy read long ago, so it is not inductive. `ReconcileInv` adds

* `Follows(d, c)`: a later version d of a name is the same version, a later object, or the
  same object with finalizer kept unless gone, deletion not undone and reference value not
  replaced. Cache, undelivered versions, working copies and the stored version follow
  each other (`VersionsFollow`, `CopyOf`);
* the finalizer belongs to an object the cache has already shown (`FinalizerHeld`), since
  only the reconciler sets it, from a copy; so while a held object stands, no other object
  of that name is in the cache, and a copy seen live and held is of the standing object;
* what each label of the reconcile knows (`ReconcileKnows`): creating happens for a
  standing, held object whose value is stored; cleaning for a copy seen deleting, and if
  any object of the name holds a finalizer it is that copy's object;
* one volume name per reference value (`RefsClaimed`), children of known owners.

A write makes the copy current (`CurrentCopy`: same resourceVersion, same version), which
gives `WriteFollows` and `StoreWrite`; every other volume is untouched (`StoreStill`,
`KnowsStill`, `LocalStep`); then one lemma per action, and `NextSafe` joins them. The
action properties follow from the invariant before the step and the list of steps that
write a volume or a child (`NextWrites`, `KidWriters`). So does the refinement: a step that
writes nothing is a stutter of the contract, a write of a volume is its `Create`, `Hold`,
`Name`, `Leave` or `Go`, a created child a `Make`, one that is removed an `Unmake` if it
belongs to the present object and a stutter otherwise.

`VolumesAttended` is the safety half of the reconciler's liveness: an unsettled volume has
somebody who will come back to it. An early return without a requeue ("not found", a
conflict the retry gives up on, a phase that needs no write) is harmless only because of
what the reconciler has read, so `AttendInv` (`VolumeInvariant`) adds that the stored
version is in the cache or yet to be delivered (`Reaches`), that a reconcile whose volume is
not queued again works on nothing older than the cache (`UpToDate`, hence its copy is the
stored version unless a delivery is to come), and what it has ordered of the SyncController
and written by then (`OrderKnown`). The proof has one lemma per action: a step that returns
either queues the volume again (`AgainAttended`) or leaves it settled (`ReturnAttended`), one
that goes on stays at a label (`GoesOnAttended`), and other volumes are untouched
(`OthersKept`).

The argument for the scheduler. `RegisteredAlive` says that an entry of the map names a
chain that is alive and of that volume. Stopping a volume frees the chain its own entry
names; no other volume's entry names it because a chain has one volume; a run that ends
takes its volume's entry with it; a run that goes on writes itself. `AtWork` supplies what
callers and chains work on. The proof splits the invariant into what concerns the map,
the callers, and the rest. `SyncAttended`, that a volume to be synced is never left alone,
is inductive with three facts (`AttendInv` in `SyncProofs`): unless a reconcile is due, a caller
holds the spec as it is stored and stops only what is not to be synced (`CallsCurrent`), the recovery starts only what Start would let
through (`RecoveryFit`), and runs are dropped only of volumes that are gone (`DropsGone`).
`SyncAttended` supposes that the intervals of SharedVolumes are stored and parse, or the
recovery breaks it (finding 4); those of ClusterSharedVolumes may be anything.

The argument for the pods. That a live pod has our finalizer is not inductive: writes of
old copies could take it off. `ClaimsInv` adds that the cache is behind the pod and never
ahead (a pod seen terminating is terminating), and that a request releases only what
terminates and admits only what does not exist. The proof goes pod by pod: a request, the
job or a pod moves, and the other two parts are untouched. `ClaimsAttended` needs in addition
that without a fault no pod is released before the cache shows it terminating
(`ReleasedWhenSeen`): the last pod of a namespace then cannot be gone while the worker still
counts it, or uncounted while an event for it is to come. `Reclaimed`, its liveness form,
stays with TLC.

The contract of pods and claims. `ClaimsInv` (for `VolumeTeardown`, `PodsMatch`: a pod being
admitted does not exist, one cleaned up after has been released) gives what each step needs
of its stages. Each action is then one step of `ClaimContract` or a stutter; the choices of
`DeleteObject` and `ForceDelete` are both outcomes of `Take`, a restart is a `Drop` of every
admission under way.

The argument for admission. `StoredValid` alone is not inductive: the controller stores
copies. `CopyValid` says what each label of the reconcile may take for granted of its copy
(complete after FillAndValidateSpec, a server after generation), `TimerValid` what the
timer captured; an Update is judged against what it replaces, so validity is handed on
whatever the copy is. `RequestsBuild` and `SecretsWhereDeclared` then are lemmas about the
operators: a valid source is buildable, and its selectors name their namespaces.
`ReadyIsSound` is about the stored volume after users have edited it, while what the
reconcile checked was its copy. `CopyInv` says per label what the two have in common: while
the resourceVersion is the same, the copy is the stored spec with defaults (`CopyCurrent`);
when it is not, ValidateUpdate has kept users from changing what is set, so what the
reconcile has checked of its copy holds of the volume (`ChecksHold`); the finalizer keeps the
volume there meanwhile (`HeldMeanwhile`), and a Ready volume is complete, so nothing it rests
on can be set any more (`ReadyComplete`). `WritesAccepted` says that the webhook never
refuses the controller's own writes of a current copy, except exactly where durations
(finding 2) or the server's URL do not fit; it follows from `CopyInv` and lemmas on the
validation operators.

The argument for the teardown. `NoneForgotten` needs to know how far the cleanup is:
`Progress` says which of the owed objects terminate already at each label, `Accounted`
that the cache still has what is owed (an object leaves the cache only when it is gone,
and then it is not owed), hence the lists have it. The webhook never revives what is owed:
it creates only where nothing is stored.

Only model-checked: all leads-to properties, for the provers have no ENABLED and hence no
fairness. Every invariant, action property and refinement that a passing run checks is
proved.

## 6. Not modelled, and what could follow

Every component with logic of its own is modelled at least in part; `PROJECT.json` says per
component what is left out. In short:

* names put together by code and found again by prefix (base 1355): one value that begins
  another needs names as texts;
* pods that have not been through the webhook (addFinalizer, orphans of a ReplicaSet),
  several volumes per pod and their mount paths;
* admission against a volume without reference value (pod webhook 275);
* the length of intervals: reconciles more frequent than the interval (base 2165);
* replacement of a ReplicaSet or Service with a wrong port, the controller namespace,
  messages, the body of sync requests;
* functions without a caller: scheduledSync, triggerSync and the builders it uses,
  WaitForPodsToTerminate, cleanupPodSpecificResources, the webhook's non-generic ensure...
  and isPVCStillInUse;
* generated code, flags, TLS, health checks, manifests.

What could follow: pods of several volumes in `PodClaims`; an abstract scheduler (per
volume: off, on) that `SyncScheduler` implements; the scheduler driven by
`VolumeReconciler`'s orders in place of its `Reconcile`; lemmas about the operators of
`VolumeSpecs` beyond what the proofs of admission use.
