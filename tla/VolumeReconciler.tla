------------------------- MODULE VolumeReconciler -------------------------
(***************************************************************************)
(* The reconcile loop of SharedVolume and ClusterSharedVolume objects      *)
(* (internal/controller/volume_controller_base.go).                        *)
(*                                                                         *)
(* The API server holds one object per volume and the child objects made   *)
(* for it, named by the volume's referenceValue.  The controller reads     *)
(* through an informer cache that follows the API server in order but may  *)
(* lag, and writes with optimistic concurrency (resourceVersion).  One     *)
(* worker reconciles a volume at a time; every API call of the reconcile   *)
(* is a step of its own, so users, informers, the garbage collector, the   *)
(* NFS operator, failing calls and crashes interleave with it.             *)
(***************************************************************************)
EXTENDS Naturals

CONSTANTS
  Volumes,         \* names of volumes (namespace/name)
  ClusterVolumes,  \* those that are ClusterSharedVolumes
  Sourced,         \* those with a valid sync source
  Refs,            \* reference values, random and user-chosen
  UserRefs,        \* those a user may write into spec.referenceValue
  NoRef,           \* the empty referenceValue
  NoVolume,        \* the owner of a child that does not exist
  UserNfs,         \* what a user may put into spec.nfsServer: "none", "external"
  LaggingKinds,    \* kinds of children whose informer may lag behind the API
  FaultOps,        \* API operations that may fail
  RetryLimit,      \* maxRetries of the conflict loops (3 in the code)
  MaxUids,         \* bound: volume objects ever created
  MaxEdits,        \* bound: edits of mutable spec fields by users
  MaxFaults,       \* bound: failing API calls
  MaxCrashes,      \* bound: controller crashes or lost leaderships
  MaxFlaps         \* bound: times a ready child becomes unready

Kinds     == {"nfs", "pv", "pvc", "rs", "svc"}
WatchedWithoutReplicaSets == Kinds \ {"pv", "rs"}   \* mutant: no watch on them
Watched   == Kinds \ {"pv"}              \* kinds SetupGenericController watches
Gates     == {"nfs", "pvc", "rs"}        \* kinds whose readiness is checked
KidStates == {"absent", "waiting", "ready"}
Phases    == {"", "Pending", "Preparing", "Ready"}
NfsChoice == {"none", "managed", "external"}

ASSUME ConstantsAssumption ==
  /\ ClusterVolumes \subseteq Volumes /\ Sourced \subseteq Volumes
  /\ UserRefs \subseteq Refs /\ NoRef \notin Refs /\ NoVolume \notin Volumes
  /\ UserNfs \subseteq {"none", "external"}
  /\ LaggingKinds \subseteq Kinds
  /\ FaultOps \subseteq {"update", "status", "create", "delete"}
  /\ {RetryLimit, MaxUids, MaxEdits, MaxFaults, MaxCrashes, MaxFlaps} \subseteq Nat

VARIABLES
  vol,      \* API server: the current version of each volume object
  watch,    \* versions the informer has not delivered yet
  cache,    \* the informer's version of each volume
  kids,     \* API server: children by <<kind, ref>>
  seen,     \* the informers' view of the lagging kinds
  claim,    \* the volume that first used a reference value
  queued,   \* the workqueue
  pc,       \* where each volume's reconcile is
  mem,      \* volumeObj, the copy the reconcile works on
  latest,   \* latestObj of the conflict-retry loops
  want,     \* the phase DeterminePhase computed
  retries,  \* retryCount of the conflict-retry loops
  armed,    \* the reconciler's last order to the SyncController: started or stopped
  uids, edits, faults, crashes, flaps   \* how much of each bound is used up

apiVars    == <<vol, watch>>
kidVars    == <<kids, seen>>
workerVars == <<pc, mem, latest, want, retries>>
boundVars  == <<uids, edits, faults, crashes, flaps>>
vars == <<vol, watch, cache, kids, seen, claim, queued, pc, mem, latest, want,
          retries, armed, uids, edits, faults, crashes, flaps>>

---------------------------------------------------------------------------
\* API objects

\* A version of a volume object.  "gone" is the version a watcher is told of
\* when the object disappears: a Get of it is NotFound.
VolumeObjects == [uid: Nat, rv: Nat, st: {"live", "deleting", "gone"},
                  fin: BOOLEAN, nfs: NfsChoice, ref: Refs \cup {NoRef},
                  phase: Phases]

NoObject == [uid |-> 0, rv |-> 0, st |-> "gone", fin |-> FALSE, nfs |-> "none",
             ref |-> NoRef, phase |-> ""]

\* A child object; uid is that of the volume it was created for.
KidObjects == [st: KidStates, vol: Volumes \cup {NoVolume}, uid: Nat]

NoKid == [st |-> "absent", vol |-> NoVolume, uid |-> 0]

Ids == Kinds \X Refs

Exists(kid) == kid.st # "absent"

\* What a read through the informer cache of a child returns.
Seen(id) == IF id[1] \in LaggingKinds THEN seen[id] ELSE kids[id]

\* A successful write of a volume: a new version, which its informer will deliver.
Versioned(v, obj) == [obj EXCEPT !.rv = vol[v].rv + 1]

Write(v, obj) ==
  /\ vol' = [vol EXCEPT ![v] = Versioned(v, obj)]
  /\ watch' = [watch EXCEPT ![v] = @ \cup {Versioned(v, obj)}]

\* The API server accepts an update made from a copy only if it is current.
Current(v, copy) == copy.rv = vol[v].rv /\ vol[v].st # "gone"

Fails(op) == op \in FaultOps /\ faults < MaxFaults /\ faults' = faults + 1

\* A write of child id; the watch on its kind enqueues the owner v.
WriteKid(id, kid, v, requeue) ==
  /\ kids' = [kids EXCEPT ![id] = kid]
  /\ queued' = [queued EXCEPT ![v] =
       @ \/ requeue \/ (id[1] \in Watched /\ id[1] \notin LaggingKinds)]
  /\ UNCHANGED seen

---------------------------------------------------------------------------
\* The worker

Goto(v, label) ==
  /\ pc' = [pc EXCEPT ![v] = label]
  /\ UNCHANGED <<latest, want, retries>>

\* Reconcile returns; requeue stands for an error or a RequeueAfter.
Forget(v) ==
  /\ pc' = [pc EXCEPT ![v] = "idle"]
  /\ mem' = [mem EXCEPT ![v] = NoObject]
  /\ latest' = [latest EXCEPT ![v] = NoObject]
  /\ want' = [want EXCEPT ![v] = ""]
  /\ retries' = [retries EXCEPT ![v] = 0]

Return(v, requeue) ==
  /\ Forget(v)
  /\ queued' = [queued EXCEPT ![v] = @ \/ requeue]

\* Mutant: a held volume is cleaned up whether it is being deleted or not.
FetchCleansHeld(v) ==
  /\ pc[v] = "idle" /\ queued[v]
  /\ queued' = [queued EXCEPT ![v] = FALSE]
  /\ Goto(v, IF cache[v].fin THEN "stopSync" ELSE "finalizer")
  /\ mem' = [mem EXCEPT ![v] = cache[v]]
  /\ UNCHANGED <<apiVars, cache, kidVars, claim, armed, boundVars>>

\* ReconcileGeneric reads the volume; HandleFinalizerLogic branches on it.
Fetch(v) ==
  /\ pc[v] = "idle" /\ queued[v]
  /\ queued' = [queued EXCEPT ![v] = FALSE]
  /\ \/ /\ \/ cache[v].st = "gone"
           \/ cache[v].st = "deleting" /\ ~cache[v].fin
        /\ UNCHANGED workerVars
     \/ /\ cache[v].st = "deleting" /\ cache[v].fin
        /\ Goto(v, "stopSync") /\ mem' = [mem EXCEPT ![v] = cache[v]]
     \/ /\ cache[v].st = "live"
        /\ Goto(v, "finalizer") /\ mem' = [mem EXCEPT ![v] = cache[v]]
  /\ UNCHANGED <<apiVars, cache, kidVars, claim, armed, boundVars>>

\* r.Update of the working copy: stored if it is current, otherwise an error
\* (conflict, not found, failed call) that ends this reconcile.
Update(v, obj, label) ==
  /\ Current(v, mem[v])
  /\ Write(v, obj)
  /\ mem' = [mem EXCEPT ![v] = Versioned(v, obj)]
  /\ Goto(v, label)

\* Mutant: the error is swallowed, the request not retried.
UpdateErrorDropped(v) ==
  /\ \/ ~Current(v, mem[v]) /\ UNCHANGED faults
     \/ Fails("update")
  /\ Return(v, FALSE)
  /\ UNCHANGED <<apiVars, claim, uids, edits, crashes, flaps>>

UpdateError(v) ==
  /\ \/ ~Current(v, mem[v]) /\ UNCHANGED faults
     \/ Fails("update")
  /\ Return(v, TRUE)
  /\ UNCHANGED <<apiVars, claim, uids, edits, crashes, flaps>>

\* Mutant: the finalizer is set on the working copy and not stored.
EnsureFinalizerInMemory(v) ==
  /\ pc[v] = "finalizer"
  /\ mem' = [mem EXCEPT ![v].fin = TRUE]
  /\ Goto(v, "nfs")
  /\ UNCHANGED <<apiVars, queued, claim, boundVars, cache, kidVars, armed>>

EnsureFinalizer(v) ==
  /\ pc[v] = "finalizer"
  /\ \/ /\ mem[v].fin
        /\ Goto(v, "nfs")
        /\ UNCHANGED <<apiVars, mem, queued, claim, boundVars>>
     \/ /\ ~mem[v].fin
        /\ Update(v, [mem[v] EXCEPT !.fin = TRUE], "nfs")
        /\ UNCHANGED <<queued, claim, boundVars>>
     \/ ~mem[v].fin /\ UpdateError(v)
  /\ UNCHANGED <<cache, kidVars, armed>>

\* RandString: a value no volume has used, and none that users choose.
FreshRefs == {r \in Refs \ UserRefs : claim[r] = NoVolume}

RefChoicesAlwaysFresh(v) == FreshRefs   \* mutant: a value that is set is replaced

\* The referenceValue an update stores: the one there is, or a random one.
RefChoices(v) == IF mem[v].ref = NoRef THEN FreshRefs ELSE {mem[v].ref}

NewKid(v, kind) ==
  [st |-> IF kind \in Gates THEN "waiting" ELSE "ready", vol |-> v, uid |-> mem[v].uid]

\* A Create call: an error if the object is there already.
CreateError(v, id) ==
  /\ \/ Exists(kids[id]) /\ UNCHANGED faults
     \/ Fails("create")
  /\ Return(v, TRUE)
  /\ UNCHANGED <<kidVars, uids, edits, crashes, flaps>>

\* Mutant: the server is created before its name is stored.
GenerateNfsServerCreatesFirst(v) ==
  /\ pc[v] = "nfs" /\ mem[v].nfs = "none"
  /\ \E r \in RefChoices(v) :
       /\ mem' = [mem EXCEPT ![v].ref = r, ![v].nfs = "managed"]
       /\ WriteKid(<<"nfs", r>>, NewKid(v, "nfs"), v, FALSE)
       /\ claim' = [claim EXCEPT ![r] = v]
  /\ Goto(v, "createNfs")
  /\ UNCHANGED <<apiVars, boundVars, cache, armed>>

\* GenerateAndCreateNfsServer, first half: the reference value and the name of
\* the server are stored in the spec before the server is created.
GenerateNfsServer(v) ==
  /\ pc[v] = "nfs" /\ mem[v].nfs = "none"
  /\ \/ \E r \in RefChoices(v) :
          /\ Update(v, [mem[v] EXCEPT !.ref = r, !.nfs = "managed"], "createNfs")
          /\ claim' = [claim EXCEPT ![r] = IF @ = NoVolume THEN v ELSE @]
          /\ UNCHANGED <<queued, boundVars>>
     \/ UpdateError(v)
  /\ UNCHANGED <<cache, kidVars, armed>>

\* CreateAndOwnNfsServer, then RequeueAfter.
CreateNfsServer(v) ==
  LET id == <<"nfs", mem[v].ref>> IN
  /\ pc[v] = "createNfs"
  /\ \/ Exists(Seen(id)) /\ Return(v, TRUE) /\ UNCHANGED <<kidVars, boundVars>>
     \/ /\ ~Exists(Seen(id)) /\ ~Exists(kids[id])
        /\ WriteKid(id, NewKid(v, "nfs"), v, TRUE)
        /\ Forget(v) /\ UNCHANGED boundVars
     \/ ~Exists(Seen(id)) /\ CreateError(v, id)
  /\ UNCHANGED <<apiVars, cache, claim, armed>>

NfsReady(v) == \/ mem[v].nfs = "external"
               \/ Seen(<<"nfs", mem[v].ref>>).st = "ready"

\* ReconcileNfsServer: wait for a managed server.  The status it computes stays
\* in the working copy and is dropped with it.
CheckNfsServer(v) ==
  /\ pc[v] = "nfs" /\ mem[v].nfs # "none"
  /\ IF NfsReady(v)
     THEN /\ Goto(v, IF mem[v].ref = NoRef THEN "assignRef" ELSE "pv")
          /\ UNCHANGED <<mem, queued>>
     ELSE Return(v, TRUE)
  /\ UNCHANGED <<apiVars, cache, kidVars, claim, armed, boundVars>>

\* A volume on an external server gets its reference value here.
AssignRef(v) ==
  /\ pc[v] = "assignRef"
  /\ \/ \E r \in FreshRefs :
          /\ Current(v, mem[v])
          /\ Write(v, [mem[v] EXCEPT !.ref = r])
          /\ claim' = [claim EXCEPT ![r] = v]
          /\ Return(v, TRUE)
          /\ UNCHANGED boundVars
     \/ UpdateError(v)
  /\ UNCHANGED <<cache, kidVars, armed>>

NextLabel == [pv |-> "pvc", pvc |-> "rs", rs |-> "svc", svc |-> "sync"]

\* ReconcileRequiredResources: each child is looked up, then created.
EnsureKid(v, kind) ==
  LET id == <<kind, mem[v].ref>> IN
  /\ pc[v] = kind
  /\ \/ /\ Exists(Seen(id)) /\ Goto(v, NextLabel[kind])
        /\ UNCHANGED <<mem, kidVars, queued, boundVars>>
     \/ /\ ~Exists(Seen(id)) /\ ~Exists(kids[id])
        /\ WriteKid(id, NewKid(v, kind), v, FALSE)
        /\ Goto(v, NextLabel[kind])
        /\ UNCHANGED <<mem, boundVars>>
     \/ ~Exists(Seen(id)) /\ CreateError(v, id)
  /\ UNCHANGED <<apiVars, cache, claim, armed>>

\* StartSyncFor...: started when there is a source, stopped otherwise; for a
\* SharedVolume also stopped unless the copy at hand says Ready.
SyncOrder(v, phase) == v \in Sourced /\ (v \in ClusterVolumes \/ phase = "Ready")

\* Mutant: only the callback orders synchronisation.
UpdateSyncNever(v) ==
  /\ pc[v] = "sync"
  /\ Goto(v, "checkNfs")
  /\ UNCHANGED <<apiVars, cache, kidVars, claim, queued, mem, armed, boundVars>>

UpdateSync(v) ==
  /\ pc[v] = "sync"
  /\ armed' = [armed EXCEPT ![v] =
       IF mem[v].phase = "Ready" THEN SyncOrder(v, "Ready") ELSE @]
  /\ Goto(v, "checkNfs")
  /\ UNCHANGED <<apiVars, cache, kidVars, claim, queued, mem, boundVars>>

\* CheckResourceReadiness: three reads, then a status write if the phase differs.
Finish(v, phase) == Return(v, phase # "Ready")

Settle(v, phase) ==
  IF mem[v].phase = phase
  THEN Finish(v, phase)
  ELSE /\ pc' = [pc EXCEPT ![v] = "status"]
       /\ want' = [want EXCEPT ![v] = phase]
       /\ UNCHANGED <<mem, latest, retries, queued>>

\* One of the three reads: go on to the next, or settle on the phase that
\* DeterminePhase gives when this kind is not ready.
Check(v, label, ready, next, otherwise) ==
  /\ pc[v] = label
  /\ IF ready
     THEN Goto(v, next) /\ UNCHANGED <<mem, queued>>
     ELSE Settle(v, otherwise)
  /\ UNCHANGED <<apiVars, cache, kidVars, claim, armed, boundVars>>

CheckNfs(v) == Check(v, "checkNfs", NfsReady(v), "checkPvc", "Pending")

CheckPvc(v) ==
  Check(v, "checkPvc", Seen(<<"pvc", mem[v].ref>>).st = "ready", "checkRs", "Preparing")

CheckRs(v) ==
  /\ pc[v] = "checkRs"
  /\ Settle(v, IF Seen(<<"rs", mem[v].ref>>).st = "ready" THEN "Ready" ELSE "Preparing")
  /\ UNCHANGED <<apiVars, cache, kidVars, claim, armed, boundVars>>

\* UpdateStatusWithRetry, UpdateReadinessStatus
GetForStatus(v) ==
  /\ pc[v] = "status"
  /\ \/ cache[v].st = "gone" /\ Return(v, TRUE)
     \/ /\ cache[v].st # "gone"
        /\ pc' = [pc EXCEPT ![v] = "writeStatus"]
        /\ latest' = [latest EXCEPT ![v] = cache[v]]
        /\ UNCHANGED <<mem, want, retries, queued>>
  /\ UNCHANGED <<apiVars, cache, kidVars, claim, armed, boundVars>>

\* Mutant: one attempt too many.
RetryOnceMore(v, label) ==
  IF retries[v] <= RetryLimit
  THEN /\ pc' = [pc EXCEPT ![v] = label]
       /\ retries' = [retries EXCEPT ![v] = @ + 1]
       /\ UNCHANGED <<mem, latest, want, queued>>
  ELSE Return(v, TRUE)

\* A conflict is retried from a fresh read, up to the limit.
Retry(v, label) ==
  IF retries[v] < RetryLimit
  THEN /\ pc' = [pc EXCEPT ![v] = label]
       /\ retries' = [retries EXCEPT ![v] = @ + 1]
       /\ UNCHANGED <<mem, latest, want, queued>>
  ELSE Return(v, TRUE)

WriteStatus(v) ==
  /\ pc[v] = "writeStatus"
  /\ \/ /\ Current(v, latest[v])
        /\ IF latest[v].phase = want[v]
           THEN UNCHANGED apiVars
           ELSE Write(v, [latest[v] EXCEPT !.phase = want[v]])
        /\ Goto(v, "callback")
        /\ UNCHANGED <<mem, queued, boundVars>>
     \/ /\ ~Current(v, latest[v])
        /\ IF vol[v].st = "gone" THEN Return(v, TRUE) ELSE Retry(v, "status")
        /\ UNCHANGED <<apiVars, boundVars>>
     \/ /\ Fails("status") /\ Return(v, TRUE)
        /\ UNCHANGED <<apiVars, uids, edits, crashes, flaps>>
  /\ UNCHANGED <<cache, kidVars, claim, armed>>

\* The volume is read again, through the cache, and what that read says is the
\* phase given to the ready callback and to the requeue decision.
Callback(v) ==
  /\ pc[v] = "callback"
  /\ \/ cache[v].st = "gone" /\ Return(v, TRUE) /\ UNCHANGED armed
     \/ /\ cache[v].st # "gone"
        /\ armed' = [armed EXCEPT ![v] =
             want[v] = "Ready" /\ SyncOrder(v, cache[v].phase)]
        /\ Finish(v, cache[v].phase)
  /\ UNCHANGED <<apiVars, cache, kidVars, claim, boundVars>>

---------------------------------------------------------------------------
\* Deletion: CleanupResourcesInNamespace, then RemoveFinalizerWithRetry

StopSync(v) ==
  /\ pc[v] = "stopSync"
  /\ armed' = [armed EXCEPT ![v] = FALSE]
  /\ Goto(v, IF mem[v].ref = NoRef THEN "release" ELSE "delRs")
  /\ UNCHANGED <<apiVars, cache, kidVars, claim, queued, mem, boundVars>>

\* Mutant: PVs, which have no owner reference, are forgotten.
CleanupStepsWithoutPv == {<<"delRs", "rs", "delPvc">>, <<"delPvc", "pvc", "delSvc">>,
                          <<"delSvc", "svc", "delNfs">>, <<"delNfs", "nfs", "release">>}

CleanupSteps == {<<"delRs", "rs", "delPvc">>, <<"delPvc", "pvc", "delPv">>,
                 <<"delPv", "pv", "delSvc">>, <<"delSvc", "svc", "delNfs">>,
                 <<"delNfs", "nfs", "release">>}

\* A child that the cache does not show is taken for deleted, and a failed
\* Delete is logged; either way cleanup goes on.  The wait for PVs ends after
\* two minutes whether they are gone or not.
CleanupKid(v, step) ==
  LET id == <<step[2], mem[v].ref>> IN
  /\ pc[v] = step[1]
  /\ Goto(v, step[3])
  /\ \/ /\ \/ ~Exists(Seen(id))
           \/ step[2] = "nfs" /\ mem[v].nfs = "external"
           \/ Exists(Seen(id)) /\ ~Exists(kids[id])
        /\ UNCHANGED <<kidVars, queued, boundVars>>
     \/ /\ Exists(Seen(id)) /\ Exists(kids[id])
        /\ step[2] = "nfs" => mem[v].nfs = "managed"
        /\ WriteKid(id, NoKid, kids[id].vol, FALSE)
        /\ UNCHANGED boundVars
     \/ /\ Exists(Seen(id)) /\ Fails("delete")
        /\ UNCHANGED <<kidVars, queued, uids, edits, crashes, flaps>>
  /\ UNCHANGED <<apiVars, cache, claim, mem, armed>>

GetForRelease(v) ==
  /\ pc[v] = "release"
  /\ \/ (cache[v].st = "gone" \/ ~cache[v].fin) /\ Return(v, FALSE)
     \/ /\ cache[v].st # "gone" /\ cache[v].fin
        /\ pc' = [pc EXCEPT ![v] = "writeRelease"]
        /\ latest' = [latest EXCEPT ![v] = cache[v]]
        /\ UNCHANGED <<mem, want, retries, queued>>
  /\ UNCHANGED <<apiVars, cache, kidVars, claim, armed, boundVars>>

\* Dropping the last finalizer of a deleting object makes it disappear.
Released(obj) ==
  [obj EXCEPT !.fin = FALSE, !.st = IF @ = "deleting" THEN "gone" ELSE @]

\* Mutant: an error from RemoveFinalizerWithRetry is logged and dropped.
WriteReleaseDropsError(v) ==
  /\ pc[v] = "writeRelease"
  /\ \/ /\ Current(v, latest[v])
        /\ Write(v, Released(latest[v]))
        /\ Return(v, FALSE)
        /\ UNCHANGED boundVars
     \/ /\ Fails("update") /\ Return(v, FALSE)
        /\ UNCHANGED <<apiVars, uids, edits, crashes, flaps>>
  /\ UNCHANGED <<cache, kidVars, claim, armed>>

WriteRelease(v) ==
  /\ pc[v] = "writeRelease"
  /\ \/ /\ Current(v, latest[v])
        /\ Write(v, Released(latest[v]))
        /\ Return(v, FALSE)
        /\ UNCHANGED boundVars
     \/ /\ ~Current(v, latest[v])
        /\ IF vol[v].st = "gone" THEN Return(v, FALSE) ELSE Retry(v, "release")
        /\ UNCHANGED <<apiVars, boundVars>>
     \/ /\ Fails("update") /\ Return(v, TRUE)
        /\ UNCHANGED <<apiVars, uids, edits, crashes, flaps>>
  /\ UNCHANGED <<cache, kidVars, claim, armed>>

Worker(v) ==
  \/ Fetch(v) \/ EnsureFinalizer(v)
  \/ GenerateNfsServer(v) \/ CreateNfsServer(v) \/ CheckNfsServer(v) \/ AssignRef(v)
  \/ \E kind \in Kinds \ {"nfs"} : EnsureKid(v, kind)
  \/ UpdateSync(v) \/ CheckNfs(v) \/ CheckPvc(v) \/ CheckRs(v)
  \/ GetForStatus(v) \/ WriteStatus(v) \/ Callback(v)
  \/ StopSync(v) \/ \E step \in CleanupSteps : CleanupKid(v, step)
  \/ GetForRelease(v) \/ WriteRelease(v)

---------------------------------------------------------------------------
\* Around the controller: users, informers, Kubernetes and the NFS operator

NewVolume(uid, nfs, ref) ==
  [uid |-> uid, rv |-> 0, st |-> "live", fin |-> FALSE, nfs |-> nfs, ref |-> ref,
   phase |-> ""]

\* Users do not give two volumes the same reference value.
UserCreate(v) ==
  /\ vol[v].st = "gone" /\ uids < MaxUids
  /\ uids' = uids + 1
  /\ \E nfs \in UserNfs, r \in UserRefs \cup {NoRef} :
       /\ r # NoRef => claim[r] \in {NoVolume, v}
       /\ Write(v, NewVolume(uids + 1, nfs, r))
       /\ claim' = [x \in Refs |-> IF x = r THEN v ELSE claim[x]]
  /\ UNCHANGED <<cache, kidVars, queued, workerVars, armed, edits, faults, crashes, flaps>>

\* An edit of fields the webhooks allow to change; here only a new version.
UserEdit(v) ==
  /\ vol[v].st = "live" /\ edits < MaxEdits
  /\ edits' = edits + 1
  /\ Write(v, vol[v])
  /\ UNCHANGED <<cache, kidVars, claim, queued, workerVars, armed, uids, faults,
                 crashes, flaps>>

UserDelete(v) ==
  /\ vol[v].st = "live"
  /\ Write(v, [vol[v] EXCEPT !.st = IF vol[v].fin THEN "deleting" ELSE "gone"])
  /\ UNCHANGED <<cache, kidVars, claim, queued, workerVars, armed, boundVars>>

\* The informer catches up, over one pending version or several.
Deliver(v) ==
  /\ \E w \in watch[v] :
       /\ cache' = [cache EXCEPT ![v] = w]
       /\ watch' = [watch EXCEPT ![v] = {x \in @ : x.rv > w.rv}]
  /\ queued' = [queued EXCEPT ![v] = TRUE]
  /\ UNCHANGED <<vol, kidVars, claim, workerVars, armed, boundVars>>

Owner(id) == IF Exists(kids[id]) THEN kids[id].vol ELSE seen[id].vol

DeliverKid(id) ==
  /\ id[1] \in LaggingKinds /\ seen[id] # kids[id]
  /\ seen' = [seen EXCEPT ![id] = kids[id]]
  /\ queued' = IF id[1] \in Watched THEN [queued EXCEPT ![Owner(id)] = TRUE] ELSE queued
  /\ UNCHANGED <<apiVars, cache, kids, claim, workerVars, armed, boundVars>>

\* The NFS operator, the volume binder and the ReplicaSet controller.
BecomeReady(id) ==
  /\ id[1] \in Gates /\ kids[id].st = "waiting"
  /\ id[1] = "pvc" => Exists(kids[<<"pv", id[2]>>])
  /\ id[1] = "rs" => kids[<<"pvc", id[2]>>].st = "ready"
  /\ WriteKid(id, [kids[id] EXCEPT !.st = "ready"], kids[id].vol, FALSE)
  /\ UNCHANGED <<apiVars, cache, claim, workerVars, armed, boundVars>>

BecomeUnready(id) ==
  /\ id[1] \in {"nfs", "rs"} /\ kids[id].st = "ready" /\ flaps < MaxFlaps
  /\ flaps' = flaps + 1
  /\ WriteKid(id, [kids[id] EXCEPT !.st = "waiting"], kids[id].vol, FALSE)
  /\ UNCHANGED <<apiVars, cache, claim, workerVars, armed, uids, edits, faults, crashes>>

\* Owner references: children other than PVs go once their volume is gone.
Orphaned(kid) == vol[kid.vol].uid # kid.uid \/ vol[kid.vol].st = "gone"

GarbageCollect(id) ==
  /\ Exists(kids[id]) /\ id[1] # "pv" /\ Orphaned(kids[id])
  /\ WriteKid(id, NoKid, kids[id].vol, FALSE)
  /\ UNCHANGED <<apiVars, cache, claim, workerVars, armed, boundVars>>

\* The process dies or loses leadership; its successor lists everything anew.
Crash ==
  /\ crashes < MaxCrashes
  /\ crashes' = crashes + 1
  /\ pc' = [v \in Volumes |-> "idle"]
  /\ mem' = [v \in Volumes |-> NoObject]
  /\ latest' = [v \in Volumes |-> NoObject]
  /\ want' = [v \in Volumes |-> ""]
  /\ retries' = [v \in Volumes |-> 0]
  /\ armed' = [v \in Volumes |-> FALSE]
  /\ cache' = vol
  /\ watch' = [v \in Volumes |-> {}]
  /\ queued' = [v \in Volumes |-> vol[v].st # "gone"]
  /\ seen' = [id \in Ids |-> IF id[1] \in LaggingKinds THEN kids[id] ELSE NoKid]
  /\ UNCHANGED <<vol, kids, claim, uids, edits, faults, flaps>>

---------------------------------------------------------------------------

Init ==
  /\ vol = [v \in Volumes |-> NoObject]
  /\ watch = [v \in Volumes |-> {}]
  /\ cache = [v \in Volumes |-> NoObject]
  /\ kids = [id \in Ids |-> NoKid]
  /\ seen = [id \in Ids |-> NoKid]
  /\ claim = [r \in Refs |-> NoVolume]
  /\ queued = [v \in Volumes |-> FALSE]
  /\ pc = [v \in Volumes |-> "idle"]
  /\ mem = [v \in Volumes |-> NoObject]
  /\ latest = [v \in Volumes |-> NoObject]
  /\ want = [v \in Volumes |-> ""]
  /\ retries = [v \in Volumes |-> 0]
  /\ armed = [v \in Volumes |-> FALSE]
  /\ uids = 0 /\ edits = 0 /\ faults = 0 /\ crashes = 0 /\ flaps = 0

Informers == (\E v \in Volumes : Deliver(v)) \/ (\E id \in Ids : DeliverKid(id))

Cluster == \E id \in Ids : BecomeReady(id) \/ BecomeUnready(id) \/ GarbageCollect(id)

Users == \E v \in Volumes : UserCreate(v) \/ UserEdit(v) \/ UserDelete(v)

Next == (\E v \in Volumes : Worker(v)) \/ Informers \/ Cluster \/ Users \/ Crash

Spec == Init /\ [][Next]_vars

\* Workers keep running and informers keep up; users, failures, crashes and loss of
\* readiness are never forced.
ControllerFairness ==
  /\ \A v \in Volumes : WF_vars(Worker(v)) /\ WF_vars(Deliver(v))
  /\ \A id \in Ids : WF_vars(DeliverKid(id))

\* The controller alone: nothing outside it is forced to make progress.
ControllerSpec == Spec /\ ControllerFairness

\* What Kubernetes and the NFS operator can make ready or collect they do.
ClusterFairness == \A id \in Ids : WF_vars(BecomeReady(id)) /\ WF_vars(GarbageCollect(id))

LiveSpec == ControllerSpec /\ ClusterFairness

---------------------------------------------------------------------------
\* Properties

\* Every variable has its type (VolumeObject, the children and the worker's locals).
Labels == {"idle", "finalizer", "nfs", "createNfs", "assignRef", "pv", "pvc", "rs",
           "svc", "sync", "checkNfs", "checkPvc", "checkRs", "status", "writeStatus",
           "callback", "stopSync", "delRs", "delPvc", "delPv", "delSvc", "delNfs",
           "release", "writeRelease"}

TypeOK ==
  /\ vol \in [Volumes -> VolumeObjects]
  /\ watch \in [Volumes -> SUBSET VolumeObjects]
  /\ cache \in [Volumes -> VolumeObjects]
  /\ kids \in [Ids -> KidObjects]
  /\ seen \in [Ids -> KidObjects]
  /\ claim \in [Refs -> Volumes \cup {NoVolume}]
  /\ queued \in [Volumes -> BOOLEAN]
  /\ pc \in [Volumes -> Labels]
  /\ mem \in [Volumes -> VolumeObjects]
  /\ latest \in [Volumes -> VolumeObjects]
  /\ want \in [Volumes -> Phases]
  /\ retries \in [Volumes -> 0 .. RetryLimit]
  /\ armed \in [Volumes -> BOOLEAN]
  /\ uids \in 0 .. MaxUids /\ edits \in 0 .. MaxEdits /\ faults \in 0 .. MaxFaults
  /\ crashes \in 0 .. MaxCrashes /\ flaps \in 0 .. MaxFlaps

\* The object a child was made for is still the one stored under its name.
OwnerPresent(kid) == vol[kid.vol].st # "gone" /\ vol[kid.vol].uid = kid.uid

\* As long as the volume a child was made for exists, that volume holds its
\* finalizer and its stored referenceValue is the one in the child's name, so that
\* CleanupResources, which finds children only by that value, can find it.  Hard
\* because names are chosen in memory, reads lag and the process may die anywhere.
KidsFindable ==
  \A id \in Ids : Exists(kids[id]) /\ OwnerPresent(kids[id]) =>
    vol[kids[id].vol].fin /\ vol[kids[id].vol].ref = id[2]

\* A child is created only for a volume that exists, holds its finalizer and has
\* the child's reference value stored (GenerateAndCreateNfsServer stores the value
\* first, ensureFinalizer comes before both): whatever the cache showed.
NoOrphanCreation ==
  [][\A id \in Ids : ~Exists(kids[id]) /\ Exists(kids'[id]) =>
       /\ OwnerPresent(kids'[id])
       /\ vol[kids'[id].vol].fin /\ vol[kids'[id].vol].ref = id[2]]_vars

\* A stored referenceValue is never replaced (GenerateAndCreateNfsServer and the
\* assignment in ReconcileNfsServerComplete write one only over an empty one, even
\* from a copy read before the first write).
RefStable ==
  [][\A v \in Volumes : vol[v].ref # NoRef /\ vol'[v].st # "gone" /\ vol[v].st # "gone"
       => vol'[v].ref = vol[v].ref]_vars

\* RemoveFinalizerWithRetry never strips an object that is not being deleted, such
\* as a new volume of the same name found by its fresh read.
FinalizerKept ==
  [][\A v \in Volumes : vol[v].fin /\ ~vol'[v].fin => vol[v].st = "deleting"]_vars

\* No step deletes a child of a volume that is not being deleted: cleanup run from a
\* stale copy after the volume was created anew does not touch the new one's.
LiveKidsKept ==
  [][\A id \in Ids : Exists(kids[id]) /\ ~Exists(kids'[id]) =>
       ~(OwnerPresent(kids[id]) /\ vol[kids[id].vol].st = "live")]_vars

\* Nothing more to do for v: it is gone, or Ready and synchronised if it has a source.
Settled(v) ==
  /\ vol[v].st = "gone" \/ (vol[v].st = "live" /\ vol[v].phase = "Ready")
  /\ armed[v] <=> v \in Sourced /\ vol[v].st = "live"

\* No wake-up is lost: at every moment a volume is settled, or its reconcile is under way,
\* in the workqueue, or will be when the informer delivers the version stored.  Any early
\* return without a requeue, on an error, a conflict or an object read from an old cache,
\* could leave a volume that nobody comes back to (HandleFinalizerLogic,
\* CheckResourceReadiness, UpdateStatusWithRetry, RemoveFinalizerWithRetry).
VolumesAttended ==
  \A v \in Volumes : Settled(v) \/ queued[v] \/ pc[v] # "idle" \/ vol[v] \in watch[v]

\* A deleted volume goes away (HandleFinalizerLogic): conflicts, failed calls, stale
\* reads and crashes delay the release of its finalizer, never lose it.
DeletionCompletes ==
  \A v \in Volumes : vol[v].st = "deleting" ~> vol[v].st = "gone"

KidReady(v, kind) == kids[<<kind, vol[v].ref>>].st = "ready"
HasRef(v) == vol[v].st = "live" /\ vol[v].ref # NoRef
NfsUp(v) == vol[v].nfs = "external" \/ KidReady(v, "nfs")

\* A volume whose ReplicaSet stays unready while its NFS server stays ready does
\* not stay Ready (CheckResourceReadiness, reached through the watch on ReplicaSets).
ReadyRevokedForReplicaSet ==
  \A v \in Volumes :
    (HasRef(v) /\ vol[v].phase = "Ready" /\ ~KidReady(v, "rs") /\ NfsUp(v))
      ~> (~HasRef(v) \/ vol[v].phase # "Ready" \/ KidReady(v, "rs") \/ ~NfsUp(v))

\* The same for the NFS server: "Status update will be handled by the calling
\* controller" (CheckAndUpdateNfsServerStatus) says the phase computed for a server
\* that is not ready gets written.
ReadyRevokedForNfs ==
  \A v \in Volumes :
    (HasRef(v) /\ vol[v].phase = "Ready" /\ ~NfsUp(v))
      ~> (~HasRef(v) \/ vol[v].phase # "Ready" \/ NfsUp(v))

\* A volume that is not deleted becomes Ready (ReconcileVolume end to end).
BecomesReady ==
  \A v \in Volumes : vol[v].st = "live" ~> (vol[v].phase = "Ready" \/ vol[v].st # "live")

\* Its server's name is stored, the server is not there, and no reconcile is about to
\* create it: GenerateAndCreateNfsServer was cut short between its two writes.
Abandoned(v) ==
  /\ vol[v].nfs = "managed" /\ pc[v] # "createNfs"
  /\ ~Exists(kids[<<"nfs", vol[v].ref>>])

\* When the cluster does its part, nothing else keeps a volume from becoming Ready:
\* wherever a crash, a failed call, a conflict or an edit falls, either the server was
\* abandoned in that one window or the volume gets there.
ReadyUnlessAbandoned ==
  ClusterFairness => \A v \in Volumes :
    vol[v].st = "live" ~> (vol[v].phase = "Ready" \/ vol[v].st # "live" \/ Abandoned(v))

\* A sourced volume that stays Ready, its server up, is being synchronised: the
\* ready callback may have seen a phase that was out of date, the reconcile that the
\* status write itself triggers makes up for it.
ReadyIsSynced ==
  \A v \in Sourced :
    (vol[v].st = "live" /\ vol[v].phase = "Ready" /\ NfsUp(v))
      ~> (armed[v] \/ vol[v].st # "live" \/ vol[v].phase # "Ready" \/ ~NfsUp(v))

ChildOf(id, v, uid) == kids[id].vol = v /\ kids[id].uid = uid

\* A cleanup of the volume stored begins, and the cache shows it all children there are.
CleanupSeesAll(v, uid) ==
  /\ pc[v] = "stopSync" /\ mem[v].uid = uid
  /\ vol[v].st = "deleting" /\ vol[v].uid = uid
  /\ \A id \in Ids : ChildOf(id, v, uid) => Exists(Seen(id))

\* Cleanup leaves none of the children that the cache shows when it begins, without the
\* garbage collector, whatever interrupts it; only a call that fails meanwhile may leave
\* one, as a failed Delete is logged and the volume released.  A PV that the cache does
\* not show yet is another matter: it counts as deleted and stays for ever (CleanupAllPVs).
NothingLeft ==
  \A v \in Volumes, uid \in 1 .. MaxUids, n \in 0 .. MaxFaults :
    (CleanupSeesAll(v, uid) /\ faults = n)
      ~> (faults > n \/ \A id \in Ids : ~ChildOf(id, v, uid))
===========================================================================
