----------------------------- MODULE PodClaims -----------------------------
(***************************************************************************)
(* The PersistentVolumeClaim and the PersistentVolume through which the    *)
(* pods of one namespace use one volume.  The pod webhook                  *)
(* (internal/webhook/v1/pod_webhook.go) creates them when a pod is         *)
(* admitted; the pod cleanup reconciler                                    *)
(* (internal/controller/pod_cleanup_controller.go) deletes them with the   *)
(* last pod, and the webhook itself when a terminating pod is updated.     *)
(*                                                                         *)
(* Requests to the webhook run concurrently, the reconciler has one        *)
(* worker; every call to the API server is a step.  Pods are read from a   *)
(* cache that lags behind, PVC and PV as they are.  The volume stays, and  *)
(* every pod has been through the webhook.                                 *)
(***************************************************************************)
EXTENDS Naturals

CONSTANTS
  Pods,        \* names of pods that use the volume
  Cluster,     \* is it a ClusterSharedVolume?
  Nobody,      \* no pod
  MaxFaults    \* bound: updates of terminating pods and restarts of the process

ASSUME ClaimsAssumption ==
  /\ Nobody \notin Pods /\ Cluster \in BOOLEAN
  /\ MaxFaults \in Nat

VARIABLES
  pod,      \* the pods as stored
  seen,     \* the pods as the informer cache has them
  obj,      \* the PV and the PVC
  request,  \* what the webhook does for a request about each pod
  job,      \* what the reconciler's worker does
  due,      \* pods in its workqueue
  wasted,   \* has an admission ended without a pod when the PV was there?
  faults

vars == <<pod, seen, obj, request, job, due, wasted, faults>>

Kinds == {"pv", "pvc"}

None == [st |-> "none", fin |-> FALSE]

\* A stored PV or PVC has the finalizer of the cluster's protection controller.
Fresh == [st |-> "live", fin |-> TRUE]

\* A pod admitted by the webhook has our finalizer.
Admitted == [st |-> "live", fin |-> TRUE]

NoRequest == [pc |-> "idle", kind |-> "pv"]
NoJob == [pc |-> "idle", kind |-> "pvc", pod |-> Nobody]

---------------------------------------------------------------------------
\* The API server

Deleted(o) == IF o.fin THEN [o EXCEPT !.st = "dying"] ELSE None

Stripped(o) == IF o.st = "live" THEN [o EXCEPT !.fin = FALSE] ELSE None

---------------------------------------------------------------------------
\* The webhook: admission of a new pod

Ask(p, pc, kind) == request' = [request EXCEPT ![p].pc = pc, ![p].kind = kind]

\* A request has been served.
Answer(p) == request' = [request EXCEPT ![p] = NoRequest]

\* Admission is refused; a PV that this request has created stays.
Refuse(p) == Answer(p) /\ wasted' = (wasted \/ request[p].kind = "pvc")

\* Somebody creates pod p: Handle, validateUniqueMountPaths.
Create(p) ==
  /\ pod[p].st = "none" /\ request[p] = NoRequest
  /\ Ask(p, "ensure", "pv")
  /\ UNCHANGED <<pod, seen, obj, job, due, wasted, faults>>

\* What follows when the PV, the PVC are there.
Proceed(p) ==
  IF request[p].kind = "pv" THEN Ask(p, "ensure", "pvc") ELSE Ask(p, "store", "pvc")

\* ensurePersistentVolumeGeneric, ensurePersistentVolumeClaimGeneric: only the
\* PVC is looked at for being in termination.
Ensure(p) ==
  LET k == request[p].kind IN
  /\ request[p].pc = "ensure"
  /\ \/ obj[k] = None /\ Ask(p, "create", k) /\ UNCHANGED wasted
     \/ k = "pvc" /\ obj[k].st = "dying" /\ Refuse(p)
     \/ obj[k] # None /\ ~(k = "pvc" /\ obj[k].st = "dying") /\ Proceed(p) /\ UNCHANGED wasted
  /\ UNCHANGED <<pod, seen, obj, job, due, faults>>

\* Another request may have created it since.
CreateObject(p) ==
  LET k == request[p].kind IN
  /\ request[p].pc = "create"
  /\ \/ obj[k] = None /\ obj' = [obj EXCEPT ![k] = Fresh] /\ Proceed(p) /\ UNCHANGED wasted
     \/ obj[k] # None /\ Refuse(p) /\ UNCHANGED obj
  /\ UNCHANGED <<pod, seen, job, due, faults>>

\* Mutant: the pod is stored without the finalizer.
StoreUnheld(p) ==
  /\ request[p].pc = "store"
  /\ pod' = [pod EXCEPT ![p] = [Admitted EXCEPT !.fin = FALSE]]
  /\ Answer(p)
  /\ UNCHANGED <<seen, obj, job, due, wasted, faults>>

\* The pod is admitted with our finalizer and stored,
Store(p) ==
  /\ request[p].pc = "store"
  /\ pod' = [pod EXCEPT ![p] = Admitted]
  /\ Answer(p)
  /\ UNCHANGED <<seen, obj, job, due, wasted, faults>>

\* or not: a quota, another webhook, a dry run.
Reject(p) ==
  /\ request[p].pc = "store"
  /\ Refuse(p)
  /\ UNCHANGED <<pod, seen, obj, job, due, faults>>

---------------------------------------------------------------------------
\* The webhook: update of a terminating pod

\* Somebody updates p, which still has our finalizer: handlePodDeletion.
Touch(p) ==
  /\ pod[p].st = "dying" /\ pod[p].fin /\ request[p] = NoRequest
  /\ faults < MaxFaults
  /\ faults' = faults + 1
  /\ request' = [request EXCEPT ![p] = [pc |-> "list", kind |-> "pvc"]]
  /\ UNCHANGED <<pod, seen, obj, job, due, wasted>>

\* isVolumeStillInUseByOtherPods
OtherUsers(p) == {q \in Pods \ {p} : seen[q].st = "live"}

WebhookLists(p) ==
  /\ request[p].pc = "list"
  /\ Ask(p, IF OtherUsers(p) = {} THEN "delete" ELSE "release", "pvc")
  /\ UNCHANGED <<pod, seen, obj, job, due, wasted, faults>>

\* deletePVC, then deletePV: the protection finalizers are left alone.
WebhookDeletes(p) ==
  LET k == request[p].kind IN
  /\ request[p].pc = "delete"
  /\ obj' = [obj EXCEPT ![k] = Deleted(@)]
  /\ IF k = "pvc" THEN Ask(p, "delete", "pv") ELSE Ask(p, "release", "pv")
  /\ UNCHANGED <<pod, seen, job, due, wasted, faults>>

\* removePodFinalizer writes the request's copy: a conflict when the reconciler has
\* taken the finalizer off since.
WebhookReleases(p) ==
  /\ request[p].pc = "release"
  /\ pod' = [pod EXCEPT ![p].fin = FALSE]
  /\ Answer(p)
  /\ UNCHANGED <<seen, obj, job, due, wasted, faults>>

Webhook(p) ==
  \/ Ensure(p) \/ CreateObject(p) \/ Store(p)
  \/ WebhookLists(p) \/ WebhookDeletes(p) \/ WebhookReleases(p)

---------------------------------------------------------------------------
\* The reconciler

Step(pc, kind) == job' = [job EXCEPT !.pc = pc, !.kind = kind]

EndJob == job' = NoJob

\* Mutant: pods that are being deleted are filtered out.
WatchedWhileLive(p) == pod[p].st = "live" /\ (Cluster => pod[p].fin)

\* The event filter: the annotation of a SharedVolume, or our finalizer.
Watched(p) == Cluster => pod[p].fin

\* The informer delivers the latest state of p.
Refresh(p) ==
  /\ seen[p] # pod[p]
  /\ seen' = [seen EXCEPT ![p] = pod[p]]
  /\ due' = IF Watched(p) THEN due \cup {p} ELSE due
  /\ UNCHANGED <<pod, obj, request, job, wasted, faults>>

\* Reconcile gets p from the cache; forceDeletePod when it has finalizers.
Reconcile(p) ==
  /\ job.pc = "idle" /\ p \in due
  /\ due' = due \ {p}
  /\ job' = IF seen[p].st = "dying"
            THEN [pc |-> IF seen[p].fin THEN "force" ELSE "list", kind |-> "pvc", pod |-> p]
            ELSE NoJob
  /\ UNCHANGED <<pod, seen, obj, request, wasted, faults>>

\* A write with the cache's copy of p: a conflict unless the copy is current.
ReleaseSeen(p) == pod' = IF seen[p] = pod[p] THEN [pod EXCEPT ![p].fin = FALSE] ELSE pod

\* forceDeletePod: whatever comes of it, Reconcile goes on.
ForceDeletePod ==
  /\ job.pc = "force"
  /\ IF seen[job.pod].fin THEN ReleaseSeen(job.pod) ELSE UNCHANGED pod
  /\ Step("list", "pvc")
  /\ UNCHANGED <<seen, obj, request, due, wasted, faults>>

\* Mutant: terminating pods count as users.
TerminatingUsers == {q \in Pods : seen[q].st \in {"live", "dying"}}

\* isVolumeStillInUseByRef
Users == {q \in Pods : seen[q].st = "live"}

ListPods ==
  /\ job.pc = "list"
  /\ IF Users = {} THEN Step("strip", "pvc") ELSE Step("release", "pvc")
  /\ UNCHANGED <<pod, seen, obj, request, due, wasted, faults>>

AfterDelete == IF job.kind = "pvc" THEN Step("strip", "pv") ELSE Step("release", "pv")

\* forceDeletePVC, forceDeletePV: take the finalizers off,
StripObject ==
  /\ job.pc = "strip"
  /\ IF obj[job.kind] = None THEN AfterDelete ELSE Step("delete", job.kind)
  /\ obj' = [obj EXCEPT ![job.kind] = Stripped(@)]
  /\ UNCHANGED <<pod, seen, request, due, wasted, faults>>

\* delete it, and take off those that it got meanwhile, if the cache tells.
DeleteObject ==
  /\ job.pc = "delete"
  /\ obj' \in {[obj EXCEPT ![job.kind] = o] : o \in {Deleted(obj[job.kind]), None}}
  /\ AfterDelete
  /\ UNCHANGED <<pod, seen, request, due, wasted, faults>>

\* removeFinalizer, with the cache's copy; an error has p reconciled again.
RemoveFinalizer ==
  LET p == job.pod IN
  /\ job.pc = "release"
  /\ IF seen[p].st # "gone" /\ seen[p].fin THEN ReleaseSeen(p) ELSE UNCHANGED pod
  /\ due' = IF seen[p].st = "gone" \/ (seen[p].fin /\ seen[p] # pod[p])
            THEN due \cup {p} ELSE due
  /\ EndJob
  /\ UNCHANGED <<seen, obj, request, wasted, faults>>

Worker ==
  \/ ForceDeletePod \/ ListPods \/ StripObject \/ DeleteObject \/ RemoveFinalizer

---------------------------------------------------------------------------
\* The cluster

\* Somebody deletes p.
Delete(p) ==
  /\ pod[p].st = "live"
  /\ pod' = [pod EXCEPT ![p].st = "dying"]
  /\ UNCHANGED <<seen, obj, request, job, due, wasted, faults>>

\* The kubelet has stopped the containers, and no finalizer keeps the pod.
Kubelet(p) ==
  /\ pod[p].st = "dying" /\ ~pod[p].fin
  /\ pod' = [pod EXCEPT ![p].st = "gone"]
  /\ UNCHANGED <<seen, obj, request, job, due, wasted, faults>>

\* The protection controllers give the finalizer to what lacks it,
Protect(k) ==
  /\ obj[k].st = "live" /\ ~obj[k].fin
  /\ obj' = [obj EXCEPT ![k].fin = TRUE]
  /\ UNCHANGED <<pod, seen, request, job, due, wasted, faults>>

\* and take it from what is terminating when nothing uses it any more.
Unprotect(k) ==
  /\ obj[k].st = "dying"
  /\ IF k = "pvc" THEN \A p \in Pods : pod[p].st \in {"none", "gone"}
                  ELSE obj["pvc"] = None
  /\ obj' = [obj EXCEPT ![k] = None]
  /\ UNCHANGED <<pod, seen, request, job, due, wasted, faults>>

\* The process restarts and lists all pods; requests under way fail.
Crash ==
  /\ faults < MaxFaults
  /\ faults' = faults + 1
  /\ request' = [p \in Pods |-> NoRequest]
  /\ EndJob
  /\ seen' = pod
  /\ due' = {p \in Pods : pod[p].st # "none" /\ Watched(p)}
  /\ UNCHANGED <<pod, obj, wasted>>

---------------------------------------------------------------------------
Init ==
  /\ pod = [p \in Pods |-> None] /\ seen = pod
  /\ obj = [k \in Kinds |-> None]
  /\ request = [p \in Pods |-> NoRequest]
  /\ job = NoJob
  /\ due = {}
  /\ wasted = FALSE /\ faults = 0

Environment ==
  \/ \E p \in Pods : Create(p) \/ Reject(p) \/ Touch(p) \/ Delete(p) \/ Kubelet(p)
  \/ \E k \in Kinds : Protect(k) \/ Unprotect(k)
  \/ Crash

Next ==
  \/ \E p \in Pods : Webhook(p) \/ Refresh(p) \/ Reconcile(p)
  \/ Worker
  \/ Environment

Spec == Init /\ [][Next]_vars

\* Requests are served, events arrive and the worker goes on; the workqueue hands
\* out every pod in turn; the kubelet and the protection controllers do their work.
Fairness ==
  /\ \A p \in Pods :
       /\ WF_vars(Webhook(p)) /\ WF_vars(Refresh(p)) /\ WF_vars(Kubelet(p))
       /\ SF_vars(Reconcile(p))
  /\ WF_vars(Worker)
  /\ \A k \in Kinds : WF_vars(Unprotect(k))

LiveSpec == Spec /\ Fairness

---------------------------------------------------------------------------
\* Properties

PodStates == [st: {"none", "live", "dying", "gone"}, fin: BOOLEAN]

TypeOK ==
  /\ pod \in [Pods -> PodStates] /\ seen \in [Pods -> PodStates]
  /\ obj \in [Kinds -> [st: {"none", "live", "dying"}, fin: BOOLEAN]]
  /\ request \in [Pods -> [pc: {"idle", "ensure", "create", "store", "list", "delete", "release"},
                           kind: Kinds]]
  /\ job \in [pc: {"idle", "force", "list", "strip", "delete", "release"},
              kind: Kinds, pod: Pods \cup {Nobody}]
  /\ due \subseteq Pods
  /\ wasted \in BOOLEAN /\ faults \in 0 .. MaxFaults

Ended == {"dying", "gone"}

\* The cache has a state the pod has been in.
CacheBehind ==
  \A p \in Pods :
    /\ seen[p].st = "live" => pod[p].st # "none"
    /\ seen[p].st \in Ended => pod[p].st \in Ended

\* A pod that does not exist yet is admitted, one that terminates is released.
RequestsMatch ==
  \A p \in Pods :
    /\ request[p].pc \in {"ensure", "create", "store"} => pod[p].st = "none"
    /\ request[p].pc \in {"list", "delete", "release"} => pod[p].st \in Ended

\* A pod is never without our finalizer before it is deleted, also as the cache
\* has it, so none escapes the reconciler; and only what terminates is cleaned up
\* after, although the copies are old (pod_cleanup_controller.go:764-794).
PodsHeld ==
  /\ \A p \in Pods : \A q \in {pod[p], seen[p]} :
       /\ q.st = "live" => q.fin
       /\ q.st \in {"none", "gone"} => ~q.fin
  /\ job.pc # "idle" => job.pod \in Pods /\ pod[job.pod].st \in Ended

ClaimsInv == TypeOK /\ CacheBehind /\ RequestsMatch /\ PodsHeld

\* What the last pod of a volume leaves is cleaned up: when pods have used it and
\* none does or is being admitted, PV and PVC go, although pods that terminate at
\* the same time do not count for each other (pod_cleanup_controller.go:583) and
\* each is seen late.  Not after a restart, an admission in vain, or when a pod has
\* been released by the webhook, which the reconciler may never see terminating.
Unused ==
  /\ \A p \in Pods : pod[p].st # "live" /\ request[p].pc \in {"idle", "list", "delete", "release"}
  /\ \E p \in Pods : pod[p].st \in {"dying", "gone"}
  /\ faults = 0 /\ ~wasted

Reclaimed == Unused ~> (~Unused \/ \A k \in Kinds : obj[k] = None)

\* Still to be cleaned up after, or to be told of by an event that has not arrived.
Awaited(p) ==
  \/ pod[p].st \in Ended /\ seen[p].st \notin Ended
  \/ p \in due /\ seen[p].st = "dying" /\ pod[p].fin /\ job.pod # p

\* An admission that has come as far as the PVC.
Claiming(p) == request[p].pc \in {"ensure", "create", "store"} /\ request[p].kind = "pvc"

\* Cleaning up: what is still to be deleted is ahead of the worker.
Cleaning ==
  \/ job.pc \in {"force", "list"}
  \/ job.pc \in {"strip", "delete"} /\ (obj["pvc"].st = "live" => job.kind = "pvc")

\* Whatever the order of admissions, events, reconciles and protection finalizers, a PV
\* or PVC that is left has at every moment somebody who will delete it: a pod that runs
\* or is being admitted, an event or a reconcile of one that terminates, or the worker.
\* That a terminating pod waits with our finalizer on it is what keeps the chain whole
\* (isVolumeStillInUseByRef, removeFinalizer); excepted is what Reclaimed excepts.
ClaimsAttended ==
  faults = 0 /\ ~wasted /\ (\E k \in Kinds : obj[k].st = "live") =>
    Cleaning \/ \E p \in Pods : pod[p].st = "live" \/ Claiming(p) \/ Awaited(p)

\* Without a fault, a pod is not released before the cache shows that it terminates.
ReleasedWhenSeen ==
  /\ job.pc = "idle" => job = NoJob
  /\ job.pc # "idle" => seen[job.pod].st \in Ended
  /\ faults = 0 => \A p \in Pods :
       /\ request[p].pc \notin {"list", "delete", "release"}
       /\ pod[p].st \in Ended /\ seen[p].st \notin Ended => pod[p].st = "dying" /\ pod[p].fin

\* The inductive form of ClaimsAttended, with ClaimsInv.
AttendInv == ReleasedWhenSeen /\ ClaimsAttended

\* A pod that is deleted goes: conflicts, restarts and requests in between never
\* leave our finalizer on it (pod_cleanup_controller.go:144).
PodsGo == \A p \in Pods : pod[p].st = "dying" ~> pod[p].st = "gone"

\* "cleans up the PVC and PV only if no other pods are using them"
\* (pod_cleanup_controller.go:428): neither is deleted under a pod that runs.
DeletedUnused ==
  [][\A k \in Kinds : obj[k].st = "live" /\ obj'[k].st # "live" =>
       \A p \in Pods : pod[p].st # "live"]_vars

---------------------------------------------------------------------------
\* Refinement of ClaimContract, in one namespace and for a volume that stays

Admitting(p) == request[p].pc \in {"ensure", "create", "store"}

Stage(p) ==
  IF pod[p].st = "none" /\ Admitting(p) THEN "admitting"
  ELSE IF pod[p].st = "dying" /\ ~pod[p].fin THEN "released"
  ELSE pod[p].st

stages == [p \in Pods |-> Stage(p)]
claims == [c \in Kinds \X {"here"} |-> obj[c[1]].st]

Contract == INSTANCE ClaimContract WITH
  Namespaces <- {"here"}, Home <- [p \in Pods |-> "here"],
  life <- "live", stage <- stages, claim <- claims

\* Concurrent admissions, old copies, conflicts and restarts do not show: a pod is
\* released between its deletion and its end and at no other time, and PV and PVC come
\* for an admission and go after a pod that has ended (removeFinalizer, forceDeletePod,
\* isVolumeStillInUseByRef, ensurePersistentVolumeGeneric).
KeepsContract == Contract!Spec
=============================================================================
