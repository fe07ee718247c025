--------------------------- MODULE VolumeTeardown ---------------------------
(***************************************************************************)
(* The cleanup of one volume that is being deleted                         *)
(* (CleanupResourcesInNamespace, internal/controller/                      *)
(* volume_controller_base.go) together with what goes on meanwhile: the    *)
(* pod webhook admits pods that use the volume, in any namespace, and      *)
(* makes a PV and a PVC there; the pod cleanup reconciler deletes these    *)
(* with the last pod.                                                      *)
(*                                                                         *)
(* The three read the volume, the PVs and the PVCs from caches that lag,   *)
(* and write without a lock.  How one namespace's PV and PVC are made and  *)
(* deleted call by call is in PodClaims; the volume's own finalizer and    *)
(* children, its main PV and PVC among them, are in VolumeReconciler.      *)
(***************************************************************************)
EXTENDS Naturals

CONSTANTS
  Namespaces,   \* namespaces with pods that use the volume
  Pods,         \* these pods, as <<namespace, name>>
  Running,      \* those that run already
  Nobody,       \* no pod
  Lagging,      \* the PVs and PVCs of which the cache may lag behind
  MaxCrashes    \* bound: restarts of the process

Kinds   == {"pvc", "pv"}
Objects == Kinds \X Namespaces

ASSUME TeardownAssumption ==
  /\ Running \subseteq Pods /\ \A p \in Pods : p[1] \in Namespaces
  /\ Nobody \notin Pods /\ Lagging \subseteq Objects
  /\ MaxCrashes \in Nat

VARIABLES
  vol,      \* the volume: live, dying (its finalizer holds it) or gone
  there,    \* does the cache have it?
  pod,      \* the pods: a dying one is held by our finalizer until released
  claim,    \* the PVs and PVCs that the webhook makes, as stored
  seen,     \* those of Lagging that the cache has
  serving,  \* are Service and NFS server up?
  request,  \* what the webhook does for each pod
  job,      \* the pod cleanup worker
  cleanup,  \* the worker that deletes the volume
  owed,     \* what the cache had when the deletion began, and is not gone yet
  crashes

podVars == <<pod, request, job>>
vars == <<vol, there, pod, claim, seen, serving, request, job, cleanup, owed, crashes>>

NoJob == [pc |-> "idle", pod |-> Nobody]
NoCleanup == [pc |-> "idle", kind |-> "pvc", todo |-> {}, late |-> FALSE]

---------------------------------------------------------------------------
\* PVs and PVCs

\* What a read through the cache finds.
Seen(o) == IF o \in Lagging THEN o \in seen ELSE claim[o] # "none"

Put(o, state) ==
  /\ claim' = [claim EXCEPT ![o] = state]
  /\ owed' = IF state = "none" THEN owed \ {o} ELSE owed

\* ForceDeletePVC, ForceDeletePV: take the finalizers off and delete.  A finalizer
\* stays when the update meets a conflict too often or the protection controller gives
\* it back; then the object terminates.
ForceDelete(o) ==
  IF claim[o] = "none" THEN UNCHANGED <<claim, owed>>
                       ELSE Put(o, "none") \/ Put(o, "dying")

---------------------------------------------------------------------------
\* The pod webhook

Answer(p) == request' = [request EXCEPT ![p] = "idle"]

\* Somebody creates p; the volume is looked up, not whether it is being deleted.
Admit(p) ==
  /\ pod[p] = "none" /\ request[p] = "idle" /\ there
  /\ request' = [request EXCEPT ![p] = "pv"]
  /\ UNCHANGED <<vol, there, pod, claim, seen, serving, job, cleanup, owed, crashes>>

AfterEnsure == [pv |-> "pvc", pvc |-> "store"]

\* ensurePersistentVolumeGeneric, ensurePersistentVolumeClaimGeneric: refused when the
\* PVC terminates, if the cache tells, or exists although the cache does not have it.
Ensure(p, kind) ==
  LET o == <<kind, p[1]>>
      next == request' = [request EXCEPT ![p] = AfterEnsure[kind]]
  IN
  /\ request[p] = kind
  /\ \/ ~Seen(o) /\ claim[o] = "none" /\ Put(o, "live") /\ next
     \/ ~Seen(o) /\ claim[o] # "none" /\ Answer(p) /\ UNCHANGED <<claim, owed>>
     \/ Seen(o) /\ next /\ UNCHANGED <<claim, owed>>
     \/ Seen(o) /\ kind = "pvc" /\ claim[o] # "live" /\ Answer(p)
        /\ UNCHANGED <<claim, owed>>
  /\ UNCHANGED <<vol, there, pod, seen, serving, job, cleanup, crashes>>

\* The pod, which has our finalizer now, is stored, or another check refuses it.
Store(p) ==
  /\ request[p] = "store"
  /\ pod' \in {pod, [pod EXCEPT ![p] = "live"]}
  /\ Answer(p)
  /\ UNCHANGED <<vol, there, claim, seen, serving, job, cleanup, owed, crashes>>

Webhook(p) == (\E kind \in Kinds : Ensure(p, kind)) \/ Store(p)

---------------------------------------------------------------------------
\* The pod cleanup reconciler

\* forceDeletePod releases the pod (conflicts, and the release at the end that makes up
\* for them, are in PodClaims); resources of a volume that is gone are left.
Reconcile(p) ==
  /\ job.pc = "idle" /\ pod[p] = "dying"
  /\ pod' = [pod EXCEPT ![p] = "released"]
  /\ job' = IF there THEN [pc |-> "users", pod |-> p] ELSE NoJob
  /\ UNCHANGED <<vol, there, claim, seen, serving, request, cleanup, owed, crashes>>

\* isVolumeStillInUseByRef: in all namespaces.
CheckUsers ==
  /\ job.pc = "users"
  /\ job' = IF \E p \in Pods : pod[p] = "live" THEN NoJob ELSE [job EXCEPT !.pc = "pvc"]
  /\ UNCHANGED <<vol, there, pod, claim, seen, serving, request, cleanup, owed, crashes>>

\* Mutant: the PVs of every namespace are found by the volume's name.
DeleteForPodAnywhere(kind) ==
  /\ job.pc = kind
  /\ \E n \in Namespaces :
       IF Seen(<<kind, n>>) THEN ForceDelete(<<kind, n>>) ELSE UNCHANGED <<claim, owed>>
  /\ job' = IF kind = "pvc" THEN [job EXCEPT !.pc = "pv"] ELSE NoJob
  /\ UNCHANGED <<vol, there, pod, seen, serving, request, cleanup, crashes>>

\* cleanupPodSpecificResourcesByRef: the PVC, then the PV, of this pod's namespace; what
\* the cache does not have counts as deleted.
DeleteForPod(kind) ==
  LET o == <<kind, job.pod[1]>> IN
  /\ job.pc = kind
  /\ IF Seen(o) THEN ForceDelete(o) ELSE UNCHANGED <<claim, owed>>
  /\ job' = IF kind = "pvc" THEN [job EXCEPT !.pc = "pv"] ELSE NoJob
  /\ UNCHANGED <<vol, there, pod, seen, serving, request, cleanup, crashes>>

PodWorker == CheckUsers \/ \E kind \in Kinds : DeleteForPod(kind)

---------------------------------------------------------------------------
\* CleanupResourcesInNamespace

Step(pc) == cleanup' = [cleanup EXCEPT !.pc = pc]

\* Mutant: PVs first, and nothing after them.
BeginWithPvs ==
  /\ cleanup.pc = "idle" /\ vol = "dying"
  /\ cleanup' = [cleanup EXCEPT !.pc = "list", !.kind = "pv"]
  /\ owed' = {o \in Objects : claim[o] # "none" /\ Seen(o)}
  /\ UNCHANGED <<vol, there, podVars, claim, seen, serving, crashes>>

\* HandleDeletion.  Synchronisation, ReplicaSet and its pods come first; pods that use
\* the volume are looked for under annotations that the webhook does not use.
Begin ==
  /\ cleanup.pc = "idle" /\ vol = "dying"
  /\ Step("list")
  /\ owed' = {o \in Objects : claim[o] # "none" /\ Seen(o)}
  /\ UNCHANGED <<vol, there, podVars, claim, seen, serving, crashes>>

\* PVs after PVCs.
AfterList(todo) ==
  cleanup' = IF todo # {} THEN [cleanup EXCEPT !.pc = "each", !.todo = todo]
             ELSE IF cleanup.kind = "pvc"
             THEN [cleanup EXCEPT !.pc = "list", !.kind = "pv", !.todo = {}]
             ELSE [cleanup EXCEPT !.pc = "wait", !.todo = {}]

\* Mutant: PVs are found by their labels, which the webhook does not set.
ListByLabel ==
  /\ cleanup.pc = "list"
  /\ AfterList({n \in Namespaces : cleanup.kind = "pvc" /\ Seen(<<"pvc", n>>)})
  /\ UNCHANGED <<vol, there, podVars, claim, seen, serving, owed, crashes>>

\* Those of the namespaces, by the prefix of their names.
List ==
  /\ cleanup.pc = "list"
  /\ AfterList({n \in Namespaces : Seen(<<cleanup.kind, n>>)})
  /\ UNCHANGED <<vol, there, podVars, claim, seen, serving, owed, crashes>>

\* Mutant: the loop ends after the first.
DeleteListedOnce(n) ==
  /\ cleanup.pc = "each" /\ n \in cleanup.todo
  /\ ForceDelete(<<cleanup.kind, n>>)
  /\ AfterList({})
  /\ UNCHANGED <<vol, there, podVars, seen, serving, crashes>>

\* A failure is logged and the next one tried.
DeleteListed(n) ==
  /\ cleanup.pc = "each" /\ n \in cleanup.todo
  /\ ForceDelete(<<cleanup.kind, n>>)
  /\ AfterList(cleanup.todo \ {n})
  /\ UNCHANGED <<vol, there, podVars, seen, serving, crashes>>

Deadline == cleanup' = [cleanup EXCEPT !.pc = "servers", !.late = TRUE]

\* Mutant: no deadline.
WaitForever ==
  /\ cleanup.pc = "wait"
  /\ \A n \in Namespaces : ~Seen(<<"pv", n>>)
  /\ Step("servers")
  /\ UNCHANGED <<vol, there, podVars, claim, seen, serving, owed, crashes>>

\* Mutant: PVs that terminate are not waited for.
WaitForLive ==
  /\ cleanup.pc = "wait"
  /\ \/ (\A n \in Namespaces : claim[<<"pv", n>>] # "live") /\ Step("servers")
     \/ Deadline
  /\ UNCHANGED <<vol, there, podVars, claim, seen, serving, owed, crashes>>

\* CleanupAllPVsWithWait: until the cache has no PV of the volume, or two minutes.
Wait ==
  /\ cleanup.pc = "wait"
  /\ \/ (\A n \in Namespaces : ~Seen(<<"pv", n>>)) /\ Step("servers")
     \/ Deadline
  /\ UNCHANGED <<vol, there, podVars, claim, seen, serving, owed, crashes>>

\* CleanupServiceInNamespace, CleanupNFSServerInNamespace
DeleteServers ==
  /\ cleanup.pc = "servers"
  /\ serving' = FALSE
  /\ Step("release")
  /\ UNCHANGED <<vol, there, podVars, claim, seen, owed, crashes>>

\* RemoveFinalizerWithRetry
Release ==
  /\ cleanup.pc = "release"
  /\ vol' = "gone"
  /\ cleanup' = NoCleanup
  /\ UNCHANGED <<there, podVars, claim, seen, serving, owed, crashes>>

VolumeWorker ==
  \/ Begin \/ List \/ (\E n \in Namespaces : DeleteListed(n))
  \/ Wait \/ DeleteServers \/ Release

---------------------------------------------------------------------------
\* Users, informers, Kubernetes and crashes

DeleteVolume ==
  /\ vol = "live"
  /\ vol' = "dying"
  /\ UNCHANGED <<there, podVars, claim, seen, serving, cleanup, owed, crashes>>

DeletePod(p) ==
  /\ pod[p] = "live"
  /\ pod' = [pod EXCEPT ![p] = "dying"]
  /\ UNCHANGED <<vol, there, claim, seen, serving, request, job, cleanup, owed, crashes>>

\* The kubelet has stopped the containers of a pod that no finalizer holds.
Kubelet(p) ==
  /\ pod[p] = "released"
  /\ pod' = [pod EXCEPT ![p] = "gone"]
  /\ UNCHANGED <<vol, there, claim, seen, serving, request, job, cleanup, owed, crashes>>

\* The informers catch up.
DeliverVolume ==
  /\ there /\ vol = "gone"
  /\ there' = FALSE
  /\ UNCHANGED <<vol, podVars, claim, seen, serving, cleanup, owed, crashes>>

Deliver(o) ==
  /\ o \in Lagging /\ (o \in seen) # (claim[o] # "none")
  /\ seen' = IF o \in seen THEN seen \ {o} ELSE seen \cup {o}
  /\ UNCHANGED <<vol, there, podVars, claim, serving, cleanup, owed, crashes>>

\* A terminating PVC is kept for the pods of its namespace, a PV for its PVC.
Kept(o) ==
  IF o[1] = "pvc" THEN \E p \in Pods : p[1] = o[2] /\ pod[p] \notin {"none", "gone"}
                  ELSE claim[<<"pvc", o[2]>>] # "none"

Unprotect(o) ==
  /\ claim[o] = "dying" /\ ~Kept(o)
  /\ Put(o, "none")
  /\ UNCHANGED <<vol, there, podVars, seen, serving, cleanup, crashes>>

\* The process restarts and reads everything anew.
Crash ==
  /\ crashes < MaxCrashes
  /\ crashes' = crashes + 1
  /\ request' = [p \in Pods |-> "idle"]
  /\ job' = NoJob /\ cleanup' = NoCleanup
  /\ there' = (vol # "gone") /\ seen' = {o \in Lagging : claim[o] # "none"}
  /\ UNCHANGED <<vol, pod, claim, serving, owed>>

---------------------------------------------------------------------------
\* A volume that is Ready and that some pods use.
InUse == {p[1] : p \in Running}

Init ==
  /\ vol = "live" /\ there = TRUE
  /\ pod = [p \in Pods |-> IF p \in Running THEN "live" ELSE "none"]
  /\ claim = [o \in Objects |-> IF o[2] \in InUse THEN "live" ELSE "none"]
  /\ seen = {o \in Lagging : o[2] \in InUse}
  /\ serving = TRUE
  /\ request = [p \in Pods |-> "idle"]
  /\ job = NoJob /\ cleanup = NoCleanup
  /\ owed = {} /\ crashes = 0

Environment ==
  \/ DeleteVolume \/ DeliverVolume \/ Crash
  \/ \E p \in Pods : Admit(p) \/ DeletePod(p) \/ Kubelet(p)
  \/ \E o \in Objects : Deliver(o) \/ Unprotect(o)

Next ==
  \/ VolumeWorker \/ PodWorker
  \/ \E p \in Pods : Webhook(p) \/ Reconcile(p)
  \/ Environment

Spec == Init /\ [][Next]_vars

\* The workers go on, each pod gets its turn, informers, kubelet and the protection
\* controllers do their work; users and crashes are never forced.
Fairness ==
  /\ WF_vars(VolumeWorker) /\ WF_vars(PodWorker) /\ WF_vars(DeliverVolume)
  /\ \A p \in Pods : SF_vars(Reconcile(p)) /\ WF_vars(Kubelet(p))
  /\ \A o \in Objects : WF_vars(Deliver(o)) /\ WF_vars(Unprotect(o))

LiveSpec == Spec /\ Fairness
---------------------------------------------------------------------------
\* Properties

TypeOK ==
  /\ vol \in {"live", "dying", "gone"} /\ there \in BOOLEAN
  /\ pod \in [Pods -> {"none", "live", "dying", "released", "gone"}]
  /\ claim \in [Objects -> {"none", "live", "dying"}] /\ seen \subseteq Lagging
  /\ serving \in BOOLEAN
  /\ request \in [Pods -> {"idle", "pv", "pvc", "store"}]
  /\ job \in [pc: {"idle", "users", "pvc", "pv"}, pod: Pods \cup {Nobody}]
  /\ job.pc # "idle" => job.pod \in Pods
  /\ cleanup \in [pc: {"idle", "list", "each", "wait", "servers", "release"},
                  kind: Kinds, todo: SUBSET Namespaces, late: BOOLEAN]
  /\ owed \subseteq Objects
  /\ crashes \in 0 .. MaxCrashes

\* The cleanup runs for a volume that terminates, from the beginning each time, and it
\* can see what it owes.
Accounted ==
  /\ IF cleanup.pc = "idle" THEN cleanup = NoCleanup ELSE vol = "dying"
  /\ \A o \in owed : claim[o] # "none" /\ Seen(o)

\* How far the cleanup has come: PVCs before PVs, all of a kind before the next.
Progress ==
  /\ cleanup.pc = "each" =>
       \A o \in owed : o[1] = cleanup.kind /\ o[2] \notin cleanup.todo => claim[o] = "dying"
  /\ cleanup.pc \in {"list", "each"} /\ cleanup.kind = "pv" =>
       \A o \in owed : o[1] = "pvc" => claim[o] = "dying"
  /\ cleanup.pc \in {"wait", "servers", "release"} \/ vol = "gone" =>
       \A o \in owed : claim[o] = "dying"
  /\ cleanup.pc \in {"list", "each", "wait"} => ~cleanup.late
  /\ cleanup.pc = "servers" /\ ~cleanup.late => \A o \in owed : o[1] # "pv"

TeardownInv == TypeOK /\ Accounted /\ Progress

\* "Keep Service and NFS Server running until PVs are completely gone"
\* (volume_controller_base.go:1199): they are deleted, unless the two minutes are over,
\* only when every PV there was at the beginning is gone, although pods come and go and
\* the wait looks at a cache.
KeptForPvs ==
  [][serving /\ ~serving' => cleanup.late \/ \A o \in owed : o[1] # "pv"]_vars

\* When the volume is gone, all PVCs and PVs that were there when its deletion began
\* (volume_controller_base.go:1194-1201) are gone or terminate: in every namespace, after
\* restarts, and whatever the pod cleanup did at the same time.
NoneForgotten == vol = "gone" => \A o \in owed : claim[o] = "dying"

\* The volume goes (RemoveFinalizerWithRetry is reached) even when a PV stays for ever,
\* because a pod goes on using its PVC.
TeardownEnds == vol = "dying" ~> vol = "gone"

Used(n) == \E p \in Pods : p[1] = n /\ pod[p] = "live"

\* In the end only what a pod still runs on is left of what was there, and what a PVC
\* is bound to that a pod admitted meanwhile has made.
Torn ==
  vol = "gone" ~>
    \A o \in owed :
      \/ Used(o[2])
      \/ o[1] = "pv" /\ <<"pvc", o[2]>> \notin owed /\ claim[<<"pvc", o[2]>>] # "none"

---------------------------------------------------------------------------
\* Refinement of ClaimContract

stages == [p \in Pods |-> IF request[p] # "idle" THEN "admitting" ELSE pod[p]]

Contract == INSTANCE ClaimContract WITH
  Home <- [p \in Pods |-> p[1]], life <- vol, stage <- stages

\* A pod that is being admitted does not exist yet, one that is cleaned up after has been
\* released (Reconcile).
PodsMatch ==
  /\ \A p \in Pods : request[p] # "idle" => pod[p] = "none"
  /\ job.pc # "idle" => pod[job.pod] \in {"released", "gone"}

\* In all namespaces together, and with a volume that is deleted meanwhile: what one of
\* the webhook, the pod cleanup and the volume's own cleanup makes or takes away has its
\* reason, an admission, the end of a pod in that namespace or of the volume
\* (cleanupPodSpecificResourcesByRef, CleanupAllPVCsInNamespace, CleanupAllPVs).
KeepsContract == Contract!Spec
=============================================================================
