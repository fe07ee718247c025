-------------------------- MODULE VolumeAdmission --------------------------
(***************************************************************************)
(* One volume's spec on its way through the validating webhook, which      *)
(* judges what users write and what the controller writes alike, the       *)
(* controller's defaults, and the timer that builds sync requests from it. *)
(*                                                                         *)
(* VolumeReconciler has the steps of the same reconcile in full, with      *)
(* lagging caches, failing calls and crashes, but a spec of two fields and *)
(* no webhook.  Here the spec is whole and what is made of it follows: the *)
(* children of a well-formed volume come up as soon as they are made.      *)
(***************************************************************************)
EXTENDS VolumeSpecs

CONSTANTS
  UserSpecs,    \* what users write
  UserServers,  \* NfsServers that run without the controller's doing
  MaxObjects,   \* bound: objects created, one after the other
  MaxEdits      \* bound: updates by users

ASSUME AdmissionAssumption ==
  UserSpecs \subseteq Specs /\ UserServers \subseteq NfsNames
  /\ MaxObjects \in Nat /\ MaxEdits \in Nat

VARIABLES
  kind,     \* SharedVolume or ClusterSharedVolume
  obj,      \* API server: the volume
  servers,  \* the NfsServers that are ready
  queued,   \* the workqueue
  pc,       \* where the reconcile is
  mem,      \* volumeObj, the copy it works on
  timer,    \* the armed timer: the namespace of its key and the spec it captured
  objects, edits

vars == <<kind, obj, servers, queued, pc, mem, timer, objects, edits>>
boundVars == <<objects, edits>>

NoSpec == [mountPath |-> "", storage |-> None, class |-> FALSE, namespace |-> "",
           ref |-> "", nfs |-> None, source |-> None, interval |-> Unset, timeout |-> Unset]

\* address: status.nfsServerAddress is set.
Objects == [st: {"live", "deleting", "gone"}, rv: Nat, fin: BOOLEAN, spec: Specs,
            ready: BOOLEAN, address: BOOLEAN]

NoObject == [st |-> "gone", rv |-> 0, fin |-> FALSE, spec |-> NoSpec,
             ready |-> FALSE, address |-> FALSE]

Timers == [namespace: Namespaces, spec: Specs]

Labels == {"idle", "finalizer", "fill", "generate", "server", "reference", "resources",
           "release"}

---------------------------------------------------------------------------
\* Users, by way of the webhook

Create(s) ==
  /\ obj.st = "gone" /\ objects < MaxObjects
  /\ ValidateVolumeSpec(kind, s)
  /\ obj' = [NoObject EXCEPT !.st = "live", !.rv = obj.rv + 1, !.spec = s]
  /\ queued' = TRUE
  /\ objects' = objects + 1
  /\ UNCHANGED <<kind, servers, pc, mem, timer, edits>>

\* A replacement, or a change of the fields that may change.
Versions(s) == {s, [obj.spec EXCEPT !.source = s.source, !.interval = s.interval,
                                    !.timeout = s.timeout]}

Edit(s) ==
  /\ obj.st # "gone" /\ edits < MaxEdits
  /\ \E new \in Versions(s) \ {obj.spec} :
       /\ ValidateVolumeObjectUpdate(kind, obj.spec, new)
       /\ obj' = [obj EXCEPT !.spec = new, !.rv = @ + 1]
  /\ queued' = TRUE
  /\ edits' = edits + 1
  /\ UNCHANGED <<kind, servers, pc, mem, timer, objects>>

Delete ==
  /\ obj.st = "live"
  /\ obj' = IF obj.fin THEN [obj EXCEPT !.st = "deleting", !.rv = @ + 1]
            ELSE [NoObject EXCEPT !.rv = obj.rv + 1]
  /\ queued' = TRUE
  /\ UNCHANGED <<kind, servers, pc, mem, timer, boundVars>>

---------------------------------------------------------------------------
\* The controller

Return(again) ==
  /\ pc' = "idle" /\ mem' = NoObject
  /\ queued' = (queued \/ again)

\* An Update of the copy: the API server asks for the current version, the webhook
\* judges the rest.
Accepted(spec) ==
  /\ mem.rv = obj.rv /\ obj.st # "gone"
  /\ ValidateVolumeObjectUpdate(kind, obj.spec, spec)

Stored(spec) == obj' = [obj EXCEPT !.spec = spec, !.rv = @ + 1]

Fetch ==
  /\ pc = "idle" /\ queued
  /\ queued' = FALSE
  /\ \/ obj.st = "gone" /\ UNCHANGED <<pc, mem>>
     \/ /\ obj.st # "gone"
        /\ pc' = IF obj.st = "deleting" THEN "release"
                 ELSE IF obj.fin THEN "fill" ELSE "finalizer"
        /\ mem' = obj
  /\ UNCHANGED <<kind, obj, servers, timer, boundVars>>

EnsureFinalizer ==
  /\ pc = "finalizer"
  /\ \/ /\ Accepted(mem.spec)
        /\ obj' = [obj EXCEPT !.fin = TRUE, !.spec = mem.spec, !.rv = @ + 1]
        /\ mem' = obj'
        /\ queued' = TRUE
        /\ pc' = "fill"
     \/ ~Accepted(mem.spec) /\ Return(TRUE) /\ UNCHANGED obj
  /\ UNCHANGED <<kind, servers, timer, boundVars>>

FillAndValidate ==
  /\ pc = "fill"
  /\ \/ /\ SpecComplete(mem.spec)
        /\ pc' = IF mem.spec.nfs = None THEN "generate" ELSE "server"
        /\ mem' = [mem EXCEPT !.spec = Filled(@)]
        /\ UNCHANGED queued
     \/ ~SpecComplete(mem.spec) /\ Return(TRUE)
  /\ UNCHANGED <<kind, obj, servers, timer, boundVars>>

\* GenerateAndCreateNfsServer: the spec is stored, then the server created.
GenerateNfsServer ==
  LET spec == Generated(mem.spec) IN
  /\ pc = "generate"
  /\ \/ /\ Accepted(spec) /\ Stored(spec)
        /\ servers' = servers \cup (IF spec.ref = "unfit" THEN {} ELSE {spec.nfs.name})
     \/ ~Accepted(spec) /\ UNCHANGED <<obj, servers>>
  /\ Return(TRUE)
  /\ UNCHANGED <<kind, timer, boundVars>>

Managed(nfs) == ~IsExternalNfsServer(nfs) /\ nfs.name # ""

WithUrl(spec) == [spec EXCEPT !.nfs.url = "nfs.ns.svc"]

\* ReconcileNfsServer; UpdateVolumeStatus writes a managed server's URL into the copy.
CheckServer ==
  LET managed == Managed(mem.spec.nfs) IN
  /\ pc = "server"
  /\ \/ managed /\ mem.spec.nfs.name \notin servers /\ Return(TRUE)
     \/ /\ managed => mem.spec.nfs.name \in servers
        /\ pc' = IF mem.spec.ref = "" THEN "reference" ELSE "resources"
        /\ mem' = IF managed /\ ~mem.address
                  THEN [mem EXCEPT !.address = TRUE, !.spec = WithUrl(@)]
                  ELSE mem
        /\ UNCHANGED queued
  /\ UNCHANGED <<kind, obj, servers, timer, boundVars>>

AssignReference ==
  LET spec == Referenced(mem.spec) IN
  /\ pc = "reference"
  /\ \/ Accepted(spec) /\ Stored(spec)
     \/ ~Accepted(spec) /\ UNCHANGED obj
  /\ Return(TRUE)
  /\ UNCHANGED <<kind, servers, timer, boundVars>>

\* The API server takes the PersistentVolume and the Service only of such a spec;
\* they are made once.
Provisionable(spec) ==
  spec.nfs.url # "" /\ spec.storage.capacity \in Quantities /\ spec.ref # "unfit"

\* The namespace a timer's key is made of.
KeyNamespace(spec) == IF kind = "sv" THEN Home ELSE spec.namespace

\* StartSyncForSharedVolume, StartSyncForClusterSharedVolume: only the first stops the
\* old timer when the interval does not parse.
Started(spec) ==
  IF ~hasValidSource(spec) THEN None
  ELSE IF spec.interval \notin Int THEN IF kind = "sv" THEN None ELSE timer
  ELSE [namespace |-> KeyNamespace(spec), spec |-> spec]

\* Mutant: syncs are started when the volume becomes Ready, not when it is Ready.
ProvisionStartsOnce ==
  /\ pc = "resources"
  /\ \/ /\ ~mem.ready /\ ~Provisionable(mem.spec)
        /\ Return(TRUE) /\ UNCHANGED <<obj, timer>>
     \/ /\ mem.ready \/ Provisionable(mem.spec)
        /\ obj' = IF mem.ready THEN obj
                  ELSE [obj EXCEPT !.ready = TRUE, !.address = TRUE, !.rv = @ + 1]
        /\ timer' = IF mem.ready THEN timer ELSE Started(mem.spec)
        /\ Return(~mem.ready)
  /\ UNCHANGED <<kind, servers, boundVars>>

\* ReconcileRequiredResources, CheckResourceReadiness and the start of syncs, which
\* a status update by the volume's own reconcile or an earlier one makes Ready.
Provision ==
  /\ pc = "resources"
  /\ \/ /\ ~mem.ready /\ ~Provisionable(mem.spec)
        /\ Return(TRUE) /\ UNCHANGED <<obj, timer>>
     \/ /\ mem.ready \/ Provisionable(mem.spec)
        /\ obj' = IF mem.ready THEN obj
                  ELSE [obj EXCEPT !.ready = TRUE, !.address = TRUE, !.rv = @ + 1]
        /\ timer' = Started(mem.spec)
        /\ Return(~mem.ready)
  /\ UNCHANGED <<kind, servers, boundVars>>

\* Mutant: the defaults are filled in before the deletion is handled.
ReleaseFilled ==
  /\ pc = "release"
  /\ timer' = IF timer # None /\ timer.namespace = KeyNamespace(mem.spec) THEN None ELSE timer
  /\ servers' = UserServers
  /\ obj' = IF /\ SpecComplete(obj.spec)
               /\ ValidateVolumeObjectUpdate(kind, obj.spec, Filled(obj.spec))
            THEN [NoObject EXCEPT !.rv = obj.rv + 1]
            ELSE obj
  /\ Return(TRUE)
  /\ UNCHANGED <<kind, boundVars>>

\* handleDeletion: syncs stop under the key of the spec as it was read, the children
\* go, and the finalizer is taken off a fresh copy.
Release ==
  /\ pc = "release"
  /\ timer' = IF timer # None /\ timer.namespace = KeyNamespace(mem.spec) THEN None ELSE timer
  /\ servers' = UserServers
  /\ obj' = IF ValidateVolumeObjectUpdate(kind, obj.spec, obj.spec)
            THEN [NoObject EXCEPT !.rv = obj.rv + 1]
            ELSE obj
  /\ Return(TRUE)
  /\ UNCHANGED <<kind, boundVars>>

\* scheduledSyncCommon: the run of a timer whose volume is gone is the last.
Lookup ==
  /\ timer # None /\ obj.st = "gone"
  /\ timer' = None
  /\ UNCHANGED <<kind, obj, servers, queued, pc, mem, boundVars>>

---------------------------------------------------------------------------
Init ==
  /\ kind \in VolumeKinds
  /\ obj = NoObject /\ servers = UserServers
  /\ queued = FALSE /\ pc = "idle" /\ mem = NoObject /\ timer = None
  /\ objects = 0 /\ edits = 0

Controller ==
  \/ Fetch \/ EnsureFinalizer \/ FillAndValidate \/ GenerateNfsServer \/ CheckServer
  \/ AssignReference \/ Provision \/ Release

Next ==
  \/ \E s \in UserSpecs : Create(s) \/ Edit(s)
  \/ Delete
  \/ Controller
  \/ Lookup

\* The workqueue serves every volume, a failed reconcile again after a pause, and a
\* timer fires.
Spec == Init /\ [][Next]_vars /\ WF_vars(Controller) /\ WF_vars(Lookup)
---------------------------------------------------------------------------
\* Properties

TypeOK ==
  /\ kind \in VolumeKinds /\ obj \in Objects /\ servers \subseteq NfsNames
  /\ queued \in BOOLEAN /\ pc \in Labels /\ mem \in Objects
  /\ timer \in Timers \cup {None}
  /\ objects \in Nat /\ edits \in Nat

\* What is stored passes the webhook's checks of an update, so that the controller
\* can write it back.
StoredValid == obj.st # "gone" => ValidateVolumeSpec(kind, obj.spec)

\* A copy is of a valid spec, complete once its defaults are filled in, and has at
\* each step of the reconcile what the step takes for granted.
CopyValid ==
  /\ pc = "idle" <=> mem.st = "gone"
  /\ pc # "idle" =>
       validateSourceSpec(kind, mem.spec.source) /\ mem.spec.mountPath # ""
  /\ pc \notin {"idle", "finalizer", "fill", "release"} =>
       SpecComplete(mem.spec) /\ mem.spec.namespace # ""
  /\ pc \in {"server", "reference", "resources"} => mem.spec.nfs # None
  /\ pc = "generate" => mem.spec.nfs = None
  /\ pc = "resources" => mem.spec.ref # ""

\* The armed timer captured a spec that was admitted, with its defaults filled in.
TimerValid ==
  timer # None =>
    /\ timer.spec.interval \in Int
    /\ hasValidSource(timer.spec) /\ validateSourceSpec(kind, timer.spec.source)
    /\ timer.namespace = KeyNamespace(timer.spec)

\* Webhook, controller and timer agree on what a spec is: every stored one can be
\* written back, every copy and every timer is of an admitted one
\* (ValidateVolumeObjectUpdate, ReconcileVolume, startSyncCommon).
AdmissionInv == TypeOK /\ StoredValid /\ CopyValid /\ TimerValid

\* The volume as it is now, against the copy of it: an Update of the copy is taken for
\* current only if nothing has happened since, and then the copy is the volume with its
\* defaults, and the URL found for its server, filled in.
CopyCurrent ==
  /\ pc # "idle" => mem.rv <= obj.rv
  /\ pc # "idle" /\ mem.rv = obj.rv =>
       /\ obj.st # "gone"
       /\ pc \in {"finalizer", "fill", "release"} => mem.spec = obj.spec
       /\ pc \in {"generate", "server"} => mem.spec = Filled(obj.spec)
       /\ pc \in {"reference", "resources"} =>
            mem.spec \in {Filled(obj.spec), WithUrl(Filled(obj.spec))}

\* A volume that is deleted while the reconcile is at work waits for it.
HeldMeanwhile ==
  /\ obj.st = "deleting" => obj.fin
  /\ pc \notin {"idle", "finalizer"} => obj.st # "gone" /\ obj.fin
  /\ obj.st = "gone" => ~obj.ready

StorageSound(storage) == storage # None /\ storage.mode \in Modes \cup {""}

ServerSound(nfs) == nfs # None /\ (IsExternalNfsServer(nfs) \/ nfs.name \in servers)

\* What the reconcile has checked of its copy, users cannot have changed in the volume.
ChecksHold ==
  /\ pc = "fill" => /\ mem.spec.ref \in {obj.spec.ref, ""}
                    /\ compareStorageSpecsWithDefaults(mem.spec.storage, obj.spec.storage)
                    /\ compareNfsServerSpecsWithDefaults(mem.spec.nfs, obj.spec.nfs)
  /\ pc \in {"generate", "server", "reference", "resources"} =>
       /\ mem.spec.ref \in {obj.spec.ref, ""}
       /\ StorageSound(obj.spec.storage) /\ mem.spec.storage.capacity = obj.spec.storage.capacity
  /\ pc = "server" => /\ obj.spec.nfs # None /\ mem.spec.nfs.name = obj.spec.nfs.name
                      /\ mem.spec.nfs.url \in {obj.spec.nfs.url, ""}
  /\ pc \in {"reference", "resources"} =>
       obj.spec.nfs # None /\ (mem.spec.nfs.url = "" \/ ServerSound(obj.spec.nfs))

\* A Ready volume is complete, so that nothing it rests on can be set any more.
ReadyComplete ==
  obj.ready => /\ StorageSound(obj.spec.storage) /\ obj.spec.storage.capacity \in Quantities
               /\ ServerSound(obj.spec.nfs) /\ obj.spec.ref \notin {"", "unfit"}

\* The inductive form of ReadyIsSound and WritesAccepted: what copy and volume have in
\* common at each step of a reconcile, whatever users store meanwhile
\* (ValidateVolumeObjectUpdate against GenerateAndCreateNfsServer and ReconcileVolume).
CopyInv == CopyCurrent /\ HeldMeanwhile /\ ChecksHold /\ ReadyComplete

\* A sync request of an admitted volume fails to be built for want of a Secret only:
\* what validateSourceSpec lets through, buildSyncRequestCommon needs no more than.
RequestsBuild ==
  timer # None =>
    Buildable(timer.spec.source, timer.namespace, SecretsOf(timer.spec.source, timer.namespace))

\* A namespaced volume's requests are made of Secrets of its own namespace, a
\* cluster-scoped one's of those it names (validateSecretKeySelector and the
\* fallback of build...SyncRequestCommon to the volume's namespace).
SecretsWhereDeclared ==
  timer # None =>
    \A read \in SecretsOf(timer.spec.source, timer.namespace) :
      IF kind = "sv" THEN read[1] = Home
      ELSE \E c \in CredentialsOf(timer.spec.source) :
             c.secret # None /\ read = <<c.secret.namespace, c.secret.name>>

\* Will the webhook take the spec back once the defaults are in it?
SyncFits(spec) ==
  LET interval == IF spec.interval = Unset THEN 60 ELSE spec.interval
      timeout  == IF spec.timeout = Unset THEN 120 ELSE spec.timeout
  IN  spec.source # None => {interval, timeout} \subseteq Int /\ timeout < interval

\* A spec that will do: storage of a size, a server to be had, a reference value fit
\* for a Service and, where the controller has to write the spec, durations that fit.
Sound(spec) ==
  /\ spec.storage # None
  /\ spec.storage.capacity \in Quantities /\ spec.storage.mode \in Modes \cup {""}
  /\ spec.ref # "unfit"
  /\ IF spec.nfs = None
     THEN spec.class /\ SyncFits(spec)
     ELSE /\ IsExternalNfsServer(spec.nfs) \/ spec.nfs.name \in servers
          /\ spec.ref = "" =>
               /\ SyncFits(spec)
               /\ Managed(spec.nfs) => spec.nfs.url \in {"", "nfs.ns.svc"}

\* The webhook takes the controller's own writes of what it has just read, but for
\* durations that do not fit once the defaults are in (FillAndValidateSpec) and a URL
\* that is not the server's (UpdateVolumeStatus): the finalizer, the generated server,
\* the reference value, and the removal of the finalizer, whose lack of defaults never
\* stands in the way of a deletion.
WritesAccepted ==
  /\ pc = "finalizer" /\ mem.rv = obj.rv => Accepted(mem.spec)
  /\ pc = "generate" /\ mem.rv = obj.rv =>
       (Accepted(Generated(mem.spec)) <=> SyncFits(obj.spec))
  /\ pc = "reference" /\ mem.rv = obj.rv =>
       (Accepted(Referenced(mem.spec)) <=>
          SyncFits(obj.spec) /\ obj.spec.nfs.url \in {mem.spec.nfs.url, ""})
  /\ pc = "release" => ValidateVolumeObjectUpdate(kind, obj.spec, obj.spec)

Live == obj.st = "live"

\* Only a sound spec makes a volume Ready (FillAndValidateSpec, the order of the
\* reconcile's checks and the immutability of what they have checked).
ReadyIsSound == obj.ready => Sound(obj.spec)

\* A sound spec does: no write of the controller's that it needs is refused by the
\* webhook, whatever the controller filled in and users changed meanwhile.
SoundBecomesReady ==
  (Live /\ Sound(obj.spec)) ~> (obj.ready \/ ~Live \/ ~Sound(obj.spec))

\* The removal of the finalizer is an update too, and the webhook never refuses it
\* (RemoveFinalizerWithRetry, ValidateVolumeObjectUpdate).
DeletingEnds == obj.st = "deleting" ~> obj.st = "gone"

\* The source of an edited volume that is Ready is the one synced from in the end
\* (the start of syncs by every reconcile, base 2160-2177).
EditReachesTimer ==
  LET syncable == obj.ready /\ Live /\ hasValidSource(obj.spec) /\ obj.spec.interval # Malformed
  IN  syncable ~> (~syncable \/ (timer # None /\ timer.spec.source = obj.spec.source))

\* README.md:141-142 lists syncInterval and syncTimeout as not required: a volume that
\* would be sound with durations that fit is so without any.
DefaultsSuffice ==
  LET spec == obj.spec
      lacksOnlyDurations ==
        /\ Live /\ spec.source # None /\ {spec.interval, spec.timeout} = {Unset}
        /\ Sound([spec EXCEPT !.interval = 60, !.timeout = 30])
  IN  lacksOnlyDurations ~> (obj.ready \/ ~lacksOnlyDurations)
=============================================================================
