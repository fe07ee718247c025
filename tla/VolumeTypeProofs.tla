------------------------- MODULE VolumeTypeProofs -------------------------
(***************************************************************************)
(* Every action of VolumeReconciler keeps the types (TypeOK).  Those that  *)
(* create or delete children need a reference value, which VolumeSafety-   *)
(* Proofs supplies from the inductive invariant.                           *)
(***************************************************************************)
EXTENDS VolumeInvariant, TLAPS

\* The objects that stand for "none" have their types.
LEMMA NullTypes == NoObject \in VolumeObjects /\ NoKid \in KidObjects
  BY ConstantsAssumption DEF NoObject, VolumeObjects, NfsChoice, Phases,
     NoKid, KidObjects, KidStates

\* The bounds are natural numbers.
LEMMA BoundTypes ==
  /\ RetryLimit \in Nat /\ MaxUids \in Nat /\ MaxEdits \in Nat
  /\ MaxFaults \in Nat /\ MaxCrashes \in Nat /\ MaxFlaps \in Nat
  BY ConstantsAssumption

\* What the reconciler and the users change in an object leaves it an object.
LEMMA EditTypes ==
  ASSUME NEW obj \in VolumeObjects
  PROVE  /\ [obj EXCEPT !.fin = TRUE] \in VolumeObjects
         /\ \A r \in Refs : [obj EXCEPT !.ref = r] \in VolumeObjects
         /\ \A r \in Refs : [obj EXCEPT !.ref = r, !.nfs = "managed"] \in VolumeObjects
         /\ \A phase \in Phases : [obj EXCEPT !.phase = phase] \in VolumeObjects
         /\ \A st \in {"live", "deleting", "gone"} : [obj EXCEPT !.st = st] \in VolumeObjects
         /\ Released(obj) \in VolumeObjects
<1>1. [obj EXCEPT !.fin = TRUE] \in VolumeObjects
  BY DEF VolumeObjects
<1>2. ASSUME NEW r \in Refs
      PROVE  /\ [obj EXCEPT !.ref = r] \in VolumeObjects
             /\ [obj EXCEPT !.ref = r, !.nfs = "managed"] \in VolumeObjects
  BY DEF VolumeObjects, NfsChoice
<1>3. ASSUME NEW phase \in Phases
      PROVE  [obj EXCEPT !.phase = phase] \in VolumeObjects
  BY DEF VolumeObjects
<1>4. ASSUME NEW st \in {"live", "deleting", "gone"}
      PROVE  [obj EXCEPT !.st = st] \in VolumeObjects
  BY DEF VolumeObjects
<1>5. Released(obj) \in VolumeObjects
  <2>1. CASE obj.st = "deleting"
    BY <2>1 DEF VolumeObjects, Released
  <2>2. CASE obj.st # "deleting"
    BY <2>2 DEF VolumeObjects, Released
  <2>3. QED
    BY <2>1, <2>2
<1>6. QED
  BY <1>1, <1>2, <1>3, <1>4, <1>5

\* The cached, the working and the latest copy of a volume are volume objects.
LEMMA CopyTypes ==
  ASSUME TypeOK, NEW v \in Volumes
  PROVE  {vol[v], cache[v], mem[v], latest[v]} \subseteq VolumeObjects
  BY DEF TypeOK

\* A write stores an object of the right type.
LEMMA WriteType ==
  ASSUME TypeOK, NEW v \in Volumes, NEW obj \in VolumeObjects
  PROVE  /\ Versioned(v, obj) \in VolumeObjects
         /\ Write(v, obj) => /\ vol' \in [Volumes -> VolumeObjects]
                             /\ watch' \in [Volumes -> SUBSET VolumeObjects]
<1>1. Versioned(v, obj) \in VolumeObjects
  <2>1. vol[v].rv + 1 \in Nat
    BY DEF TypeOK, VolumeObjects
  <2>2. QED
    BY <2>1 DEF Versioned, VolumeObjects
<1>2. QED
  BY <1>1 DEF Write, TypeOK

WorkerType ==
  /\ pc \in [Volumes -> Labels]
  /\ mem \in [Volumes -> VolumeObjects]
  /\ latest \in [Volumes -> VolumeObjects]
  /\ want \in [Volumes -> Phases]
  /\ retries \in [Volumes -> 0 .. RetryLimit]

\* Return of a reconcile leaves its locals well typed.
LEMMA ReturnType ==
  ASSUME TypeOK, NEW v \in Volumes, Forget(v)
  PROVE  WorkerType'
<1>1. 0 \in 0 .. RetryLimit
  BY BoundTypes
<1>2. QED
  BY <1>1, NullTypes DEF TypeOK, Forget, WorkerType, Labels, Phases

\* So does the move to a next statement.
LEMMA GotoType ==
  ASSUME TypeOK, NEW v \in Volumes, NEW label \in Labels, Goto(v, label),
         mem' \in [Volumes -> VolumeObjects]
  PROVE  WorkerType'
  BY DEF TypeOK, Goto, WorkerType

\* The steps of the worker, grouped by what they write, keep the types.
ApiType == vol \in [Volumes -> VolumeObjects] /\ watch \in [Volumes -> SUBSET VolumeObjects]

KidType ==
  /\ kids \in [Ids -> KidObjects] /\ seen \in [Ids -> KidObjects]
  /\ queued \in [Volumes -> BOOLEAN]

\* An accepted r.Update stores an object of the right type.
LEMMA UpdateType ==
  ASSUME TypeOK, NEW v \in Volumes, NEW obj \in VolumeObjects, NEW label \in Labels,
         Update(v, obj, label)
  PROVE  ApiType' /\ WorkerType'
<1>1. ApiType'
  BY WriteType DEF Update, ApiType
<1>2. mem' \in [Volumes -> VolumeObjects]
  BY WriteType DEF Update, TypeOK
<1>3. QED
  BY <1>1, <1>2, GotoType DEF Update

\* A returning reconcile requeues or not.
LEMMA QueueType ==
  ASSUME TypeOK, NEW v \in Volumes, NEW requeue \in BOOLEAN, Return(v, requeue)
  PROVE  WorkerType' /\ queued' \in [Volumes -> BOOLEAN]
<1>1. WorkerType'
  BY ReturnType DEF Return
<1>2. QED
  BY <1>1 DEF Return, TypeOK

\* A write of a child stores a child object.
LEMMA WriteKidType ==
  ASSUME TypeOK, NEW id \in Ids, NEW kid \in KidObjects, NEW v \in Volumes,
         NEW requeue \in BOOLEAN, WriteKid(id, kid, v, requeue)
  PROVE  KidType'
  BY DEF TypeOK, WriteKid, KidType

\* A kind and a reference value name a child.
LEMMA IdType ==
  ASSUME NEW kind \in Kinds, NEW r \in Refs
  PROVE  <<kind, r>> \in Ids
  BY DEF Ids

\* A failing call stays within the bound on failures.
LEMMA FailsType ==
  ASSUME TypeOK, NEW op, Fails(op)
  PROVE  faults' \in 0 .. MaxFaults
  BY BoundTypes DEF TypeOK, Fails

\* ReconcileGeneric keeps types.
LEMMA FetchType ==
  ASSUME TypeOK, NEW v \in Volumes, Fetch(v)
  PROVE  TypeOK'
<1>1. WorkerType'
  <2>1. CASE UNCHANGED workerVars
    BY <2>1 DEF TypeOK, WorkerType, workerVars
  <2>2. CASE \E label \in Labels : Goto(v, label) /\ mem' = [mem EXCEPT ![v] = cache[v]]
    BY <2>2, GotoType DEF TypeOK
  <2>3. QED
    BY <2>1, <2>2 DEF Fetch, Labels
<1>2. QED
  BY <1>1 DEF Fetch, TypeOK, WorkerType, apiVars, kidVars, boundVars

\* A failed r.Update keeps types.
LEMMA UpdateErrorType ==
  ASSUME TypeOK, NEW v \in Volumes, UpdateError(v), UNCHANGED <<cache, kidVars, armed>>
  PROVE  TypeOK'
<1>1. WorkerType' /\ queued' \in [Volumes -> BOOLEAN]
  BY QueueType DEF UpdateError
<1>2. faults' \in 0 .. MaxFaults
  BY FailsType DEF UpdateError, TypeOK
<1>3. QED
  BY <1>1, <1>2 DEF UpdateError, TypeOK, WorkerType, apiVars, kidVars

\* ensureFinalizer keeps types.
LEMMA EnsureFinalizerType ==
  ASSUME TypeOK, NEW v \in Volumes, EnsureFinalizer(v)
  PROVE  TypeOK'
<1>1. CASE mem[v].fin /\ Goto(v, "nfs") /\ UNCHANGED <<apiVars, mem, queued, claim, boundVars>>
  <2>1. WorkerType'
    BY <1>1, GotoType DEF TypeOK, Labels
  <2>2. QED
    BY <1>1, <2>1 DEF EnsureFinalizer, TypeOK, WorkerType, apiVars, kidVars, boundVars
<1>2. CASE /\ Update(v, [mem[v] EXCEPT !.fin = TRUE], "nfs")
           /\ UNCHANGED <<queued, claim, boundVars>>
  <2>1. [mem[v] EXCEPT !.fin = TRUE] \in VolumeObjects
    BY CopyTypes, EditTypes
  <2>2. ApiType' /\ WorkerType'
    BY <1>2, <2>1, UpdateType DEF Labels
  <2>3. QED
    BY <1>2, <2>2 DEF EnsureFinalizer, TypeOK, WorkerType, ApiType, kidVars, boundVars
<1>3. CASE UpdateError(v)
  BY <1>3, UpdateErrorType DEF EnsureFinalizer
<1>4. QED
  BY <1>1, <1>2, <1>3 DEF EnsureFinalizer

\* GenerateAndCreateNfsServer keeps types.
LEMMA GenerateNfsServerType ==
  ASSUME TypeOK, NEW v \in Volumes, GenerateNfsServer(v)
  PROVE  TypeOK'
<1>1. ASSUME NEW r \in RefChoices(v),
             Update(v, [mem[v] EXCEPT !.ref = r, !.nfs = "managed"], "createNfs"),
             claim' = [claim EXCEPT ![r] = IF @ = NoVolume THEN v ELSE @],
             UNCHANGED <<queued, boundVars>>
      PROVE  TypeOK'
  <2>1. r \in Refs
    BY <1>1 DEF RefChoices, FreshRefs, TypeOK, VolumeObjects
  <2>2. [mem[v] EXCEPT !.ref = r, !.nfs = "managed"] \in VolumeObjects
    BY <2>1, CopyTypes, EditTypes
  <2>3. ApiType' /\ WorkerType'
    BY <1>1, <2>2, UpdateType DEF Labels
  <2>4. claim' \in [Refs -> Volumes \cup {NoVolume}]
    BY <1>1, <2>1 DEF TypeOK
  <2>5. QED
    BY <1>1, <2>3, <2>4 DEF GenerateNfsServer, TypeOK, WorkerType, ApiType, kidVars, boundVars
<1>2. CASE UpdateError(v)
  BY <1>2, UpdateErrorType DEF GenerateNfsServer
<1>3. QED
  BY <1>1, <1>2 DEF GenerateNfsServer

\* The child a reconcile makes for its volume has its type.
LEMMA NewKidType ==
  ASSUME TypeOK, NEW v \in Volumes, NEW kind
  PROVE  NewKid(v, kind) \in KidObjects
  BY CopyTypes DEF NewKid, KidObjects, KidStates, VolumeObjects

\* A failed Create keeps types.
LEMMA CreateErrorType ==
  ASSUME TypeOK, NEW v \in Volumes, NEW id, CreateError(v, id),
         UNCHANGED <<apiVars, cache, claim, armed>>
  PROVE  TypeOK'
<1>1. WorkerType' /\ queued' \in [Volumes -> BOOLEAN]
  BY QueueType DEF CreateError
<1>2. faults' \in 0 .. MaxFaults
  BY FailsType DEF CreateError, TypeOK
<1>3. QED
  BY <1>1, <1>2 DEF CreateError, TypeOK, WorkerType, apiVars, kidVars

\* CreateAndOwnNfsServer keeps types.
LEMMA CreateNfsServerType ==
  ASSUME TypeOK, NEW v \in Volumes, mem[v].ref # NoRef, CreateNfsServer(v)
  PROVE  TypeOK'
<1> DEFINE id == <<"nfs", mem[v].ref>>
<1>0. id \in Ids
  BY CopyTypes, IdType DEF VolumeObjects, Kinds
<1>1. CASE Return(v, TRUE) /\ UNCHANGED <<kidVars, boundVars>>
  <2>1. WorkerType' /\ queued' \in [Volumes -> BOOLEAN]
    BY <1>1, QueueType
  <2>2. QED
    BY <1>1, <2>1 DEF CreateNfsServer, TypeOK, WorkerType, apiVars, kidVars, boundVars
<1>2. CASE WriteKid(id, NewKid(v, "nfs"), v, TRUE) /\ Forget(v) /\ UNCHANGED boundVars
  <2>1. KidType'
    BY <1>0, <1>2, NewKidType, WriteKidType
  <2>2. WorkerType'
    BY <1>2, ReturnType
  <2>3. QED
    BY <1>2, <2>1, <2>2
       DEF CreateNfsServer, TypeOK, KidType, WorkerType, apiVars, boundVars
<1>3. CASE CreateError(v, id)
  BY <1>3, CreateErrorType DEF CreateNfsServer
<1>4. QED
  BY <1>1, <1>2, <1>3 DEF CreateNfsServer

\* ReconcileNfsServer keeps types.
LEMMA CheckNfsServerType ==
  ASSUME TypeOK, NEW v \in Volumes, CheckNfsServer(v)
  PROVE  TypeOK'
<1>1. WorkerType' /\ queued' \in [Volumes -> BOOLEAN]
  <2>1. CASE NfsReady(v)
    <3>1. (IF mem[v].ref = NoRef THEN "assignRef" ELSE "pv") \in Labels
      BY DEF Labels
    <3>2. QED
      BY <2>1, <3>1, GotoType DEF CheckNfsServer, TypeOK
  <2>2. CASE ~NfsReady(v)
    BY <2>2, QueueType DEF CheckNfsServer
  <2>3. QED
    BY <2>1, <2>2
<1>2. QED
  BY <1>1 DEF CheckNfsServer, TypeOK, WorkerType, apiVars, kidVars, boundVars

\* ReconcileNfsServerComplete keeps types.
LEMMA AssignRefType ==
  ASSUME TypeOK, NEW v \in Volumes, AssignRef(v)
  PROVE  TypeOK'
<1>1. ASSUME NEW r \in FreshRefs,
             Write(v, [mem[v] EXCEPT !.ref = r]), claim' = [claim EXCEPT ![r] = v],
             Return(v, TRUE), UNCHANGED boundVars
      PROVE  TypeOK'
  <2>1. [mem[v] EXCEPT !.ref = r] \in VolumeObjects
    BY CopyTypes, EditTypes DEF FreshRefs
  <2>2. ApiType'
    BY <1>1, <2>1, WriteType DEF ApiType
  <2>3. WorkerType' /\ queued' \in [Volumes -> BOOLEAN]
    BY <1>1, QueueType
  <2>4. claim' \in [Refs -> Volumes \cup {NoVolume}]
    BY <1>1 DEF TypeOK
  <2>5. QED
    BY <1>1, <2>2, <2>3, <2>4 DEF AssignRef, TypeOK, WorkerType, ApiType, kidVars, boundVars
<1>2. CASE UpdateError(v)
  BY <1>2, UpdateErrorType DEF AssignRef
<1>3. QED
  BY <1>1, <1>2 DEF AssignRef

\* ReconcileRequiredResources keeps types.
LEMMA EnsureKidType ==
  ASSUME TypeOK, NEW v \in Volumes, NEW kind \in Kinds \ {"nfs"},
         mem[v].ref # NoRef, EnsureKid(v, kind)
  PROVE  TypeOK'
<1> DEFINE id == <<kind, mem[v].ref>>
<1>0. id \in Ids /\ NextLabel[kind] \in Labels
  BY CopyTypes, IdType DEF VolumeObjects, Kinds, NextLabel, Labels
<1>1. CASE Goto(v, NextLabel[kind]) /\ UNCHANGED <<mem, kidVars, queued, boundVars>>
  <2>1. WorkerType'
    BY <1>0, <1>1, GotoType DEF TypeOK
  <2>2. QED
    BY <1>1, <2>1 DEF EnsureKid, TypeOK, WorkerType, apiVars, kidVars, boundVars
<1>2. CASE /\ WriteKid(id, NewKid(v, kind), v, FALSE)
           /\ Goto(v, NextLabel[kind]) /\ UNCHANGED <<mem, boundVars>>
  <2>1. KidType'
    BY <1>0, <1>2, NewKidType, WriteKidType
  <2>2. WorkerType'
    BY <1>0, <1>2, GotoType DEF TypeOK
  <2>3. QED
    BY <1>2, <2>1, <2>2 DEF EnsureKid, TypeOK, KidType, WorkerType, apiVars, boundVars
<1>3. CASE CreateError(v, id)
  BY <1>3, CreateErrorType DEF EnsureKid
<1>4. QED
  BY <1>1, <1>2, <1>3 DEF EnsureKid

\* The order to the SyncController keeps types.
LEMMA UpdateSyncType ==
  ASSUME TypeOK, NEW v \in Volumes, UpdateSync(v)
  PROVE  TypeOK'
<1>1. WorkerType'
  BY GotoType DEF UpdateSync, TypeOK, Labels
<1>2. armed' \in [Volumes -> BOOLEAN]
  BY DEF UpdateSync, TypeOK, SyncOrder
<1>3. QED
  BY <1>1, <1>2 DEF UpdateSync, TypeOK, WorkerType, apiVars, kidVars, boundVars

\* Settling on a phase leads to the status write.
LEMMA SettleType ==
  ASSUME TypeOK, NEW v \in Volumes, NEW phase \in Phases, Settle(v, phase)
  PROVE  WorkerType' /\ queued' \in [Volumes -> BOOLEAN]
<1>1. CASE mem[v].phase = phase
  BY <1>1, QueueType DEF Settle, Finish
<1>2. CASE mem[v].phase # phase
  BY <1>2 DEF Settle, TypeOK, WorkerType, Labels
<1>3. QED
  BY <1>1, <1>2

\* CheckResourceReadiness keeps types.
LEMMA CheckType ==
  ASSUME TypeOK, NEW v \in Volumes, CheckNfs(v) \/ CheckPvc(v) \/ CheckRs(v)
  PROVE  TypeOK'
<1>1. WorkerType' /\ queued' \in [Volumes -> BOOLEAN]
  <2>1. CASE CheckNfs(v) \/ CheckPvc(v)
    <3>1. CASE \E label \in Labels : Goto(v, label) /\ UNCHANGED <<mem, queued>>
      BY <3>1, GotoType DEF TypeOK
    <3>2. CASE \E phase \in Phases : Settle(v, phase)
      BY <3>2, SettleType
    <3>3. QED
      BY <2>1, <3>1, <3>2 DEF CheckNfs, CheckPvc, Check, Labels, Phases
  <2>2. CASE CheckRs(v)
    BY <2>2, SettleType DEF CheckRs, Phases
  <2>3. QED
    BY <2>1, <2>2
<1>2. QED
  BY <1>1 DEF CheckNfs, CheckPvc, CheckRs, Check, TypeOK, WorkerType, apiVars, kidVars,
              boundVars

\* The read of UpdateStatusWithRetry keeps types.
LEMMA GetForStatusType ==
  ASSUME TypeOK, NEW v \in Volumes, GetForStatus(v)
  PROVE  TypeOK'
<1>1. WorkerType' /\ queued' \in [Volumes -> BOOLEAN]
  <2>1. CASE Return(v, TRUE)
    BY <2>1, QueueType
  <2>2. CASE ~Return(v, TRUE)
    BY <2>2 DEF GetForStatus, TypeOK, WorkerType, Labels
  <2>3. QED
    BY <2>1, <2>2
<1>2. QED
  BY <1>1 DEF GetForStatus, TypeOK, WorkerType, apiVars, kidVars, boundVars

\* A retry stays within the limit of the retry loop (RemoveFinalizerWithRetry).
LEMMA RetryType ==
  ASSUME TypeOK, NEW v \in Volumes, NEW label \in Labels, Retry(v, label)
  PROVE  WorkerType' /\ queued' \in [Volumes -> BOOLEAN]
<1>1. CASE retries[v] < RetryLimit
  <2>1. retries[v] + 1 \in 0 .. RetryLimit
    BY <1>1, BoundTypes DEF TypeOK
  <2>2. QED
    BY <1>1, <2>1 DEF Retry, TypeOK, WorkerType
<1>2. CASE ~(retries[v] < RetryLimit)
  BY <1>2, QueueType DEF Retry
<1>3. QED
  BY <1>1, <1>2

\* The write of UpdateStatusWithRetry keeps types.
LEMMA WriteStatusType ==
  ASSUME TypeOK, NEW v \in Volumes, WriteStatus(v)
  PROVE  TypeOK'
<1>1. CASE /\ IF latest[v].phase = want[v]
              THEN UNCHANGED apiVars
              ELSE Write(v, [latest[v] EXCEPT !.phase = want[v]])
           /\ Goto(v, "callback") /\ UNCHANGED <<mem, queued, boundVars>>
  <2>1. ApiType'
    <3>1. [latest[v] EXCEPT !.phase = want[v]] \in VolumeObjects
      BY CopyTypes, EditTypes DEF TypeOK
    <3>2. QED
      BY <1>1, <3>1, WriteType DEF ApiType, TypeOK, apiVars
  <2>2. WorkerType'
    BY <1>1, GotoType DEF TypeOK, Labels
  <2>3. QED
    BY <1>1, <2>1, <2>2 DEF WriteStatus, TypeOK, WorkerType, ApiType, kidVars, boundVars
<1>2. CASE /\ IF vol[v].st = "gone" THEN Return(v, TRUE) ELSE Retry(v, "status")
           /\ UNCHANGED <<apiVars, boundVars>>
  <2>1. WorkerType' /\ queued' \in [Volumes -> BOOLEAN]
    BY <1>2, QueueType, RetryType DEF Labels
  <2>2. QED
    BY <1>2, <2>1 DEF WriteStatus, TypeOK, WorkerType, apiVars, kidVars, boundVars
<1>3. CASE /\ Fails("status") /\ Return(v, TRUE)
           /\ UNCHANGED <<apiVars, uids, edits, crashes, flaps>>
  <2>1. WorkerType' /\ queued' \in [Volumes -> BOOLEAN]
    BY <1>3, QueueType
  <2>2. faults' \in 0 .. MaxFaults
    BY <1>3, FailsType
  <2>3. QED
    BY <1>3, <2>1, <2>2 DEF WriteStatus, TypeOK, WorkerType, apiVars, kidVars
<1>4. QED
  BY <1>1, <1>2, <1>3 DEF WriteStatus

\* The callback of UpdateReadinessStatus keeps types.
LEMMA CallbackType ==
  ASSUME TypeOK, NEW v \in Volumes, Callback(v)
  PROVE  TypeOK'
<1>1. WorkerType' /\ queued' \in [Volumes -> BOOLEAN]
  BY QueueType DEF Callback, Finish
<1>2. armed' \in [Volumes -> BOOLEAN]
  BY DEF Callback, TypeOK, SyncOrder
<1>3. QED
  BY <1>1, <1>2 DEF Callback, TypeOK, WorkerType, apiVars, kidVars, boundVars

\* Stopping the sync keeps types.
LEMMA StopSyncType ==
  ASSUME TypeOK, NEW v \in Volumes, StopSync(v)
  PROVE  TypeOK'
<1>1. (IF mem[v].ref = NoRef THEN "release" ELSE "delRs") \in Labels
  BY DEF Labels
<1>2. WorkerType'
  BY <1>1, GotoType DEF StopSync, TypeOK
<1>3. QED
  BY <1>2 DEF StopSync, TypeOK, WorkerType, apiVars, kidVars, boundVars

\* CleanupResourcesInNamespace keeps types: the owner of a child that it deletes is
\* one of the volumes.
LEMMA CleanupKidType ==
  ASSUME TypeOK, KidsOwned, NEW v \in Volumes, NEW step \in CleanupSteps,
         mem[v].ref # NoRef, CleanupKid(v, step)
  PROVE  TypeOK'
<1> DEFINE id == <<step[2], mem[v].ref>>
<1>0. id \in Ids /\ step[3] \in Labels
  BY CopyTypes, IdType DEF VolumeObjects, Kinds, CleanupSteps, Labels
<1>1. WorkerType'
  BY <1>0, GotoType DEF CleanupKid, TypeOK
<1>2. CASE UNCHANGED <<kidVars, queued, boundVars>>
  BY <1>1, <1>2 DEF CleanupKid, TypeOK, WorkerType, apiVars, kidVars, boundVars
<1>3. CASE /\ Exists(kids[id]) /\ WriteKid(id, NoKid, kids[id].vol, FALSE)
           /\ UNCHANGED boundVars
  <2>1. kids[id].vol \in Volumes
    BY <1>0, <1>3 DEF KidsOwned
  <2>2. KidType'
    BY <1>0, <1>3, <2>1, NullTypes, WriteKidType
  <2>3. QED
    BY <1>1, <1>3, <2>2 DEF CleanupKid, TypeOK, KidType, WorkerType, apiVars, boundVars
<1>4. CASE Fails("delete") /\ UNCHANGED <<kidVars, queued, uids, edits, crashes, flaps>>
  <2>1. faults' \in 0 .. MaxFaults
    BY <1>4, FailsType
  <2>2. QED
    BY <1>1, <1>4, <2>1 DEF CleanupKid, TypeOK, WorkerType, apiVars, kidVars
<1>5. QED
  BY <1>2, <1>3, <1>4 DEF CleanupKid

\* The read of RemoveFinalizerWithRetry keeps types.
LEMMA GetForReleaseType ==
  ASSUME TypeOK, NEW v \in Volumes, GetForRelease(v)
  PROVE  TypeOK'
<1>1. WorkerType' /\ queued' \in [Volumes -> BOOLEAN]
  <2>1. CASE Return(v, FALSE)
    BY <2>1, QueueType
  <2>2. CASE ~Return(v, FALSE)
    BY <2>2 DEF GetForRelease, TypeOK, WorkerType, Labels
  <2>3. QED
    BY <2>1, <2>2
<1>2. QED
  BY <1>1 DEF GetForRelease, TypeOK, WorkerType, apiVars, kidVars, boundVars

\* The write of RemoveFinalizerWithRetry keeps types.
LEMMA WriteReleaseType ==
  ASSUME TypeOK, NEW v \in Volumes, WriteRelease(v)
  PROVE  TypeOK'
<1>1. CASE Write(v, Released(latest[v])) /\ Return(v, FALSE) /\ UNCHANGED boundVars
  <2>1. ApiType'
    BY <1>1, CopyTypes, EditTypes, WriteType DEF ApiType
  <2>2. WorkerType' /\ queued' \in [Volumes -> BOOLEAN]
    BY <1>1, QueueType
  <2>3. QED
    BY <1>1, <2>1, <2>2 DEF WriteRelease, TypeOK, WorkerType, ApiType, kidVars, boundVars
<1>2. CASE /\ IF vol[v].st = "gone" THEN Return(v, FALSE) ELSE Retry(v, "release")
           /\ UNCHANGED <<apiVars, boundVars>>
  <2>1. WorkerType' /\ queued' \in [Volumes -> BOOLEAN]
    BY <1>2, QueueType, RetryType DEF Labels
  <2>2. QED
    BY <1>2, <2>1 DEF WriteRelease, TypeOK, WorkerType, apiVars, kidVars, boundVars
<1>3. CASE /\ Fails("update") /\ Return(v, TRUE)
           /\ UNCHANGED <<apiVars, uids, edits, crashes, flaps>>
  <2>1. WorkerType' /\ queued' \in [Volumes -> BOOLEAN]
    BY <1>3, QueueType
  <2>2. faults' \in 0 .. MaxFaults
    BY <1>3, FailsType
  <2>3. QED
    BY <1>3, <2>1, <2>2 DEF WriteRelease, TypeOK, WorkerType, apiVars, kidVars
<1>4. QED
  BY <1>1, <1>2, <1>3 DEF WriteRelease

\* The steps around the controller keep the types.
LEMMA UsersType ==
  ASSUME TypeOK, NEW v \in Volumes, UserCreate(v) \/ UserEdit(v) \/ UserDelete(v)
  PROVE  TypeOK'
<1>1. CASE UserCreate(v)
  <2>1. PICK nfs \in UserNfs, r \in UserRefs \cup {NoRef} :
          /\ Write(v, NewVolume(uids + 1, nfs, r))
          /\ claim' = [x \in Refs |-> IF x = r THEN v ELSE claim[x]]
    BY <1>1 DEF UserCreate
  <2>2. uids + 1 \in 0 .. MaxUids /\ uids + 1 \in Nat
    <3>1. uids < MaxUids /\ uids \in 0 .. MaxUids
      BY <1>1 DEF UserCreate, TypeOK
    <3>2. QED
      BY <3>1, BoundTypes
  <2>3. NewVolume(uids + 1, nfs, r) \in VolumeObjects
    <3>1. nfs \in NfsChoice /\ r \in Refs \cup {NoRef}
      BY ConstantsAssumption DEF NfsChoice
    <3>2. QED
      BY <2>2, <3>1 DEF NewVolume, VolumeObjects, Phases
  <2>4. ApiType'
    BY <2>1, <2>3, WriteType DEF ApiType
  <2>5. claim' \in [Refs -> Volumes \cup {NoVolume}]
    BY <2>1 DEF TypeOK
  <2>6. QED
    BY <1>1, <2>2, <2>4, <2>5 DEF UserCreate, TypeOK, ApiType, kidVars, workerVars
<1>2. CASE UserEdit(v)
  <2>1. ApiType'
    BY <1>2, CopyTypes, WriteType DEF UserEdit, ApiType
  <2>2. edits' \in 0 .. MaxEdits
    BY <1>2, BoundTypes DEF UserEdit, TypeOK
  <2>3. QED
    BY <1>2, <2>1, <2>2 DEF UserEdit, TypeOK, ApiType, kidVars, workerVars
<1>3. CASE UserDelete(v)
  <2>1. (IF vol[v].fin THEN "deleting" ELSE "gone") \in {"live", "deleting", "gone"}
    OBVIOUS
  <2>2. [vol[v] EXCEPT !.st = IF vol[v].fin THEN "deleting" ELSE "gone"] \in VolumeObjects
    BY <2>1, CopyTypes, EditTypes
  <2>3. ApiType'
    BY <1>3, <2>2, WriteType DEF UserDelete, ApiType
  <2>4. QED
    BY <1>3, <2>3 DEF UserDelete, TypeOK, ApiType, kidVars, workerVars, boundVars
<1>4. QED
  BY <1>1, <1>2, <1>3

\* Delivery of a version of a volume keeps types.
LEMMA DeliverType ==
  ASSUME TypeOK, NEW v \in Volumes, Deliver(v)
  PROVE  TypeOK'
<1>1. PICK w \in watch[v] : /\ cache' = [cache EXCEPT ![v] = w]
                            /\ watch' = [watch EXCEPT ![v] = {x \in @ : x.rv > w.rv}]
  BY DEF Deliver
<1>2. w \in VolumeObjects
  BY DEF TypeOK
<1>3. cache' \in [Volumes -> VolumeObjects] /\ watch' \in [Volumes -> SUBSET VolumeObjects]
  BY <1>1, <1>2 DEF TypeOK
<1>4. queued' \in [Volumes -> BOOLEAN]
  BY DEF Deliver, TypeOK
<1>5. QED
  BY <1>3, <1>4 DEF Deliver, TypeOK, kidVars, workerVars, boundVars

\* Delivery of a child keeps types: its owner is one of the volumes.
LEMMA DeliverKidType ==
  ASSUME TypeOK, KidsOwned, NEW id \in Ids, DeliverKid(id)
  PROVE  TypeOK'
<1>1. seen' \in [Ids -> KidObjects]
  BY DEF DeliverKid, TypeOK
<1>2. queued' \in [Volumes -> BOOLEAN]
  BY DEF DeliverKid, TypeOK
<1>3. QED
  BY <1>1, <1>2 DEF DeliverKid, TypeOK, apiVars, workerVars, boundVars

\* What the cluster does to children keeps types.
LEMMA ClusterType ==
  ASSUME TypeOK, KidsOwned, NEW id \in Ids,
         BecomeReady(id) \/ BecomeUnready(id) \/ GarbageCollect(id)
  PROVE  TypeOK'
<1>1. Exists(kids[id])
  BY DEF BecomeReady, BecomeUnready, GarbageCollect, Exists
<1>2. kids[id].vol \in Volumes
  BY <1>1 DEF KidsOwned
<1>3. \A st \in KidStates : [kids[id] EXCEPT !.st = st] \in KidObjects
  <2>1. kids[id] \in KidObjects
    BY DEF TypeOK
  <2>2. QED
    BY <2>1 DEF KidObjects
<1>4. KidType'
  BY <1>2, <1>3, NullTypes, WriteKidType
     DEF BecomeReady, BecomeUnready, GarbageCollect, KidStates
<1>5. flaps' \in 0 .. MaxFlaps
  <2>1. CASE BecomeUnready(id)
    BY <2>1, BoundTypes DEF BecomeUnready, TypeOK
  <2>2. CASE BecomeReady(id) \/ GarbageCollect(id)
    BY <2>2 DEF BecomeReady, GarbageCollect, boundVars, TypeOK
  <2>3. QED
    BY <2>1, <2>2
<1>6. QED
  BY <1>4, <1>5
     DEF BecomeReady, BecomeUnready, GarbageCollect, TypeOK, KidType, apiVars, workerVars,
         boundVars

\* A restart keeps types.
LEMMA CrashType ==
  ASSUME TypeOK, Crash
  PROVE  TypeOK'
<1>1. crashes' \in 0 .. MaxCrashes
  <2>1. crashes \in 0 .. MaxCrashes
    BY DEF TypeOK
  <2>2. crashes < MaxCrashes /\ crashes' = crashes + 1
    BY DEF Crash
  <2>3. QED
    BY <2>1, <2>2, BoundTypes
<1>0. 0 \in 0 .. RetryLimit
  BY BoundTypes
<1>2. seen' \in [Ids -> KidObjects]
  BY NullTypes DEF Crash, TypeOK
<1>3. QED
  BY <1>0, <1>1, <1>2, NullTypes DEF Crash, TypeOK, Labels, Phases
============================================================================
