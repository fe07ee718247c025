------------------------- MODULE VolumeStepProofs -------------------------
(***************************************************************************)
(* What no step of VolumeReconciler does (its action properties), from the *)
(* invariant of VolumeSafetyProofs, and that no step leaves a volume to    *)
(* itself before it is settled.                                            *)
(***************************************************************************)
EXTENDS VolumeSafetyProofs

---------------------------------------------------------------------------
\* Steps that write a volume

\* What a write may do to the stored version of a volume that exists.
LawfulWrite(v) ==
  vol[v].st # "gone" =>
    /\ vol'[v].st # "gone" /\ vol[v].ref # NoRef => vol'[v].ref = vol[v].ref
    /\ vol[v].fin /\ ~vol'[v].fin => vol[v].st = "deleting"

\* A write is lawful when the object written may follow the one stored.
LEMMA WriteLawful ==
  ASSUME TypeOK, NEW v \in Volumes, NEW obj \in VolumeObjects, Write(v, obj),
         vol[v].st # "gone" =>
           /\ obj.st # "gone" /\ vol[v].ref # NoRef => obj.ref = vol[v].ref
           /\ vol[v].fin /\ ~obj.fin => vol[v].st = "deleting"
  PROVE  LawfulWrite(v) /\ \A w \in Volumes \ {v} : vol'[w] = vol[w]
<1>1. vol'[v] = Versioned(v, obj) /\ \A w \in Volumes \ {v} : vol'[w] = vol[w]
  BY DEF Write, TypeOK
<1>2. vol'[v].st = obj.st /\ vol'[v].fin = obj.fin /\ vol'[v].ref = obj.ref
  BY <1>1 DEF Versioned, VolumeObjects
<1>3. QED
  BY <1>1, <1>2 DEF LawfulWrite

\* A write by the reconciler from a copy it holds keeps what that copy says.
LEMMA WorkerWrites ==
  ASSUME ReconcileInv, NEW v \in Volumes, Worker(v)
  PROVE  \/ UNCHANGED vol
         \/ LawfulWrite(v) /\ \A w \in Volumes \ {v} : vol'[w] = vol[w]
<1>0. TypeOK /\ ReconcileKnows(v) /\ mem[v] \in VolumeObjects /\ latest[v] \in VolumeObjects
  BY DEF ReconcileInv, TypeOK
<1>1. pc[v] # "idle" /\ Current(v, mem[v]) => mem[v] = vol[v]
  BY <1>0, CurrentCopy DEF ReconcileKnows
<1>2. pc[v] \in Writing /\ Current(v, latest[v]) => latest[v] = vol[v]
  BY <1>0, CurrentCopy DEF ReconcileKnows
<1>3. CASE EnsureFinalizer(v)
  <2>1. CASE Update(v, [mem[v] EXCEPT !.fin = TRUE], "nfs")
    <3> DEFINE obj == [mem[v] EXCEPT !.fin = TRUE]
    <3>1. obj \in VolumeObjects
      BY <1>0, EditTypes
    <3>2. obj.ref = mem[v].ref /\ obj.fin
      BY <1>0 DEF VolumeObjects
    <3>3. mem[v] = vol[v]
      BY <1>1, <1>3, <2>1 DEF EnsureFinalizer, Update
    <3> HIDE DEF obj
    <3>4. Write(v, obj)
      BY <2>1 DEF Update, obj
    <3>5. QED
      BY <1>0, <3>1, <3>2, <3>3, <3>4, WriteLawful
  <2>2. CASE UNCHANGED vol
    BY <2>2
  <2>3. QED
    BY <1>3, <2>1, <2>2 DEF EnsureFinalizer, UpdateError, apiVars
<1>4. CASE GenerateNfsServer(v)
  <2>1. ASSUME NEW r \in RefChoices(v),
               Update(v, [mem[v] EXCEPT !.ref = r, !.nfs = "managed"], "createNfs")
        PROVE  LawfulWrite(v) /\ \A w \in Volumes \ {v} : vol'[w] = vol[w]
    <3> DEFINE obj == [mem[v] EXCEPT !.ref = r, !.nfs = "managed"]
    <3>1. r \in Refs /\ (mem[v].ref # NoRef => r = mem[v].ref)
      BY <1>0 DEF RefChoices, FreshRefs, VolumeObjects
    <3>2. obj \in VolumeObjects
      BY <1>0, <3>1, EditTypes
    <3>3. obj.ref = r /\ obj.fin = mem[v].fin
      BY <1>0 DEF VolumeObjects
    <3>4. mem[v] = vol[v]
      BY <1>1, <1>4, <2>1 DEF GenerateNfsServer, Update
    <3> HIDE DEF obj
    <3>5. Write(v, obj)
      BY <2>1 DEF Update, obj
    <3>6. QED
      BY <1>0, <3>1, <3>2, <3>3, <3>4, <3>5, WriteLawful
  <2>2. CASE UNCHANGED vol
    BY <2>2
  <2>3. QED
    BY <1>4, <2>1, <2>2 DEF GenerateNfsServer, UpdateError, apiVars
<1>5. CASE AssignRef(v)
  <2>1. ASSUME NEW r \in FreshRefs, Current(v, mem[v]), Write(v, [mem[v] EXCEPT !.ref = r])
        PROVE  LawfulWrite(v) /\ \A w \in Volumes \ {v} : vol'[w] = vol[w]
    <3> DEFINE obj == [mem[v] EXCEPT !.ref = r]
    <3>1. obj \in VolumeObjects
      BY <1>0, EditTypes DEF FreshRefs
    <3>2. obj.fin = mem[v].fin
      BY <1>0 DEF VolumeObjects
    <3>3. mem[v] = vol[v] /\ mem[v].ref = NoRef
      BY <1>0, <1>1, <1>5, <2>1 DEF AssignRef, ReconcileKnows
    <3> HIDE DEF obj
    <3>4. Write(v, obj)
      BY <2>1 DEF obj
    <3>5. QED
      BY <1>0, <3>1, <3>2, <3>3, <3>4, WriteLawful
  <2>2. CASE UNCHANGED vol
    BY <2>2
  <2>3. QED
    BY <1>5, <2>1, <2>2 DEF AssignRef, UpdateError, apiVars
<1>6. CASE WriteStatus(v)
  <2>1. CASE Current(v, latest[v]) /\ Write(v, [latest[v] EXCEPT !.phase = want[v]])
    <3> DEFINE obj == [latest[v] EXCEPT !.phase = want[v]]
    <3>1. obj \in VolumeObjects
      BY <1>0, EditTypes DEF TypeOK
    <3>2. obj.fin = latest[v].fin /\ obj.ref = latest[v].ref
      BY <1>0 DEF VolumeObjects
    <3>3. latest[v] = vol[v]
      BY <1>2, <1>6, <2>1 DEF WriteStatus, Writing
    <3> HIDE DEF obj
    <3>4. Write(v, obj)
      BY <2>1 DEF obj
    <3>5. QED
      BY <1>0, <3>1, <3>2, <3>3, <3>4, WriteLawful
  <2>2. CASE UNCHANGED vol
    BY <2>2
  <2>3. QED
    BY <1>6, <2>1, <2>2 DEF WriteStatus, apiVars
<1>7. CASE WriteRelease(v)
  <2>1. CASE Current(v, latest[v]) /\ Write(v, Released(latest[v]))
    <3>1. latest[v] = vol[v] /\ vol[v].st = "deleting"
      BY <1>7, <2>1, ReleaseIsOfDeleting DEF WriteRelease
    <3>2. Released(latest[v]) \in VolumeObjects
      BY <1>0, EditTypes
    <3>3. Released(latest[v]).st = "gone"
      BY <1>0, <3>1 DEF Released, VolumeObjects
    <3>4. QED
      BY <1>0, <2>1, <3>1, <3>2, <3>3, WriteLawful
  <2>2. CASE UNCHANGED vol
    BY <2>2
  <2>3. QED
    BY <1>7, <2>1, <2>2 DEF WriteRelease, apiVars
<1>8. CASE \/ Fetch(v) \/ CreateNfsServer(v) \/ CheckNfsServer(v)
           \/ \E kind \in Kinds \ {"nfs"} : EnsureKid(v, kind)
           \/ UpdateSync(v) \/ CheckNfs(v) \/ CheckPvc(v) \/ CheckRs(v)
  BY <1>8 DEF Fetch, CreateNfsServer, CheckNfsServer, EnsureKid, UpdateSync, CheckNfs,
              CheckPvc, CheckRs, Check, apiVars
<1>9. CASE \/ GetForStatus(v) \/ Callback(v) \/ StopSync(v)
           \/ \E step \in CleanupSteps : CleanupKid(v, step)
           \/ GetForRelease(v)
  BY <1>9 DEF GetForStatus, Callback, StopSync, CleanupKid, GetForRelease, apiVars
<1>10. QED
  BY <1>3, <1>4, <1>5, <1>6, <1>7, <1>8, <1>9 DEF Worker

\* What users do is a lawful write: no edit takes a value or a finalizer away.
LEMMA UserWrites ==
  ASSUME ReconcileInv, NEW v \in Volumes, UserCreate(v) \/ UserEdit(v) \/ UserDelete(v)
  PROVE  LawfulWrite(v) /\ \A w \in Volumes \ {v} : vol'[w] = vol[w]
<1>0. TypeOK /\ vol[v] \in VolumeObjects
  BY DEF ReconcileInv, TypeOK
<1>1. CASE UserCreate(v)
  <2>1. vol[v].st = "gone"
    BY <1>1 DEF UserCreate
  <2>2. \A w \in Volumes \ {v} : vol'[w] = vol[w]
    BY <1>0, <1>1 DEF UserCreate, Write, TypeOK
  <2>3. QED
    BY <2>1, <2>2 DEF LawfulWrite
<1>2. CASE UserEdit(v)
  BY <1>0, <1>2, WriteLawful DEF UserEdit
<1>3. CASE UserDelete(v)
  <2> DEFINE obj == [vol[v] EXCEPT !.st = IF vol[v].fin THEN "deleting" ELSE "gone"]
  <2>1. obj \in VolumeObjects
    BY <1>0, EditTypes
  <2>2. obj.fin = vol[v].fin /\ obj.ref = vol[v].ref
    BY <1>0 DEF VolumeObjects
  <2> HIDE DEF obj
  <2>3. Write(v, obj)
    BY <1>3 DEF UserDelete, obj
  <2>4. QED
    BY <1>0, <2>1, <2>2, <2>3, WriteLawful
<1>4. QED
  BY <1>1, <1>2, <1>3

\* Every step writes lawfully, or leaves a volume alone.
LEMMA NextWrites ==
  ASSUME ReconcileInv, [Next]_vars, NEW v \in Volumes
  PROVE  vol'[v] = vol[v] \/ LawfulWrite(v)
<1>1. CASE \E w \in Volumes : Worker(w)
  BY <1>1, WorkerWrites
<1>2. CASE Users
  BY <1>2, UserWrites DEF Users
<1>3. CASE Informers \/ Cluster \/ Crash \/ UNCHANGED vars
  BY <1>3 DEF Informers, Deliver, DeliverKid, Cluster, BecomeReady, BecomeUnready,
              GarbageCollect, Crash, vars, apiVars
<1>4. QED
  BY <1>1, <1>2, <1>3 DEF Next

\* A stored referenceValue is never replaced, whatever copy the update was made from
\* (GenerateAndCreateNfsServer, ReconcileNfsServerComplete).
THEOREM RefNeverReplaced == Spec => RefStable
<1>1. ReconcileInv /\ [Next]_vars =>
        [\A v \in Volumes : vol[v].ref # NoRef /\ vol'[v].st # "gone" /\ vol[v].st # "gone"
           => vol'[v].ref = vol[v].ref]_vars
  BY NextWrites DEF LawfulWrite
<1>2. QED
  BY <1>1, ReconcileInvariant, PTL DEF Spec, RefStable

\* Only an object that is being deleted loses its finalizer (RemoveFinalizerWithRetry),
\* also when the name was used again before the release.
THEOREM OnlyDeletedReleased == Spec => FinalizerKept
<1>1. ReconcileInv /\ [Next]_vars =>
        [\A v \in Volumes : vol[v].fin /\ ~vol'[v].fin => vol[v].st = "deleting"]_vars
  <2> SUFFICES ASSUME ReconcileInv, [Next]_vars, NEW v \in Volumes, vol[v].fin, ~vol'[v].fin
               PROVE  vol[v].st = "deleting"
    OBVIOUS
  <2>1. vol[v].st # "gone"
    BY DEF ReconcileInv, StoreInv, FinalizerHeld
  <2>2. QED
    BY <2>1, NextWrites DEF LawfulWrite
<1>2. QED
  BY <1>1, ReconcileInvariant, PTL DEF Spec, FinalizerKept

---------------------------------------------------------------------------
\* Steps that write a child

\* Which steps change children at all: creation and cleanup by the reconcile, readiness
\* and garbage collection by the cluster.
LEMMA KidWriters ==
  ASSUME [Next]_vars, kids' # kids
  PROVE  \/ \E v \in Volumes : CreateNfsServer(v)
         \/ \E v \in Volumes : \E kind \in Kinds \ {"nfs"} : EnsureKid(v, kind)
         \/ \E v \in Volumes : \E step \in CleanupSteps : CleanupKid(v, step)
         \/ Cluster
<1>1. ASSUME NEW v \in Volumes, Worker(v)
      PROVE  \/ CreateNfsServer(v) \/ \E kind \in Kinds \ {"nfs"} : EnsureKid(v, kind)
             \/ \E step \in CleanupSteps : CleanupKid(v, step)
  <2>1. CASE \/ Fetch(v) \/ EnsureFinalizer(v) \/ GenerateNfsServer(v)
             \/ CheckNfsServer(v) \/ AssignRef(v) \/ UpdateSync(v)
    BY <2>1 DEF Fetch, EnsureFinalizer, GenerateNfsServer, CheckNfsServer, AssignRef,
                      UpdateSync, kidVars
  <2>2. CASE \/ CheckNfs(v) \/ CheckPvc(v) \/ CheckRs(v) \/ GetForStatus(v)
             \/ WriteStatus(v) \/ Callback(v) \/ StopSync(v) \/ GetForRelease(v)
             \/ WriteRelease(v)
    BY <2>2 DEF CheckNfs, CheckPvc, CheckRs, Check, GetForStatus, WriteStatus,
                      Callback, StopSync, GetForRelease, WriteRelease, kidVars
  <2>3. QED
    BY <1>1, <2>1, <2>2 DEF Worker
<1>2. ~(Informers \/ Users \/ Crash \/ UNCHANGED vars)
  BY DEF Informers, Deliver, DeliverKid, Users, UserCreate, UserEdit, UserDelete,
              Crash, vars, kidVars
<1>3. QED
  BY <1>1, <1>2 DEF Next

\* Only CreateNfsServer and EnsureKid create a child.
LEMMA CreatedBy ==
  ASSUME ReconcileInv, [Next]_vars, NEW id \in Ids, ~Exists(kids[id]), Exists(kids'[id])
  PROVE  \E v \in Volumes, kind \in Kinds :
           /\ pc[v] \in Creating /\ id = <<kind, mem[v].ref>> /\ kids'[id] = NewKid(v, kind)
<1>0. TypeOK
  BY DEF ReconcileInv
<1>1. kids' # kids
  OBVIOUS
<1>2. CASE \E v \in Volumes : CreateNfsServer(v)
  <2>1. PICK v \in Volumes :
          pc[v] = "createNfs" /\ WriteKid(<<"nfs", mem[v].ref>>, NewKid(v, "nfs"), v, TRUE)
    BY <1>1, <1>2 DEF CreateNfsServer, CreateError, kidVars
  <2>2. pc[v] \in Creating /\ "nfs" \in Kinds
    BY <2>1 DEF Creating, Kinds
  <2>3. kids' = [kids EXCEPT ![<<"nfs", mem[v].ref>>] = NewKid(v, "nfs")]
    BY <2>1 DEF WriteKid
  <2>4. id = <<"nfs", mem[v].ref>> /\ kids'[id] = NewKid(v, "nfs")
    BY <1>0, <2>3 DEF TypeOK
  <2>5. QED
    BY <2>2, <2>4
<1>3. CASE \E v \in Volumes : \E kind \in Kinds \ {"nfs"} : EnsureKid(v, kind)
  <2>1. PICK v \in Volumes, kind \in Kinds \ {"nfs"} :
          pc[v] = kind /\ WriteKid(<<kind, mem[v].ref>>, NewKid(v, kind), v, FALSE)
    BY <1>1, <1>3 DEF EnsureKid, CreateError, kidVars
  <2>2. pc[v] \in Creating
    BY <2>1 DEF Creating, Kinds
  <2>3. kids' = [kids EXCEPT ![<<kind, mem[v].ref>>] = NewKid(v, kind)]
    BY <2>1 DEF WriteKid
  <2>4. id = <<kind, mem[v].ref>> /\ kids'[id] = NewKid(v, kind)
    BY <1>0, <2>3 DEF TypeOK
  <2>5. QED
    BY <2>2, <2>4
<1>4. CASE \E v \in Volumes : \E step \in CleanupSteps : CleanupKid(v, step)
  <2>1. PICK i : kids' = [kids EXCEPT ![i] = NoKid]
    BY <1>1, <1>4 DEF CleanupKid, WriteKid, kidVars
  <2>2. kids'[id] \in {kids[id], NoKid}
    BY <1>0, <2>1 DEF TypeOK
  <2>3. QED
    BY <2>2 DEF Exists, NoKid
<1>5. CASE Cluster
  <2>1. PICK i \in Ids : Exists(kids[i]) /\ \E kid : kids' = [kids EXCEPT ![i] = kid]
    BY <1>5 DEF Cluster, BecomeReady, BecomeUnready, GarbageCollect, WriteKid, Exists
  <2>2. PICK kid : kids' = [kids EXCEPT ![i] = kid]
    BY <2>1
  <2>3. id = i
    BY <1>0, <2>2 DEF TypeOK
  <2>4. QED
    BY <2>1, <2>3
<1>6. \/ \E v \in Volumes : CreateNfsServer(v)
      \/ \E v \in Volumes : \E kind \in Kinds \ {"nfs"} : EnsureKid(v, kind)
      \/ \E v \in Volumes : \E step \in CleanupSteps : CleanupKid(v, step)
      \/ Cluster
  BY <1>1, KidWriters
<1>7. QED
  BY <1>2, <1>3, <1>4, <1>5, <1>6

\* Only cleanup and the garbage collector delete one.
LEMMA DeletedBy ==
  ASSUME ReconcileInv, [Next]_vars, NEW id \in Ids, Exists(kids[id]), ~Exists(kids'[id])
  PROVE  \/ \E v \in Volumes : pc[v] \in Deleting /\ id[2] = mem[v].ref
         \/ Orphaned(kids[id])
<1>0. TypeOK
  BY DEF ReconcileInv
<1>1. kids' # kids
  OBVIOUS
<1>2. ASSUME NEW v \in Volumes, NEW step \in CleanupSteps, CleanupKid(v, step)
      PROVE  pc[v] \in Deleting /\ id[2] = mem[v].ref
  <2>1. kids' = [kids EXCEPT ![<<step[2], mem[v].ref>>] = NoKid]
    BY <1>1, <1>2 DEF CleanupKid, WriteKid, kidVars
  <2>2. id = <<step[2], mem[v].ref>>
    BY <1>0, <2>1 DEF TypeOK
  <2>3. pc[v] \in Deleting
    BY <1>2 DEF CleanupKid, CleanupSteps, Deleting
  <2>4. QED
    BY <2>2, <2>3
<1>3. ASSUME NEW i \in Ids, GarbageCollect(i)
      PROVE  Orphaned(kids[id])
  <2>1. kids' = [kids EXCEPT ![i] = NoKid] /\ Orphaned(kids[i])
    BY <1>3 DEF GarbageCollect, WriteKid
  <2>2. id = i
    BY <1>0, <2>1 DEF TypeOK
  <2>3. QED
    BY <2>1, <2>2
<1>4. ASSUME NEW i \in Ids, NEW kid \in KidObjects, kids' = [kids EXCEPT ![i] = kid],
             Exists(kid)
      PROVE  FALSE
  BY <1>0, <1>4 DEF TypeOK
<1>5. ASSUME NEW i \in Ids, BecomeReady(i) \/ BecomeUnready(i)
      PROVE  FALSE
  <2>1. kids[i] \in KidObjects
    BY <1>0 DEF TypeOK
  <2>2. \A st \in KidStates \ {"absent"} :
          [kids[i] EXCEPT !.st = st] \in KidObjects /\ Exists([kids[i] EXCEPT !.st = st])
    BY <2>1 DEF KidObjects, Exists
  <2>3. QED
    BY <1>4, <1>5, <2>2 DEF BecomeReady, BecomeUnready, WriteKid, KidStates
<1>6. ASSUME NEW v \in Volumes, CreateNfsServer(v)
      PROVE  FALSE
  <2>1. WriteKid(<<"nfs", mem[v].ref>>, NewKid(v, "nfs"), v, TRUE)
    BY <1>1, <1>6 DEF CreateNfsServer, CreateError, kidVars
  <2>2. Exists(NewKid(v, "nfs"))
    BY DEF Exists, NewKid
  <2>3. QED
    BY <1>0, <2>1, <2>2 DEF WriteKid, TypeOK
<1>7. ASSUME NEW v \in Volumes, NEW kind \in Kinds \ {"nfs"}, EnsureKid(v, kind)
      PROVE  FALSE
  <2>1. WriteKid(<<kind, mem[v].ref>>, NewKid(v, kind), v, FALSE)
    BY <1>1, <1>7 DEF EnsureKid, CreateError, kidVars
  <2>2. Exists(NewKid(v, kind))
    BY DEF Exists, NewKid
  <2>3. QED
    BY <1>0, <2>1, <2>2 DEF WriteKid, TypeOK
<1>8. \/ \E v \in Volumes : CreateNfsServer(v)
      \/ \E v \in Volumes : \E kind \in Kinds \ {"nfs"} : EnsureKid(v, kind)
      \/ \E v \in Volumes : \E step \in CleanupSteps : CleanupKid(v, step)
      \/ Cluster
  BY <1>1, KidWriters
<1>9. QED
  BY <1>2, <1>3, <1>5, <1>6, <1>7, <1>8 DEF Cluster

\* Whoever a child is created for exists, with its finalizer and the child's value stored.
LEMMA CreationLawful ==
  ASSUME ReconcileInv, [Next]_vars, NEW id \in Ids, ~Exists(kids[id]), Exists(kids'[id])
  PROVE  /\ kids'[id].vol \in Volumes /\ OwnerPresent(kids'[id])
         /\ vol[kids'[id].vol].fin /\ vol[kids'[id].vol].ref = id[2]
<1>1. PICK v \in Volumes, kind \in Kinds :
        pc[v] \in Creating /\ id = <<kind, mem[v].ref>> /\ kids'[id] = NewKid(v, kind)
  BY CreatedBy
<1>2. /\ mem[v].fin /\ Standing(v, mem[v]) /\ mem[v].ref # NoRef
      /\ Follows(vol[v], mem[v])
  BY <1>1 DEF ReconcileInv, ReconcileKnows, CopyOf, Working, Creating
<1>3. kids'[id].vol = v /\ kids'[id].uid = mem[v].uid
  BY <1>1 DEF NewKid
<1>4. QED
  BY <1>1, <1>2, <1>3 DEF OwnerPresent, Standing, Follows

\* A child that goes belongs to an object that is gone or being deleted.
LEMMA DeletionLawful ==
  ASSUME ReconcileInv, [Next]_vars, NEW id \in Ids, Exists(kids[id]), ~Exists(kids'[id]),
         OwnerPresent(kids[id])
  PROVE  vol[kids[id].vol].st # "live"
<1> SUFFICES ASSUME vol[kids[id].vol].st = "live" PROVE FALSE
  OBVIOUS
<1> DEFINE u == kids[id].vol
<1>0. TypeOK /\ KidsOwned /\ KidsFindable
  BY DEF ReconcileInv
<1>1. u \in Volumes /\ vol[u].fin /\ vol[u].ref = id[2] /\ id[2] # NoRef
  BY <1>0, ConstantsAssumption DEF KidsOwned, KidsFindable, Ids
<1>2. ~Orphaned(kids[id])
  BY DEF Orphaned, OwnerPresent
<1>3. PICK v \in Volumes : pc[v] \in Deleting /\ id[2] = mem[v].ref
  BY <1>2, DeletedBy
<1>4. claim[id[2]] = u
  BY <1>1 DEF ReconcileInv, StoreInv, RefsClaimed, ClaimedBy
<1>5. /\ CopyOf(v, mem[v]) /\ mem[v].st = "deleting"
      /\ vol[v].fin => vol[v].uid = mem[v].uid
  BY <1>3 DEF ReconcileInv, ReconcileKnows, Deleting, Cleaning
<1>6. u = v
  BY <1>1, <1>3, <1>4, <1>5 DEF CopyOf, ClaimedBy
<1>7. QED
  BY <1>1, <1>5, <1>6 DEF CopyOf, Follows

\* A child is created only for a volume that exists, with its finalizer and with the
\* child's reference value stored (CreateAndOwnNfsServer, ReconcileRequiredResources),
\* however old the copy it is created from.
THEOREM CreationNeverOrphans == Spec => NoOrphanCreation
<1>1. ReconcileInv /\ [Next]_vars =>
        [\A id \in Ids : ~Exists(kids[id]) /\ Exists(kids'[id]) =>
           /\ OwnerPresent(kids'[id])
           /\ vol[kids'[id].vol].fin /\ vol[kids'[id].vol].ref = id[2]]_vars
  BY CreationLawful
<1>2. QED
  BY <1>1, ReconcileInvariant, PTL DEF Spec, NoOrphanCreation

\* No step deletes a child of a volume that is not being deleted: cleanup run from a copy
\* of a deleted volume spares those of a volume created anew under its name
\* (CleanupResourcesInNamespace).
THEOREM LiveVolumesKeepKids == Spec => LiveKidsKept
<1>1. ReconcileInv /\ [Next]_vars =>
        [\A id \in Ids : Exists(kids[id]) /\ ~Exists(kids'[id]) =>
           ~(OwnerPresent(kids[id]) /\ vol[kids[id].vol].st = "live")]_vars
  BY DeletionLawful
<1>2. QED
  BY <1>1, ReconcileInvariant, PTL DEF Spec, LiveKidsKept

---------------------------------------------------------------------------
\* No wake-up is lost

\* A step of others: they may enqueue w, and touch nothing else of it.
Alone(w) ==
  /\ vol'[w] = vol[w] /\ watch'[w] = watch[w] /\ cache'[w] = cache[w]
  /\ pc'[w] = pc[w] /\ mem'[w] = mem[w] /\ want'[w] = want[w] /\ armed'[w] = armed[w]
  /\ queued[w] => queued'[w]

\* What only enqueues a volume does not lose it.
LEMMA AloneAttended ==
  ASSUME NEW w \in Volumes, Attended(w), Alone(w)
  PROVE  Attended(w)'
<1>1. (Settled(w) \/ queued[w] \/ pc[w] # "idle" \/ vol[w] \in watch[w])'
  BY DEF Attended, Alone, Settled
<1>2. Reaches(w)' /\ UpToDate(w)' /\ (vol'[w].st = "deleting" => vol'[w].fin)
  BY DEF Attended, Alone, Reaches, UpToDate
<1>3. OrderKnown(w)'
  BY DEF Attended, Alone, OrderKnown
<1> QED
  BY <1>1, <1>2, <1>3 DEF Attended

\* What a step of the worker for v may change of the others: their place in the queue.
OthersAlone(v) == \A w \in Volumes \ {v} : Alone(w)

\* The end of a reconcile drops the copies that it alone held.
LEMMA ForgetOthers ==
  ASSUME TypeOK, NEW v \in Volumes, Forget(v)
  PROVE  /\ pc'[v] = "idle"
         /\ \A w \in Volumes \ {v} : pc'[w] = pc[w] /\ mem'[w] = mem[w] /\ want'[w] = want[w]
<1>1. want \in [Volumes -> Phases]
  BY DEF TypeOK
<1>2. \E phase : want' = [want EXCEPT ![v] = phase]
  BY Zenon DEF Forget
<1>3. \A w \in Volumes \ {v} : want'[w] = want[w]
  BY <1>1, <1>2
<1> QED
  BY <1>3, ForgetMoves

\* A write of a volume is on its way to its informer, and is not of any other volume.
LEMMA WriteOthers ==
  ASSUME TypeOK, NEW v \in Volumes, NEW obj, Write(v, obj)
  PROVE  /\ vol'[v] = Versioned(v, obj) /\ vol'[v] \in watch'[v]
         /\ \A w \in Volumes \ {v} : vol'[w] = vol[w] /\ watch'[w] = watch[w]
  BY DEF TypeOK, Write

\* A write of a child takes nobody out of the workqueue.
LEMMA KidOthers ==
  ASSUME TypeOK, NEW id, NEW kid, NEW v, NEW requeue, WriteKid(id, kid, v, requeue)
  PROVE  \A w \in Volumes : queued[w] => queued'[w]
  BY DEF TypeOK, WriteKid

\* The same when it returns, enqueued again or not.
LEMMA ReturnOthers ==
  ASSUME TypeOK, NEW v \in Volumes, NEW requeue \in BOOLEAN, Return(v, requeue)
  PROVE  /\ pc'[v] = "idle" /\ (queued'[v] <=> queued[v] \/ requeue)
         /\ \A w \in Volumes \ {v} : /\ pc'[w] = pc[w] /\ mem'[w] = mem[w] /\ want'[w] = want[w]
                                     /\ queued'[w] = queued[w]
<1>1. Forget(v) /\ queued' = [queued EXCEPT ![v] = queued[v] \/ requeue]
  BY DEF Return
<1>2. (queued'[v] <=> queued[v] \/ requeue) /\ \A w \in Volumes \ {v} : queued'[w] = queued[w]
  BY <1>1 DEF TypeOK
<1> QED
  BY <1>1, <1>2, ForgetOthers

\* The step of v's reconcile leaves the other volumes, and the cache, alone.
OthersKept(v) ==
  /\ UNCHANGED cache
  /\ \A w \in Volumes \ {v} : vol'[w] = vol[w] /\ watch'[w] = watch[w] /\ armed'[w] = armed[w]

\* A step that writes no volume and gives no order is such a step.
LEMMA NothingKept ==
  ASSUME NEW v \in Volumes, UNCHANGED <<apiVars, cache, armed>>
  PROVE  OthersKept(v)
  BY DEF OthersKept, apiVars

\* A reconcile may return when it will be called again, when a newer version is on its
\* way, or when the volume is settled.
LEMMA ReturnAttended ==
  ASSUME TypeOK, NEW v \in Volumes, NEW requeue \in BOOLEAN, Return(v, requeue), OthersKept(v),
         requeue \/ queued[v] \/ vol'[v] \in watch'[v] \/ Settled(v)',
         Reaches(v)', vol'[v].st = "deleting" => vol'[v].fin, armed'[v] => vol'[v].fin
  PROVE  OthersAlone(v) /\ Attended(v)'
<1>1. /\ pc'[v] = "idle" /\ (queued'[v] <=> queued[v] \/ requeue)
      /\ \A w \in Volumes \ {v} : /\ pc'[w] = pc[w] /\ mem'[w] = mem[w] /\ want'[w] = want[w]
                                  /\ queued'[w] = queued[w]
  BY ReturnOthers
<1>2. OthersAlone(v)
  BY <1>1 DEF OthersKept, OthersAlone, Alone
<1>3. UpToDate(v)' /\ OrderKnown(v)'
  BY <1>1 DEF UpToDate, OrderKnown, Cleaning, Deleting
<1> QED
  BY <1>1, <1>2, <1>3 DEF Attended

\* The same for a reconcile that has written nothing, and given no order.
LEMMA AgainAttended ==
  ASSUME TypeOK, NEW v \in Volumes, Attended(v), Return(v, TRUE), UNCHANGED <<apiVars, cache, armed>>
  PROVE  OthersAlone(v) /\ Attended(v)'
<1>1. Reaches(v)' /\ (vol'[v].st = "deleting" => vol'[v].fin) /\ (armed'[v] => vol'[v].fin)
  BY DEF Attended, Reaches, OrderKnown, apiVars
<1> QED
  BY <1>1, NothingKept, ReturnAttended

\* A reconcile that goes on.
LEMMA GoesOnAttended ==
  ASSUME TypeOK, NEW v \in Volumes, NEW label, pc' = [pc EXCEPT ![v] = label], label # "idle",
         OthersKept(v), Reaches(v)', vol'[v].st = "deleting" => vol'[v].fin,
         \A w \in Volumes \ {v} : /\ queued[w] => queued'[w]
                                 /\ mem'[w] = mem[w] /\ want'[w] = want[w],
         ~queued'[v] => cache[v].rv <= mem'[v].rv,
         OrderKnown(v)'
  PROVE  OthersAlone(v) /\ Attended(v)'
<1>1. pc'[v] = label /\ \A w \in Volumes \ {v} : pc'[w] = pc[w]
  BY DEF TypeOK
<1>2. OthersAlone(v)
  BY <1>1 DEF OthersKept, OthersAlone, Alone
<1>3. UpToDate(v)'
  BY DEF UpToDate, OthersKept
<1> QED
  BY <1>1, <1>2, <1>3 DEF Attended

\* The same when it has only looked.
LEMMA LooksAttended ==
  ASSUME TypeOK, NEW v \in Volumes, Attended(v), NEW label, pc[v] # "idle",
         pc' = [pc EXCEPT ![v] = label], label # "idle",
         UNCHANGED <<apiVars, cache, armed, mem>>,
         \A w \in Volumes : queued[w] => queued'[w],
         \A w \in Volumes \ {v} : want'[w] = want[w],
         label \in Cleaning \ {"stopSync"} => ~armed[v],
         label \in {"checkNfs", "checkPvc", "checkRs"} /\ mem[v].phase = "Ready" =>
           (armed[v] <=> v \in Sourced),
         label # "callback"
  PROVE  OthersAlone(v) /\ Attended(v)'
<1>1. Reaches(v)' /\ (vol'[v].st = "deleting" => vol'[v].fin) /\ (armed'[v] => vol'[v].fin)
  BY DEF Attended, Reaches, OrderKnown, apiVars
<1>2. pc'[v] = label
  BY DEF TypeOK
<1>3. OrderKnown(v)'
  BY <1>1, <1>2 DEF OrderKnown
<1>4. ~queued'[v] => cache[v].rv <= mem'[v].rv
  BY DEF Attended, UpToDate
<1> QED
  BY <1>1, <1>3, <1>4, NothingKept, GoesOnAttended

\* A reconcile to which nothing is on its way works on the version stored.
LEMMA CopyCurrent ==
  ASSUME ReconcileInv, NEW v \in Volumes, Attended(v), pc[v] # "idle", ~queued[v],
         vol[v] \notin watch[v]
  PROVE  mem[v] = vol[v] /\ cache[v] = vol[v]
<1>1. cache[v] = vol[v] /\ cache[v].rv <= mem[v].rv
  BY DEF Attended, Reaches, UpToDate
<1>2. Follows(vol[v], mem[v])
  BY DEF ReconcileInv, ReconcileKnows, CopyOf
<1>3. mem[v].rv \in Nat /\ vol[v].rv \in Nat
  BY DEF ReconcileInv, TypeOK, VolumeObjects
<1> QED
  BY <1>1, <1>2, <1>3 DEF Follows

\* A reconcile that is past its finalizer works for an object that holds it.
LEMMA WorkingHeld ==
  ASSUME ReconcileInv, NEW v \in Volumes, pc[v] \in Working
  PROVE  vol[v].fin
  BY DEF ReconcileInv, ReconcileKnows, CopyOf, Standing, Follows, Working, Creating

\* A reconcile that begins, or finds the volume gone.
LEMMA FetchAttended ==
  ASSUME ReconcileInv, NEW v \in Volumes, Attended(v), Fetch(v)
  PROVE  OthersAlone(v) /\ Attended(v)'
<1>0. TypeOK /\ StoreInv(v)
  BY DEF ReconcileInv
<1>1. OthersKept(v)
  BY NothingKept DEF Fetch
<1>2. queued'[v] = FALSE /\ \A w \in Volumes \ {v} : queued'[w] = queued[w]
  BY <1>0 DEF Fetch, TypeOK
<1>3. CASE UNCHANGED workerVars /\ (cache[v].st = "gone" \/ (cache[v].st = "deleting" /\ ~cache[v].fin))
  <2>1. OthersAlone(v)
    BY <1>1, <1>2, <1>3 DEF OthersAlone, Alone, OthersKept, workerVars
  <2>2. pc'[v] = "idle" /\ vol'[v] = vol[v] /\ watch'[v] = watch[v] /\ armed'[v] = armed[v]
        /\ cache'[v] = cache[v]
    BY <1>3 DEF Fetch, apiVars, workerVars
  <2>3. Settled(v) \/ vol[v] \in watch[v]
    <3> SUFFICES ASSUME cache[v] = vol[v] PROVE Settled(v)
      BY DEF Attended, Reaches
    <3>1. vol[v].st = "gone"
      BY <1>3 DEF Attended
    <3>2. ~vol[v].fin
      BY <1>0, <3>1 DEF StoreInv, FinalizerHeld
    <3> QED
      BY <3>1, <3>2 DEF Attended, OrderKnown, Settled
  <2>4. Settled(v)' \/ vol'[v] \in watch'[v]
    BY <2>2, <2>3 DEF Settled
  <2>5. Reaches(v)' /\ UpToDate(v)' /\ OrderKnown(v)'
    BY <2>2 DEF Attended, Reaches, UpToDate, OrderKnown, Cleaning, Deleting
  <2> QED
    BY <2>1, <2>2, <2>4, <2>5 DEF Attended
<1>4. CASE \E label \in {"finalizer", "stopSync"} :
             Goto(v, label) /\ mem' = [mem EXCEPT ![v] = cache[v]]
  <2>1. PICK label \in {"finalizer", "stopSync"} :
          Goto(v, label) /\ mem' = [mem EXCEPT ![v] = cache[v]]
    BY <1>4
  <2>2. pc' = [pc EXCEPT ![v] = label] /\ pc'[v] = label /\ want' = want
    BY <1>0, <2>1 DEF Goto, TypeOK
  <2>3. mem'[v] = cache[v] /\ \A w \in Volumes \ {v} : mem'[w] = mem[w]
    BY <1>0, <2>1 DEF TypeOK
  <2>4. Reaches(v)' /\ (vol'[v].st = "deleting" => vol'[v].fin) /\ (armed'[v] => vol'[v].fin)
    BY DEF Attended, Reaches, OrderKnown, apiVars, Fetch
  <2>5. OrderKnown(v)'
    BY <2>2, <2>4 DEF OrderKnown, Cleaning, Deleting
  <2>6. cache[v].rv <= mem'[v].rv
    BY <1>0, <2>3 DEF TypeOK, VolumeObjects
  <2> QED
    BY <1>0, <1>1, <1>2, <2>2, <2>3, <2>4, <2>5, <2>6, GoesOnAttended
<1> QED
  BY <1>3, <1>4 DEF Fetch

\* An r.Update that is stored is on its way back to the cache.
LEMMA UpdateAttended ==
  ASSUME ReconcileInv, NEW v \in Volumes, Attended(v), NEW obj \in VolumeObjects,
         NEW label \in {"nfs", "createNfs"}, Update(v, obj, label),
         pc[v] # "idle", obj.st = "live", obj.fin, UNCHANGED <<cache, armed, queued>>
  PROVE  OthersAlone(v) /\ Attended(v)'
<1>0. TypeOK
  BY DEF ReconcileInv
<1>1. Write(v, obj) /\ mem' = [mem EXCEPT ![v] = Versioned(v, obj)] /\ Goto(v, label)
  BY DEF Update
<1>2. /\ vol'[v] = Versioned(v, obj) /\ vol'[v] \in watch'[v]
      /\ \A w \in Volumes \ {v} : vol'[w] = vol[w] /\ watch'[w] = watch[w]
  BY <1>0, <1>1, WriteOthers
<1>3. mem'[v] = vol'[v] /\ \A w \in Volumes \ {v} : mem'[w] = mem[w]
  BY <1>0, <1>1, <1>2 DEF TypeOK
<1>4. vol'[v].st = "live" /\ vol'[v].fin /\ vol'[v].rv = vol[v].rv + 1
  BY <1>2 DEF Versioned, VolumeObjects
<1>5. cache[v].rv <= mem'[v].rv
  <2>1. cache[v].rv <= vol[v].rv
    BY DEF ReconcileInv, StoreInv, VersionsFollow, Follows
  <2>2. cache[v].rv \in Nat /\ vol[v].rv \in Nat
    BY <1>0 DEF TypeOK, VolumeObjects
  <2> QED
    BY <1>3, <1>4, <2>1, <2>2
<1>6. pc' = [pc EXCEPT ![v] = label] /\ pc'[v] = label /\ want' = want
  BY <1>0, <1>1 DEF Goto, TypeOK
<1>7. OthersKept(v)
  BY <1>2 DEF OthersKept
<1>8. Reaches(v)' /\ OrderKnown(v)'
  BY <1>2, <1>4, <1>6 DEF Reaches, OrderKnown, Cleaning, Deleting
<1> QED
  BY <1>0, <1>2, <1>3, <1>4, <1>5, <1>6, <1>7, <1>8, GoesOnAttended

\* An error of r.Update is retried.
LEMMA UpdateErrorAttended ==
  ASSUME TypeOK, NEW v \in Volumes, Attended(v), UpdateError(v), UNCHANGED <<cache, armed>>
  PROVE  OthersAlone(v) /\ Attended(v)'
<1>1. Return(v, TRUE) /\ UNCHANGED <<apiVars, cache, armed>>
  BY DEF UpdateError
<1> QED
  BY <1>1, AgainAttended

\* ensureFinalizer.
LEMMA EnsureFinalizerAttended ==
  ASSUME ReconcileInv, NEW v \in Volumes, Attended(v), EnsureFinalizer(v)
  PROVE  OthersAlone(v) /\ Attended(v)'
<1>0. TypeOK /\ ReconcileKnows(v) /\ mem[v] \in VolumeObjects
  BY DEF ReconcileInv, TypeOK
<1>9. mem[v] \in VolumeObjects
  BY <1>0
<1>1. pc[v] = "finalizer" /\ UNCHANGED <<cache, armed>>
  BY DEF EnsureFinalizer
<1>2. CASE Goto(v, "nfs") /\ UNCHANGED <<apiVars, mem, queued, claim, boundVars>>
  BY <1>0, <1>1, <1>2, LooksAttended DEF Goto, Cleaning, Deleting
<1>3. CASE /\ Update(v, [mem[v] EXCEPT !.fin = TRUE], "nfs")
           /\ UNCHANGED <<queued, claim, boundVars>>
  <2> DEFINE obj == [mem[v] EXCEPT !.fin = TRUE]
  <2>1. obj \in VolumeObjects
    BY <1>9, Zenon, EditTypes
  <2>2. obj.st = "live" /\ obj.fin
    BY <1>0, <1>1 DEF ReconcileKnows, VolumeObjects
  <2> HIDE DEF obj
  <2>3. Update(v, obj, "nfs")
    BY <1>3 DEF obj
  <2> QED
    BY <1>1, <1>3, <2>1, <2>2, <2>3, UpdateAttended
<1>4. CASE UpdateError(v)
  BY <1>0, <1>1, <1>4, UpdateErrorAttended
<1> QED
  BY <1>2, <1>3, <1>4 DEF EnsureFinalizer

\* The first write of GenerateAndCreateNfsServer.
LEMMA GenerateNfsServerAttended ==
  ASSUME ReconcileInv, NEW v \in Volumes, Attended(v), GenerateNfsServer(v)
  PROVE  OthersAlone(v) /\ Attended(v)'
<1>0. TypeOK /\ ReconcileKnows(v) /\ mem[v] \in VolumeObjects
  BY DEF ReconcileInv, TypeOK
<1>9. mem[v] \in VolumeObjects
  BY <1>0
<1>1. pc[v] = "nfs" /\ UNCHANGED <<cache, armed>>
  BY Zenon DEF GenerateNfsServer
<1>2. ASSUME NEW r \in RefChoices(v),
             Update(v, [mem[v] EXCEPT !.ref = r, !.nfs = "managed"], "createNfs"),
             UNCHANGED queued
      PROVE  OthersAlone(v) /\ Attended(v)'
  <2> DEFINE obj == [mem[v] EXCEPT !.ref = r, !.nfs = "managed"]
  <2>1. r \in Refs
    BY <1>0 DEF RefChoices, FreshRefs, VolumeObjects
  <2>2. obj \in VolumeObjects
    BY <1>9, <2>1, Zenon, EditTypes
  <2>3. obj.st = "live" /\ obj.fin
    BY <1>0, <1>1 DEF ReconcileKnows, Working, VolumeObjects
  <2> HIDE DEF obj
  <2>4. Update(v, obj, "createNfs")
    BY <1>2 DEF obj
  <2> QED
    BY <1>1, <1>2, <2>2, <2>3, <2>4, UpdateAttended
<1>3. CASE UpdateError(v)
  BY <1>0, <1>1, <1>3, UpdateErrorAttended
<1> QED
  BY Zenon, <1>2, <1>3 DEF GenerateNfsServer

\* A failed Create is retried.
LEMMA CreateErrorAttended ==
  ASSUME TypeOK, NEW v \in Volumes, Attended(v), NEW id, CreateError(v, id),
         UNCHANGED <<apiVars, cache, armed>>
  PROVE  OthersAlone(v) /\ Attended(v)'
<1>1. Return(v, TRUE)
  BY DEF CreateError
<1> QED
  BY <1>1, AgainAttended

\* CreateAndOwnNfsServer is followed by a requeue.
LEMMA CreateNfsServerAttended ==
  ASSUME ReconcileInv, NEW v \in Volumes, Attended(v), CreateNfsServer(v)
  PROVE  OthersAlone(v) /\ Attended(v)'
<1> DEFINE id == <<"nfs", mem[v].ref>>
<1>0. TypeOK /\ UNCHANGED <<apiVars, cache, armed>>
  BY DEF ReconcileInv, CreateNfsServer
<1>1. CASE Return(v, TRUE)
  BY <1>0, <1>1, AgainAttended
<1>2. CASE WriteKid(id, NewKid(v, "nfs"), v, TRUE) /\ Forget(v)
  <2>1. queued' = [queued EXCEPT ![v] = queued[v] \/ TRUE]
    BY <1>2 DEF WriteKid
  <2> QED
    BY <1>0, <1>2, <2>1, AgainAttended DEF Return
<1>3. CASE CreateError(v, id)
  BY <1>0, <1>3, CreateErrorAttended
<1> QED
  BY <1>1, <1>2, <1>3 DEF CreateNfsServer

\* ReconcileNfsServer waits for its server in the workqueue.
LEMMA CheckNfsServerAttended ==
  ASSUME ReconcileInv, NEW v \in Volumes, Attended(v), CheckNfsServer(v)
  PROVE  OthersAlone(v) /\ Attended(v)'
<1>0. TypeOK /\ pc[v] = "nfs" /\ UNCHANGED <<apiVars, cache, armed>>
  BY DEF ReconcileInv, CheckNfsServer
<1>1. CASE NfsReady(v)
  <2>1. PICK label \in {"assignRef", "pv"} : Goto(v, label) /\ UNCHANGED <<mem, queued>>
    BY <1>1 DEF CheckNfsServer
  <2> QED
    BY <1>0, <2>1, LooksAttended DEF Goto, Cleaning, Deleting
<1>2. CASE Return(v, TRUE)
  BY <1>0, <1>2, AgainAttended
<1> QED
  BY <1>1, <1>2 DEF CheckNfsServer

\* The reference value of a volume on an external server.
LEMMA AssignRefAttended ==
  ASSUME ReconcileInv, NEW v \in Volumes, Attended(v), AssignRef(v)
  PROVE  OthersAlone(v) /\ Attended(v)'
<1>0. TypeOK /\ ReconcileKnows(v) /\ mem[v] \in VolumeObjects
  BY DEF ReconcileInv, TypeOK
<1>9. mem[v] \in VolumeObjects
  BY <1>0
<1>1. pc[v] \in Working /\ UNCHANGED <<cache, armed>>
  BY DEF AssignRef, Working
<1>2. ASSUME NEW r \in FreshRefs, Write(v, [mem[v] EXCEPT !.ref = r]), Return(v, TRUE)
      PROVE  OthersAlone(v) /\ Attended(v)'
  <2> DEFINE obj == [mem[v] EXCEPT !.ref = r]
  <2>1. obj \in VolumeObjects
    BY <1>9, Zenon, EditTypes DEF FreshRefs
  <2>2. obj.st = "live" /\ obj.fin
    BY <1>0, <1>1 DEF ReconcileKnows, VolumeObjects
  <2> HIDE DEF obj
  <2>3. Write(v, obj)
    BY <1>2 DEF obj
  <2>4. /\ vol'[v] = Versioned(v, obj) /\ vol'[v] \in watch'[v]
        /\ \A w \in Volumes \ {v} : vol'[w] = vol[w] /\ watch'[w] = watch[w]
    BY <1>0, <2>3, WriteOthers
  <2>5. vol'[v].st = "live" /\ vol'[v].fin
    BY <2>1, <2>2, <2>4 DEF Versioned, VolumeObjects
  <2>6. OthersKept(v) /\ Reaches(v)'
    BY <1>1, <2>4 DEF OthersKept, Reaches
  <2> QED
    BY <1>0, <1>2, <2>5, <2>6, ReturnAttended
<1>3. CASE UpdateError(v)
  BY <1>0, <1>1, <1>3, UpdateErrorAttended
<1> QED
  BY <1>2, <1>3 DEF AssignRef

\* ReconcileRequiredResources goes on from one child to the next.
LEMMA EnsureKidAttended ==
  ASSUME ReconcileInv, NEW v \in Volumes, Attended(v), NEW kind \in Kinds \ {"nfs"},
         EnsureKid(v, kind)
  PROVE  OthersAlone(v) /\ Attended(v)'
<1> DEFINE id == <<kind, mem[v].ref>>
<1>0. TypeOK /\ pc[v] # "idle" /\ UNCHANGED <<apiVars, cache, armed>>
  BY DEF ReconcileInv, EnsureKid, Kinds
<1>1. NextLabel[kind] \in {"pvc", "rs", "svc", "sync"}
  BY DEF NextLabel, Kinds
<1>2. CASE /\ Goto(v, NextLabel[kind]) /\ UNCHANGED mem
           /\ UNCHANGED queued \/ WriteKid(id, NewKid(v, kind), v, FALSE)
  <2>1. \A w \in Volumes : queued[w] => queued'[w]
    BY <1>0, <1>2, KidOthers
  <2>2. pc' = [pc EXCEPT ![v] = NextLabel[kind]] /\ want' = want
    BY <1>2 DEF Goto
  <2> QED
    BY <1>0, <1>1, <1>2, <2>1, <2>2, LooksAttended DEF Cleaning, Deleting
<1>3. CASE CreateError(v, id)
  BY <1>0, <1>3, CreateErrorAttended
<1> QED
  BY <1>2, <1>3 DEF EnsureKid

\* StartSyncFor...: the order it gives is known to the readiness check that follows.
LEMMA UpdateSyncAttended ==
  ASSUME ReconcileInv, NEW v \in Volumes, Attended(v), UpdateSync(v)
  PROVE  OthersAlone(v) /\ Attended(v)'
<1>0. TypeOK /\ pc[v] \in Working /\ pc[v] # "idle"
  BY DEF ReconcileInv, UpdateSync, Working
<1>1. /\ UNCHANGED <<apiVars, cache, mem, queued>>
      /\ pc' = [pc EXCEPT ![v] = "checkNfs"] /\ want' = want
  BY DEF UpdateSync, Goto
<1>2. /\ armed'[v] = IF mem[v].phase = "Ready" THEN SyncOrder(v, "Ready") ELSE armed[v]
      /\ \A w \in Volumes \ {v} : armed'[w] = armed[w]
  BY <1>0 DEF UpdateSync, TypeOK
<1>3. OthersKept(v)
  BY <1>1, <1>2 DEF OthersKept, apiVars
<1>4. vol'[v] = vol[v] /\ vol[v].fin /\ pc'[v] = "checkNfs" /\ mem'[v] = mem[v]
  BY <1>0, <1>1, WorkingHeld DEF apiVars, TypeOK
<1>5. SyncOrder(v, "Ready") <=> v \in Sourced
  BY DEF SyncOrder
<1>6. OrderKnown(v)'
  BY <1>2, <1>4, <1>5 DEF OrderKnown, Cleaning, Deleting
<1>7. Reaches(v)' /\ (~queued'[v] => cache[v].rv <= mem'[v].rv)
  BY <1>0, <1>1 DEF Attended, Reaches, UpToDate, apiVars
<1> QED
  BY <1>0, <1>1, <1>3, <1>4, <1>6, <1>7, GoesOnAttended

\* A phase that is not the one recorded is to be written; if it is, the volume is left
\* alone only when it is Ready, and synchronised as it should be.
LEMMA SettleAttended ==
  ASSUME ReconcileInv, NEW v \in Volumes, Attended(v), NEW phase \in Phases, Settle(v, phase),
         pc[v] \in {"checkNfs", "checkPvc", "checkRs"}, UNCHANGED <<apiVars, cache, armed>>
  PROVE  OthersAlone(v) /\ Attended(v)'
<1>0. TypeOK /\ pc[v] \in Working /\ pc[v] # "idle"
  BY DEF ReconcileInv, Working
<1>1. CASE mem[v].phase = phase /\ phase = "Ready"
  <2>1. Return(v, FALSE)
    BY <1>1 DEF Settle, Finish
  <2>2. Settled(v) \/ queued[v] \/ vol[v] \in watch[v]
    <3> SUFFICES ASSUME ~queued[v], vol[v] \notin watch[v] PROVE Settled(v)
      OBVIOUS
    <3>1. mem[v] = vol[v]
      BY <1>0, CopyCurrent
    <3>2. mem[v].st = "live"
      BY <1>0 DEF ReconcileInv, ReconcileKnows
    <3>3. armed[v] <=> v \in Sourced
      BY <1>1 DEF Attended, OrderKnown
    <3> QED
      BY <1>1, <3>1, <3>2, <3>3 DEF Settled
  <2>3. queued[v] \/ vol'[v] \in watch'[v] \/ Settled(v)'
    BY <2>2 DEF Settled, apiVars
  <2>4. Reaches(v)' /\ (vol'[v].st = "deleting" => vol'[v].fin) /\ (armed'[v] => vol'[v].fin)
    BY DEF Attended, Reaches, OrderKnown, apiVars
  <2> QED
    BY <1>0, <2>1, <2>3, <2>4, NothingKept, ReturnAttended
<1>2. CASE mem[v].phase = phase /\ phase # "Ready"
  <2>1. Return(v, TRUE)
    BY <1>2 DEF Settle, Finish
  <2> QED
    BY <1>0, <2>1, AgainAttended
<1>3. CASE mem[v].phase # phase
  <2>1. /\ pc' = [pc EXCEPT ![v] = "status"] /\ want' = [want EXCEPT ![v] = phase]
        /\ UNCHANGED <<mem, queued>>
    BY <1>3 DEF Settle
  <2>2. \A w \in Volumes \ {v} : want'[w] = want[w]
    BY <1>0, <2>1 DEF TypeOK
  <2> QED
    BY <1>0, <2>1, <2>2, LooksAttended DEF Cleaning, Deleting
<1> QED
  BY <1>1, <1>2, <1>3

\* CheckResourceReadiness, one read after the other.
LEMMA CheckAttended ==
  ASSUME ReconcileInv, NEW v \in Volumes, Attended(v), NEW label \in {"checkNfs", "checkPvc"},
         NEW ready, NEW next \in {"checkPvc", "checkRs"}, NEW otherwise \in Phases,
         Check(v, label, ready, next, otherwise)
  PROVE  OthersAlone(v) /\ Attended(v)'
<1>0. TypeOK /\ pc[v] = label /\ pc[v] # "idle" /\ UNCHANGED <<apiVars, cache, armed>>
  BY DEF ReconcileInv, Check
<1>1. CASE ready
  <2>1. pc' = [pc EXCEPT ![v] = next] /\ want' = want /\ UNCHANGED <<mem, queued>>
    BY <1>1 DEF Check, Goto
  <2>2. mem[v].phase = "Ready" => (armed[v] <=> v \in Sourced)
    BY <1>0 DEF Attended, OrderKnown
  <2> QED
    BY <1>0, <2>1, <2>2, LooksAttended DEF Cleaning, Deleting
<1>2. CASE ~ready
  <2>1. Settle(v, otherwise)
    BY <1>2 DEF Check
  <2> QED
    BY <1>0, <2>1, SettleAttended
<1> QED
  BY <1>1, <1>2

\* The three of them.
LEMMA ChecksAttended ==
  ASSUME ReconcileInv, NEW v \in Volumes, Attended(v), CheckNfs(v) \/ CheckPvc(v) \/ CheckRs(v)
  PROVE  OthersAlone(v) /\ Attended(v)'
<1>0. "Pending" \in Phases /\ "Preparing" \in Phases /\ "Ready" \in Phases
  BY Zenon DEF Phases
<1>1. CASE CheckNfs(v)
  BY <1>0, <1>1, CheckAttended DEF CheckNfs
<1>2. CASE CheckPvc(v)
  BY <1>0, <1>2, CheckAttended DEF CheckPvc
<1>3. CASE CheckRs(v)
  <2>1. pc[v] = "checkRs" /\ UNCHANGED <<apiVars, cache, armed>>
    BY <1>3 DEF CheckRs
  <2>2. PICK phase \in Phases : Settle(v, phase)
    BY <1>0, <1>3 DEF CheckRs
  <2> QED
    BY <2>1, <2>2, SettleAttended
<1> QED
  BY <1>1, <1>2, <1>3

\* The read of UpdateStatusWithRetry.
LEMMA GetForStatusAttended ==
  ASSUME ReconcileInv, NEW v \in Volumes, Attended(v), GetForStatus(v)
  PROVE  OthersAlone(v) /\ Attended(v)'
<1>0. TypeOK /\ pc[v] = "status" /\ UNCHANGED <<apiVars, cache, armed>>
  BY DEF ReconcileInv, GetForStatus
<1>1. CASE Return(v, TRUE)
  BY <1>0, <1>1, AgainAttended
<1>2. CASE pc' = [pc EXCEPT ![v] = "writeStatus"] /\ UNCHANGED <<mem, want, queued>>
  BY <1>0, <1>2, LooksAttended DEF Cleaning, Deleting
<1> QED
  BY <1>1, <1>2 DEF GetForStatus

\* A conflict is retried at once or, past the limit, from the workqueue.
LEMMA RetryAttended ==
  ASSUME TypeOK, NEW v \in Volumes, Attended(v), NEW label \in {"status", "release"},
         Retry(v, label), pc[v] # "idle", label = "release" => ~armed[v],
         UNCHANGED <<apiVars, cache, armed>>
  PROVE  OthersAlone(v) /\ Attended(v)'
<1>1. CASE Return(v, TRUE)
  BY <1>1, AgainAttended
<1>2. CASE pc' = [pc EXCEPT ![v] = label] /\ UNCHANGED <<mem, want, queued>>
  BY <1>2, LooksAttended DEF Cleaning, Deleting
<1> QED
  BY <1>1, <1>2 DEF Retry

\* The status write: what it stores is on its way, or is stored already.
LEMMA WriteStatusAttended ==
  ASSUME ReconcileInv, NEW v \in Volumes, Attended(v), WriteStatus(v)
  PROVE  OthersAlone(v) /\ Attended(v)'
<1>0. /\ TypeOK /\ ReconcileKnows(v) /\ pc[v] = "writeStatus"
      /\ UNCHANGED <<cache, armed>>
  BY DEF ReconcileInv, WriteStatus
<1>1. latest[v] \in VolumeObjects /\ want[v] \in Phases
  BY <1>0 DEF TypeOK
<1>2. CASE /\ Current(v, latest[v])
           /\ latest[v].phase = want[v] /\ UNCHANGED apiVars
           /\ Goto(v, "callback") /\ UNCHANGED <<mem, queued>>
  <2>1. latest[v] = vol[v]
    BY <1>0, <1>1, <1>2, CurrentCopy DEF ReconcileKnows, Writing
  <2>2. /\ pc' = [pc EXCEPT ![v] = "callback"] /\ want' = want /\ pc'[v] = "callback"
        /\ vol'[v] = vol[v] /\ watch'[v] = watch[v]
    BY <1>0, <1>2 DEF Goto, TypeOK, apiVars
  <2>3. vol'[v].phase = want'[v]
    BY <1>2, <2>1, <2>2
  <2>4. Reaches(v)' /\ (vol'[v].st = "deleting" => vol'[v].fin) /\ (armed'[v] => vol'[v].fin)
    BY <1>0, <2>2 DEF Attended, Reaches, OrderKnown
  <2>5. OrderKnown(v)'
    BY <2>2, <2>3, <2>4 DEF OrderKnown, Cleaning, Deleting
  <2>6. ~queued'[v] => cache[v].rv <= mem'[v].rv
    BY <1>0, <1>2 DEF Attended, UpToDate
  <2> QED
    BY <1>0, <1>2, <2>2, <2>4, <2>5, <2>6, NothingKept, GoesOnAttended
<1>3. CASE /\ Current(v, latest[v])
           /\ Write(v, [latest[v] EXCEPT !.phase = want[v]])
           /\ Goto(v, "callback") /\ UNCHANGED <<mem, queued>>
  <2> DEFINE obj == [latest[v] EXCEPT !.phase = want[v]]
  <2>1. latest[v] = vol[v]
    BY <1>0, <1>1, <1>3, CurrentCopy DEF ReconcileKnows, Writing
  <2>2. obj \in VolumeObjects
    BY Zenon, <1>1, EditTypes
  <2>3. obj.st = vol[v].st /\ obj.fin = vol[v].fin
    BY <1>1, <2>1 DEF VolumeObjects
  <2> HIDE DEF obj
  <2>4. Write(v, obj)
    BY <1>3 DEF obj
  <2>5. /\ vol'[v] = Versioned(v, obj) /\ vol'[v] \in watch'[v]
        /\ \A w \in Volumes \ {v} : vol'[w] = vol[w] /\ watch'[w] = watch[w]
    BY <1>0, <2>4, WriteOthers
  <2>6. vol'[v].st = vol[v].st /\ vol'[v].fin = vol[v].fin
    BY <2>2, <2>3, <2>5 DEF Versioned, VolumeObjects
  <2>7. OthersKept(v) /\ Reaches(v)'
    BY <1>0, <2>5 DEF OthersKept, Reaches
  <2>8. (vol'[v].st = "deleting" => vol'[v].fin) /\ (armed'[v] => vol'[v].fin)
    BY <1>0, <2>6 DEF Attended, OrderKnown
  <2>9. pc' = [pc EXCEPT ![v] = "callback"] /\ want' = want /\ pc'[v] = "callback"
    BY <1>0, <1>3 DEF Goto, TypeOK
  <2>10. OrderKnown(v)'
    BY <2>5, <2>8, <2>9 DEF OrderKnown, Cleaning, Deleting
  <2>11. ~queued'[v] => cache[v].rv <= mem'[v].rv
    BY <1>0, <1>3 DEF Attended, UpToDate
  <2> QED
    BY <1>0, <1>3, <2>7, <2>8, <2>9, <2>10, <2>11, GoesOnAttended
<1>4. CASE Return(v, TRUE) /\ UNCHANGED apiVars
  BY <1>0, <1>4, AgainAttended
<1>5. CASE Retry(v, "status") /\ UNCHANGED apiVars
  BY <1>0, <1>5, RetryAttended
<1> QED
  BY <1>2, <1>3, <1>4, <1>5 DEF WriteStatus

\* The callback starts synchronisation only of a volume held, and the reconcile ends for
\* good only when what it wrote is what it read back, Ready.
LEMMA CallbackAttended ==
  ASSUME ReconcileInv, NEW v \in Volumes, Attended(v), Callback(v)
  PROVE  OthersAlone(v) /\ Attended(v)'
<1>0. /\ TypeOK /\ pc[v] = "callback" /\ pc[v] # "idle" /\ pc[v] \in Working
      /\ UNCHANGED <<apiVars, cache>>
  BY DEF ReconcileInv, Callback, Working
<1>1. CASE Return(v, TRUE) /\ UNCHANGED armed
  BY <1>0, <1>1, AgainAttended
<1>2. CASE /\ armed' = [armed EXCEPT ![v] =
                 want[v] = "Ready" /\ SyncOrder(v, cache[v].phase)]
           /\ Finish(v, cache[v].phase)
  <2>1. /\ armed'[v] <=> want[v] = "Ready" /\ SyncOrder(v, cache[v].phase)
        /\ \A w \in Volumes \ {v} : armed'[w] = armed[w]
    BY <1>0, <1>2 DEF TypeOK
  <2>2. OthersKept(v) /\ vol'[v] = vol[v] /\ watch'[v] = watch[v]
    BY <1>0, <2>1 DEF OthersKept, apiVars
  <2>3. PICK requeue \in BOOLEAN :
          Return(v, requeue) /\ (requeue <=> cache[v].phase # "Ready")
    BY <1>2 DEF Finish
  <2>4. Settled(v)' \/ requeue \/ queued[v] \/ vol'[v] \in watch'[v]
    <3> SUFFICES ASSUME cache[v].phase = "Ready", ~queued[v], vol[v] \notin watch[v]
                 PROVE  Settled(v)'
      BY <2>2, <2>3
    <3>1. mem[v] = vol[v] /\ cache[v] = vol[v]
      BY <1>0, CopyCurrent
    <3>2. vol[v].st = "live"
      BY <1>0, <3>1 DEF ReconcileInv, ReconcileKnows
    <3>3. want[v] = "Ready"
      BY <1>0, <3>1 DEF Attended, OrderKnown
    <3>4. armed'[v] <=> v \in Sourced
      BY <2>1, <3>3 DEF SyncOrder
    <3> QED
      BY <2>2, <3>1, <3>2, <3>4 DEF Settled
  <2>5. Reaches(v)' /\ (vol'[v].st = "deleting" => vol'[v].fin)
    BY <1>0, <2>2 DEF Attended, Reaches
  <2>6. vol'[v].fin
    BY <1>0, <2>2, WorkingHeld
  <2> QED
    BY <1>0, <2>2, <2>3, <2>4, <2>5, <2>6, ReturnAttended
<1> QED
  BY <1>1, <1>2 DEF Callback

\* Cleanup begins by stopping synchronisation.
LEMMA StopSyncAttended ==
  ASSUME ReconcileInv, NEW v \in Volumes, Attended(v), StopSync(v)
  PROVE  OthersAlone(v) /\ Attended(v)'
<1>0. TypeOK /\ pc[v] = "stopSync" /\ UNCHANGED <<apiVars, cache, queued, mem>>
  BY DEF ReconcileInv, StopSync
<1>1. PICK label \in {"release", "delRs"} : Goto(v, label)
  BY DEF StopSync
<1>2. armed'[v] = FALSE /\ \A w \in Volumes \ {v} : armed'[w] = armed[w]
  BY <1>0 DEF StopSync, TypeOK
<1>3. OthersKept(v) /\ vol'[v] = vol[v] /\ watch'[v] = watch[v]
  BY <1>0, <1>2 DEF OthersKept, apiVars
<1>4. pc' = [pc EXCEPT ![v] = label] /\ want' = want /\ pc'[v] = label
  BY <1>0, <1>1 DEF Goto, TypeOK
<1>5. OrderKnown(v)'
  BY <1>2, <1>4 DEF OrderKnown
<1>6. /\ Reaches(v)' /\ (vol'[v].st = "deleting" => vol'[v].fin)
      /\ ~queued'[v] => cache[v].rv <= mem'[v].rv
  BY <1>0, <1>3 DEF Attended, Reaches, UpToDate
<1> QED
  BY <1>0, <1>3, <1>4, <1>5, <1>6, GoesOnAttended

\* CleanupResourcesInNamespace goes on from one child to the next.
LEMMA CleanupKidAttended ==
  ASSUME ReconcileInv, NEW v \in Volumes, Attended(v), NEW step \in CleanupSteps,
         CleanupKid(v, step)
  PROVE  OthersAlone(v) /\ Attended(v)'
<1> DEFINE id == <<step[2], mem[v].ref>>
<1>0. TypeOK /\ UNCHANGED <<apiVars, cache, armed, mem>> /\ Goto(v, step[3])
  BY DEF ReconcileInv, CleanupKid
<1>1. pc[v] \in Deleting /\ step[3] \in Deleting \cup {"release"}
  BY DEF CleanupKid, CleanupSteps, Deleting
<1>2. pc[v] # "idle" /\ ~armed[v]
  BY <1>1 DEF Attended, OrderKnown, Cleaning, Deleting
<1>3. UNCHANGED queued \/ WriteKid(id, NoKid, kids[id].vol, FALSE)
  BY DEF CleanupKid
<1>4. \A w \in Volumes : queued[w] => queued'[w]
  BY <1>0, <1>3, KidOthers
<1>5. pc' = [pc EXCEPT ![v] = step[3]] /\ want' = want
  BY <1>0 DEF Goto
<1> QED
  BY <1>0, <1>1, <1>2, <1>4, <1>5, LooksAttended DEF Deleting

\* RemoveFinalizerWithRetry gives up in silence only when a newer version is on its way.
LEMMA GetForReleaseAttended ==
  ASSUME ReconcileInv, NEW v \in Volumes, Attended(v), GetForRelease(v)
  PROVE  OthersAlone(v) /\ Attended(v)'
<1>0. /\ TypeOK /\ pc[v] = "release" /\ pc[v] # "idle"
      /\ UNCHANGED <<apiVars, cache, armed>>
  BY DEF ReconcileInv, GetForRelease
<1>1. ~armed[v]
  BY <1>0 DEF Attended, OrderKnown, Cleaning, Deleting
<1>2. CASE (cache[v].st = "gone" \/ ~cache[v].fin) /\ Return(v, FALSE)
  <2>1. queued[v] \/ vol[v] \in watch[v]
    <3> SUFFICES ASSUME ~queued[v], vol[v] \notin watch[v] PROVE FALSE
      OBVIOUS
    <3>1. mem[v] = vol[v] /\ cache[v] = vol[v]
      BY <1>0, CopyCurrent
    <3>2. mem[v].st = "deleting" /\ mem[v].fin
      BY <1>0 DEF ReconcileInv, ReconcileKnows, Cleaning
    <3> QED
      BY <1>2, <3>1, <3>2
  <2>2. queued[v] \/ vol'[v] \in watch'[v]
    BY <1>0, <2>1 DEF apiVars
  <2>3. Reaches(v)' /\ (vol'[v].st = "deleting" => vol'[v].fin) /\ (armed'[v] => vol'[v].fin)
    BY <1>0 DEF Attended, Reaches, OrderKnown, apiVars
  <2> QED
    BY <1>0, <1>2, <2>2, <2>3, NothingKept, ReturnAttended
<1>3. CASE pc' = [pc EXCEPT ![v] = "writeRelease"] /\ UNCHANGED <<mem, want, queued>>
  BY <1>0, <1>1, <1>3, LooksAttended
<1> QED
  BY <1>2, <1>3 DEF GetForRelease

\* The finalizer is released, or its object is gone, or it is tried again.
LEMMA WriteReleaseAttended ==
  ASSUME ReconcileInv, NEW v \in Volumes, Attended(v), WriteRelease(v)
  PROVE  OthersAlone(v) /\ Attended(v)'
<1>0. /\ TypeOK /\ pc[v] = "writeRelease" /\ pc[v] # "idle"
      /\ UNCHANGED <<cache, armed>>
  BY DEF ReconcileInv, WriteRelease
<1>1. ~armed[v] /\ ~armed'[v]
  BY <1>0 DEF Attended, OrderKnown, Cleaning, Deleting
<1>2. CASE Current(v, latest[v]) /\ Write(v, Released(latest[v])) /\ Return(v, FALSE)
  <2>1. latest[v] \in VolumeObjects /\ latest[v].st = "deleting"
    BY <1>0, <1>2, ReleaseIsOfDeleting DEF TypeOK
  <2>2. /\ vol'[v] = Versioned(v, Released(latest[v])) /\ vol'[v] \in watch'[v]
        /\ \A w \in Volumes \ {v} : vol'[w] = vol[w] /\ watch'[w] = watch[w]
    BY <1>0, <1>2, WriteOthers
  <2>3. vol'[v].st = "gone"
    <3>1. Released(latest[v]) \in VolumeObjects
      BY Zenon, <2>1, EditTypes
    <3>2. Released(latest[v]).st = "gone"
      BY <2>1 DEF Released, VolumeObjects
    <3> QED
      BY <2>2, <3>1, <3>2 DEF Versioned, VolumeObjects
  <2>4. OthersKept(v) /\ Reaches(v)'
    BY <1>0, <2>2 DEF OthersKept, Reaches
  <2> QED
    BY <1>0, <1>1, <1>2, <2>2, <2>3, <2>4, ReturnAttended
<1>3. CASE vol[v].st = "gone" /\ Return(v, FALSE) /\ UNCHANGED apiVars
  <2>1. vol'[v] = vol[v] /\ watch'[v] = watch[v]
    BY <1>3 DEF apiVars
  <2>2. Settled(v)' /\ Reaches(v)'
    BY <1>0, <1>1, <1>3, <2>1 DEF Settled, Attended, Reaches
  <2>3. vol'[v].st # "deleting"
    BY <1>3, <2>1
  <2> QED
    BY <1>0, <1>1, <1>3, <2>2, <2>3, NothingKept, ReturnAttended
<1>4. CASE Retry(v, "release") /\ UNCHANGED apiVars
  BY <1>0, <1>1, <1>4, RetryAttended
<1>5. CASE Return(v, TRUE) /\ UNCHANGED apiVars
  BY <1>0, <1>5, AgainAttended
<1> QED
  BY <1>2, <1>3, <1>4, <1>5 DEF WriteRelease

\* A step of v's reconcile forgets nobody.
LEMMA WorkerAttended ==
  ASSUME ReconcileInv, NEW v \in Volumes, Attended(v), Worker(v)
  PROVE  OthersAlone(v) /\ Attended(v)'
<1>1. CASE Fetch(v)
  BY <1>1, FetchAttended
<1>2. CASE EnsureFinalizer(v)
  BY <1>2, EnsureFinalizerAttended
<1>3. CASE GenerateNfsServer(v)
  BY <1>3, GenerateNfsServerAttended
<1>4. CASE CreateNfsServer(v)
  BY <1>4, CreateNfsServerAttended
<1>5. CASE CheckNfsServer(v)
  BY <1>5, CheckNfsServerAttended
<1>6. CASE AssignRef(v)
  BY <1>6, AssignRefAttended
<1>7. CASE \E kind \in Kinds \ {"nfs"} : EnsureKid(v, kind)
  BY <1>7, EnsureKidAttended
<1>8. CASE UpdateSync(v)
  BY <1>8, UpdateSyncAttended
<1>9. CASE CheckNfs(v) \/ CheckPvc(v) \/ CheckRs(v)
  BY <1>9, ChecksAttended
<1>10. CASE GetForStatus(v)
  BY <1>10, GetForStatusAttended
<1>11. CASE WriteStatus(v)
  BY <1>11, WriteStatusAttended
<1>12. CASE Callback(v)
  BY <1>12, CallbackAttended
<1>13. CASE StopSync(v)
  BY <1>13, StopSyncAttended
<1>14. CASE \E step \in CleanupSteps : CleanupKid(v, step)
  BY <1>14, CleanupKidAttended
<1>15. CASE GetForRelease(v)
  BY <1>15, GetForReleaseAttended
<1>16. CASE WriteRelease(v)
  BY <1>16, WriteReleaseAttended
<1> QED
  BY <1>1, <1>2, <1>3, <1>4, <1>5, <1>6, <1>7, <1>8, <1>9, <1>10, <1>11, <1>12, <1>13,
     <1>14, <1>15, <1>16 DEF Worker

\* A write by a user is on its way to the cache.
LEMMA UserWriteAttended ==
  ASSUME ReconcileInv, NEW v \in Volumes, Attended(v), NEW obj \in VolumeObjects, Write(v, obj),
         UNCHANGED <<cache, queued, pc, mem, want, armed>>,
         obj.st = "deleting" => obj.fin, armed[v] => obj.fin
  PROVE  OthersAlone(v) /\ Attended(v)'
<1>0. TypeOK
  BY DEF ReconcileInv
<1>1. /\ vol'[v] = Versioned(v, obj) /\ vol'[v] \in watch'[v]
      /\ \A w \in Volumes \ {v} : vol'[w] = vol[w] /\ watch'[w] = watch[w]
  BY <1>0, WriteOthers
<1>2. vol'[v].st = obj.st /\ vol'[v].fin = obj.fin
  BY <1>1 DEF Versioned, VolumeObjects
<1>3. OthersAlone(v)
  BY <1>1 DEF OthersAlone, Alone
<1>4. Reaches(v)' /\ UpToDate(v)'
  BY <1>1 DEF Attended, Reaches, UpToDate
<1>5. OrderKnown(v)'
  BY <1>1, <1>2 DEF Attended, OrderKnown
<1> QED
  BY <1>1, <1>2, <1>3, <1>4, <1>5 DEF Attended

\* All that users do to a volume.
LEMMA UsersAttended ==
  ASSUME ReconcileInv, NEW v \in Volumes, Attended(v),
         UserCreate(v) \/ UserEdit(v) \/ UserDelete(v)
  PROVE  OthersAlone(v) /\ Attended(v)'
<1>0. TypeOK /\ StoreInv(v) /\ vol[v] \in VolumeObjects /\ uids \in Nat
  BY BoundTypes DEF ReconcileInv, TypeOK
<1>1. UNCHANGED <<cache, queued, pc, mem, want, armed>>
  BY DEF UserCreate, UserEdit, UserDelete, workerVars
<1>2. vol[v].st = "deleting" => vol[v].fin
  BY DEF Attended
<1>3. armed[v] => vol[v].fin
  BY DEF Attended, OrderKnown
<1>4. CASE UserCreate(v)
  <2>1. PICK nfs \in UserNfs, r \in UserRefs \cup {NoRef} : Write(v, NewVolume(uids + 1, nfs, r))
    BY <1>4 DEF UserCreate
  <2> DEFINE obj == NewVolume(uids + 1, nfs, r)
  <2>2. obj.st = "live" /\ ~obj.fin
    BY Zenon DEF NewVolume
  <2>3. obj \in VolumeObjects
    <3>1. nfs \in NfsChoice /\ r \in Refs \cup {NoRef} /\ uids + 1 \in Nat
      BY <1>0, ConstantsAssumption DEF NfsChoice
    <3> QED
      BY <3>1 DEF NewVolume, VolumeObjects, Phases
  <2>4. ~armed[v]
    BY <1>0, <1>3, <1>4 DEF UserCreate, StoreInv, FinalizerHeld
  <2> HIDE DEF obj
  <2>5. Write(v, obj)
    BY <2>1 DEF obj
  <2> QED
    BY <1>1, <2>2, <2>3, <2>4, <2>5, UserWriteAttended
<1>5. CASE UserEdit(v)
  <2>1. Write(v, vol[v])
    BY <1>5 DEF UserEdit
  <2> QED
    BY <1>0, <1>1, <1>2, <1>3, <2>1, UserWriteAttended
<1>6. CASE UserDelete(v)
  <2> DEFINE obj == [vol[v] EXCEPT !.st = IF vol[v].fin THEN "deleting" ELSE "gone"]
  <2>1. obj \in VolumeObjects
    BY Zenon, <1>0, EditTypes
  <2>2. obj.fin = vol[v].fin /\ (obj.st = "deleting" => vol[v].fin)
    BY <1>0 DEF VolumeObjects
  <2> HIDE DEF obj
  <2>3. Write(v, obj)
    BY <1>6 DEF UserDelete, obj
  <2> QED
    BY <1>1, <1>3, <2>1, <2>2, <2>3, UserWriteAttended
<1> QED
  BY <1>4, <1>5, <1>6

\* Whatever the informer delivers, it enqueues the volume.
LEMMA DeliverAttended ==
  ASSUME ReconcileInv, NEW v \in Volumes, Attended(v), Deliver(v)
  PROVE  OthersAlone(v) /\ Attended(v)'
<1>0. TypeOK /\ StoreInv(v)
  BY DEF ReconcileInv
<1>1. PICK w \in watch[v] : /\ cache' = [cache EXCEPT ![v] = w]
                            /\ watch' = [watch EXCEPT ![v] = {x \in @ : x.rv > w.rv}]
  BY DEF Deliver
<1>2. UNCHANGED <<vol, pc, mem, want, armed>>
  BY DEF Deliver, workerVars
<1>3. /\ cache'[v] = w /\ watch'[v] = {x \in watch[v] : x.rv > w.rv}
      /\ \A u \in Volumes \ {v} : cache'[u] = cache[u] /\ watch'[u] = watch[u]
  BY <1>0, <1>1 DEF TypeOK
<1>4. queued'[v] /\ \A u \in Volumes \ {v} : queued'[u] = queued[u]
  BY <1>0 DEF Deliver, TypeOK
<1>5. OthersAlone(v)
  BY <1>2, <1>3, <1>4 DEF OthersAlone, Alone
<1>6. w = vol[v] \/ vol[v] \in watch'[v]
  <2>1. Follows(vol[v], w) /\ Follows(w, cache[v])
    BY <1>0 DEF StoreInv, VersionsFollow
  <2>2. vol[v].rv \in Nat /\ w.rv \in Nat /\ cache[v].rv \in Nat
    BY <1>0 DEF TypeOK, VolumeObjects
  <2>3. CASE vol[v] \in watch[v]
    BY <1>3, <2>1, <2>2, <2>3 DEF Follows
  <2>4. CASE cache[v] = vol[v]
    BY <2>1, <2>2, <2>4 DEF Follows
  <2> QED
    BY <2>3, <2>4 DEF Attended, Reaches
<1>7. Reaches(v)' /\ UpToDate(v)'
  BY <1>2, <1>3, <1>4, <1>6 DEF Reaches, UpToDate
<1>8. OrderKnown(v)'
  BY <1>2, <1>4 DEF Attended, OrderKnown
<1> QED
  BY <1>2, <1>4, <1>5, <1>7, <1>8 DEF Attended

\* The cluster writes children, and a write of a child can only enqueue.
LEMMA AroundAttended ==
  ASSUME ReconcileInv, AttendInv, (\E id \in Ids : DeliverKid(id)) \/ Cluster
  PROVE  AttendInv'
<1>0. TypeOK
  BY DEF ReconcileInv
<1>1. UNCHANGED <<vol, watch, cache, pc, mem, want, armed>>
  BY DEF DeliverKid, Cluster, BecomeReady, BecomeUnready, GarbageCollect, apiVars, workerVars
<1>2. \A w \in Volumes : queued[w] => queued'[w]
  <2>1. CASE \E id \in Ids : DeliverKid(id)
    BY <1>0, <2>1 DEF DeliverKid, TypeOK
  <2>2. CASE Cluster
    <3>1. PICK id \in Ids : BecomeReady(id) \/ BecomeUnready(id) \/ GarbageCollect(id)
      BY <2>2 DEF Cluster
    <3>2. \E kid : WriteKid(id, kid, kids[id].vol, FALSE)
      BY <3>1 DEF BecomeReady, BecomeUnready, GarbageCollect
    <3> QED
      BY <1>0, <3>2, KidOthers
  <2> QED
    BY <2>1, <2>2
<1>3. \A w \in Volumes : Alone(w)
  BY <1>1, <1>2 DEF Alone
<1> QED
  BY <1>3, AloneAttended DEF AttendInv

\* The next process lists what there is, and enqueues all of it.
LEMMA CrashAttended ==
  ASSUME ReconcileInv, AttendInv, Crash
  PROVE  AttendInv'
<1> SUFFICES ASSUME NEW v \in Volumes PROVE Attended(v)'
  BY DEF AttendInv
<1>1. /\ pc'[v] = "idle" /\ armed'[v] = FALSE /\ queued'[v] = (vol[v].st # "gone")
      /\ cache'[v] = vol[v] /\ vol'[v] = vol[v]
  BY Zenon DEF Crash
<1>2. Settled(v)' \/ queued'[v]
  BY <1>1 DEF Settled
<1>3. Reaches(v)' /\ UpToDate(v)' /\ OrderKnown(v)'
  BY <1>1 DEF Reaches, UpToDate, OrderKnown, Cleaning, Deleting
<1>4. vol[v].st = "deleting" => vol[v].fin
  BY DEF AttendInv, Attended
<1> QED
  BY <1>1, <1>2, <1>3, <1>4 DEF Attended

\* A volume that was never created counts as gone.
LEMMA NoObjectGone == NoObject.st = "gone"
  BY DEF NoObject

\* There is nothing to attend to at first.
LEMMA InitAttended == Init => AttendInv
<1> SUFFICES ASSUME Init, NEW v \in Volumes PROVE Attended(v)
  BY Zenon DEF AttendInv
<1>1. /\ vol[v] = NoObject /\ cache[v] = NoObject /\ pc[v] = "idle" /\ armed[v] = FALSE
  BY Zenon DEF Init
<1>2. vol[v].st = "gone"
  BY <1>1, NoObjectGone
<1>3. Settled(v)
  BY <1>1, <1>2 DEF Settled
<1>4. Reaches(v) /\ UpToDate(v) /\ OrderKnown(v)
  BY <1>1 DEF Reaches, UpToDate, OrderKnown, Cleaning, Deleting
<1> QED
  BY <1>2, <1>3, <1>4 DEF Attended

\* Nor does any step forget one.
LEMMA StepAttended ==
  ASSUME ReconcileInv, AttendInv, [Next]_vars
  PROVE  AttendInv'
<1>2. ASSUME NEW v \in Volumes,
             \/ Worker(v) \/ Deliver(v)
             \/ UserCreate(v) \/ UserEdit(v) \/ UserDelete(v)
      PROVE  AttendInv'
  <2>1. OthersAlone(v) /\ Attended(v)'
    BY <1>2, WorkerAttended, DeliverAttended, UsersAttended DEF AttendInv
  <2>2. \A w \in Volumes \ {v} : Attended(w)'
    BY <2>1, AloneAttended DEF OthersAlone, AttendInv
  <2> QED
    BY <2>1, <2>2 DEF AttendInv
<1>3. CASE (\E id \in Ids : DeliverKid(id)) \/ Cluster
  BY <1>3, AroundAttended
<1>4. CASE Crash
  BY <1>4, CrashAttended
<1>5. CASE UNCHANGED vars
  BY <1>5 DEF vars, AttendInv, Attended, Settled, Reaches, UpToDate, OrderKnown
<1> QED
  BY <1>2, <1>3, <1>4, <1>5 DEF Next, Informers, Users

\* No wake-up is lost: a volume is settled, or its reconcile runs, or it is in the
\* workqueue, or its informer has a version to deliver (HandleFinalizerLogic,
\* CheckResourceReadiness, UpdateStatusWithRetry, RemoveFinalizerWithRetry).
THEOREM VolumesAlwaysAttended == Spec => []VolumesAttended
<1>1. Init => AttendInv
  BY InitAttended
<1>2. ReconcileInv /\ AttendInv /\ [Next]_vars => AttendInv'
  BY StepAttended
<1>3. AttendInv => VolumesAttended
  BY Zenon DEF AttendInv, Attended, VolumesAttended
<1> QED
  BY <1>1, <1>2, <1>3, ReconcileInvariant, PTL DEF Spec
=============================================================================
