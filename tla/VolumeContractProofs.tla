------------------------ MODULE VolumeContractProofs ------------------------
(***************************************************************************)
(* VolumeReconciler implements VolumeContract: every step is one of the    *)
(* contract's, or changes nothing the contract speaks of.                  *)
(***************************************************************************)
EXTENDS VolumeStepProofs, VolumeRefinement

mapped == <<lives, names, mades>>

\* What a step may make of the stored version c of a volume.
Moves(c, d) ==
  \/ c = d
  \/ c.st = "gone" /\ d.st = "live" /\ ~d.fin /\ c.uid < d.uid
  \/ c.st # "gone" /\ d.st = "gone" /\ (c.st = "live" => ~c.fin)
  \/ /\ c.st # "gone" /\ c.uid = d.uid
     /\ \/ d.st = c.st /\ d.ref = c.ref /\ (c.fin => d.fin)
        \/ d.st = c.st /\ c.st = "live" /\ c.fin /\ d.fin /\ c.ref = NoRef
        \/ c.st = "live" /\ c.fin /\ d.st = "deleting" /\ d.ref = c.ref

---------------------------------------------------------------------------
\* Writes of a volume

\* A write makes of the stored version what the written object says.
LEMMA WriteMoves ==
  ASSUME TypeOK, NEW v \in Volumes, NEW obj \in VolumeObjects, Write(v, obj),
         Moves(vol[v], obj), obj # vol[v]
  PROVE  Moves(vol[v], vol'[v]) /\ \A w \in Volumes \ {v} : vol'[w] = vol[w]
<1>1. vol'[v] = Versioned(v, obj) /\ \A w \in Volumes \ {v} : vol'[w] = vol[w]
  BY DEF Write, TypeOK
<1>2. /\ vol'[v].st = obj.st /\ vol'[v].fin = obj.fin /\ vol'[v].ref = obj.ref
      /\ vol'[v].uid = obj.uid
  BY <1>1 DEF Versioned, VolumeObjects
<1>3. QED
  BY <1>1, <1>2 DEF Moves

\* The same of a write that changes nothing but the version.
LEMMA RewriteMoves ==
  ASSUME TypeOK, NEW v \in Volumes, Write(v, vol[v]), vol[v].st # "gone"
  PROVE  Moves(vol[v], vol'[v]) /\ \A w \in Volumes \ {v} : vol'[w] = vol[w]
<1>0. vol[v] \in VolumeObjects
  BY DEF TypeOK
<1>1. vol'[v] = Versioned(v, vol[v]) /\ \A w \in Volumes \ {v} : vol'[w] = vol[w]
  BY DEF Write, TypeOK
<1>2. /\ vol'[v].st = vol[v].st /\ vol'[v].fin = vol[v].fin /\ vol'[v].ref = vol[v].ref
      /\ vol'[v].uid = vol[v].uid
  BY <1>0, <1>1 DEF Versioned, VolumeObjects
<1>3. QED
  BY <1>1, <1>2 DEF Moves

\* One volume moves.
OneMoves == \E v \in Volumes : /\ Moves(vol[v], vol'[v])
                               /\ \A w \in Volumes \ {v} : vol'[w] = vol[w]

\* So does a write, whatever else the object says.
LEMMA WriteIsMove ==
  ASSUME TypeOK, NEW v \in Volumes, NEW obj \in VolumeObjects, Write(v, obj),
         Moves(vol[v], obj), vol[v].st # "gone" \/ obj.st # "gone"
  PROVE  OneMoves
<1>1. CASE obj # vol[v]
  BY <1>1, WriteMoves DEF OneMoves
<1>2. CASE obj = vol[v]
  BY <1>2, RewriteMoves DEF OneMoves
<1>3. QED
  BY <1>1, <1>2

\* The reconciler's writes: hold, name, status, release.
LEMMA WorkerMoves ==
  ASSUME ReconcileInv, NEW v \in Volumes, Worker(v)
  PROVE  UNCHANGED vol \/ OneMoves
<1>0. /\ TypeOK /\ ReconcileKnows(v)
      /\ vol[v] \in VolumeObjects /\ mem[v] \in VolumeObjects /\ latest[v] \in VolumeObjects
  BY DEF ReconcileInv, TypeOK
<1>1. pc[v] # "idle" /\ Current(v, mem[v]) => mem[v] = vol[v] /\ vol[v].st # "gone"
  BY <1>0, CurrentCopy DEF ReconcileKnows
<1>2. pc[v] \in Writing /\ Current(v, latest[v]) => latest[v] = vol[v] /\ vol[v].st # "gone"
  BY <1>0, CurrentCopy DEF ReconcileKnows
<1>3. CASE EnsureFinalizer(v)
  <2>1. CASE Update(v, [mem[v] EXCEPT !.fin = TRUE], "nfs")
    <3> DEFINE obj == [mem[v] EXCEPT !.fin = TRUE]
    <3>1. obj \in VolumeObjects
      BY <1>0, EditTypes
    <3>2. mem[v] = vol[v] /\ vol[v].st # "gone"
      BY <1>1, <1>3, <2>1 DEF EnsureFinalizer, Update
    <3>3. obj.ref = vol[v].ref /\ obj.uid = vol[v].uid /\ obj.st = vol[v].st /\ obj.fin
      BY <1>0, <3>2 DEF VolumeObjects
    <3> HIDE DEF obj
    <3>4. Write(v, obj)
      BY <2>1 DEF Update, obj
    <3>5. Moves(vol[v], obj)
      BY <3>2, <3>3 DEF Moves
    <3>6. QED
      BY <1>0, <3>1, <3>2, <3>4, <3>5, WriteIsMove
  <2>2. QED
    BY <1>3, <2>1 DEF EnsureFinalizer, UpdateError, apiVars
<1>4. CASE GenerateNfsServer(v)
  <2>1. ASSUME NEW r \in RefChoices(v),
               Update(v, [mem[v] EXCEPT !.ref = r, !.nfs = "managed"], "createNfs")
        PROVE  OneMoves
    <3> DEFINE obj == [mem[v] EXCEPT !.ref = r, !.nfs = "managed"]
    <3>1. r \in Refs /\ (mem[v].ref # NoRef => r = mem[v].ref)
      BY <1>0 DEF RefChoices, FreshRefs, VolumeObjects
    <3>2. obj \in VolumeObjects
      BY <1>0, <3>1, EditTypes
    <3>3. /\ mem[v] = vol[v] /\ vol[v].st # "gone"
          /\ vol[v].st = "live" /\ vol[v].fin
      BY <1>0, <1>1, <1>4, <2>1 DEF GenerateNfsServer, Update, ReconcileKnows, Working
    <3>4. obj.ref = r /\ obj.uid = vol[v].uid /\ obj.st = vol[v].st /\ obj.fin
      BY <1>0, <3>3 DEF VolumeObjects
    <3> HIDE DEF obj
    <3>5. Write(v, obj)
      BY <2>1 DEF Update, obj
    <3>6. Moves(vol[v], obj)
      BY <3>1, <3>3, <3>4 DEF Moves
    <3>7. QED
      BY <1>0, <3>2, <3>3, <3>5, <3>6, WriteIsMove
  <2>2. QED
    BY <1>4, <2>1 DEF GenerateNfsServer, UpdateError, apiVars
<1>5. CASE AssignRef(v)
  <2>1. ASSUME NEW r \in FreshRefs, Current(v, mem[v]), Write(v, [mem[v] EXCEPT !.ref = r])
        PROVE  OneMoves
    <3> DEFINE obj == [mem[v] EXCEPT !.ref = r]
    <3>1. obj \in VolumeObjects
      BY <1>0, EditTypes DEF FreshRefs
    <3>2. /\ mem[v] = vol[v] /\ vol[v].ref = NoRef
          /\ vol[v].st = "live" /\ vol[v].fin
      BY <1>0, <1>1, <1>5, <2>1 DEF AssignRef, ReconcileKnows, Working
    <3>3. obj.uid = vol[v].uid /\ obj.st = vol[v].st /\ obj.fin
      BY <1>0, <3>2 DEF VolumeObjects
    <3> HIDE DEF obj
    <3>4. Write(v, obj)
      BY <2>1 DEF obj
    <3>5. Moves(vol[v], obj)
      BY <3>2, <3>3 DEF Moves
    <3>6. QED
      BY <1>0, <3>1, <3>2, <3>4, <3>5, WriteIsMove
  <2>2. QED
    BY <1>5, <2>1 DEF AssignRef, UpdateError, apiVars
<1>6. CASE WriteStatus(v)
  <2>1. CASE Current(v, latest[v]) /\ Write(v, [latest[v] EXCEPT !.phase = want[v]])
    <3> DEFINE obj == [latest[v] EXCEPT !.phase = want[v]]
    <3>1. obj \in VolumeObjects
      BY <1>0, EditTypes DEF TypeOK
    <3>2. latest[v] = vol[v] /\ vol[v].st # "gone"
      BY <1>2, <1>6, <2>1 DEF WriteStatus, Writing
    <3>3. /\ obj.uid = vol[v].uid /\ obj.st = vol[v].st /\ obj.fin = vol[v].fin
          /\ obj.ref = vol[v].ref
      BY <1>0, <3>2 DEF VolumeObjects
    <3> HIDE DEF obj
    <3>4. Write(v, obj)
      BY <2>1 DEF obj
    <3>5. Moves(vol[v], obj)
      BY <3>2, <3>3 DEF Moves
    <3>6. QED
      BY <1>0, <3>1, <3>2, <3>4, <3>5, WriteIsMove
  <2>2. QED
    BY <1>6, <2>1 DEF WriteStatus, apiVars
<1>7. CASE WriteRelease(v)
  <2>1. CASE Current(v, latest[v]) /\ Write(v, Released(latest[v]))
    <3>1. latest[v] = vol[v] /\ vol[v].st = "deleting"
      BY <1>7, <2>1, ReleaseIsOfDeleting DEF WriteRelease
    <3>2. Released(latest[v]) \in VolumeObjects
      BY <1>0, EditTypes
    <3>3. Released(latest[v]).st = "gone"
      BY <1>0, <3>1 DEF Released, VolumeObjects
    <3>4. Moves(vol[v], Released(latest[v]))
      BY <3>1, <3>3 DEF Moves
    <3>5. QED
      BY <1>0, <2>1, <3>1, <3>2, <3>4, WriteIsMove
  <2>2. QED
    BY <1>7, <2>1 DEF WriteRelease, apiVars
<1>8. CASE \/ Fetch(v) \/ CreateNfsServer(v) \/ CheckNfsServer(v)
           \/ \E kind \in Kinds \ {"nfs"} : EnsureKid(v, kind)
           \/ UpdateSync(v) \/ CheckNfs(v) \/ CheckPvc(v) \/ CheckRs(v)
  BY <1>8 DEF Fetch, CreateNfsServer, CheckNfsServer, EnsureKid, UpdateSync, CheckNfs,
              CheckPvc, CheckRs, Check, apiVars
<1>9. CASE \/ GetForStatus(v) \/ Callback(v) \/ StopSync(v)
           \/ \E step \in CleanupSteps : CleanupKid(v, step)
           \/ GetForRelease(v)
  BY <1>9 DEF GetForStatus, Callback, StopSync, CleanupKid, GetForRelease, apiVars
<1>10. QED
  BY <1>3, <1>4, <1>5, <1>6, <1>7, <1>8, <1>9 DEF Worker

\* The users': creation, an edit, deletion.
LEMMA UserMoves ==
  ASSUME ReconcileInv, NEW v \in Volumes, UserCreate(v) \/ UserEdit(v) \/ UserDelete(v)
  PROVE  OneMoves
<1>0. /\ TypeOK /\ vol[v] \in VolumeObjects /\ vol[v].uid \in Nat /\ uids \in Nat
      /\ vol[v].uid <= uids
  BY BoundTypes DEF ReconcileInv, TypeOK, StoreInv, FinalizerHeld, VolumeObjects
<1>1. CASE UserCreate(v)
  <2>1. PICK nfs \in UserNfs, r \in UserRefs \cup {NoRef} :
          Write(v, NewVolume(uids + 1, nfs, r))
    BY <1>1 DEF UserCreate
  <2> DEFINE obj == NewVolume(uids + 1, nfs, r)
  <2>2. obj.uid = uids + 1 /\ obj.st = "live" /\ ~obj.fin
    BY DEF NewVolume
  <2>3. obj \in VolumeObjects
    <3>1. nfs \in NfsChoice /\ r \in Refs \cup {NoRef} /\ uids + 1 \in Nat
      BY <1>0, ConstantsAssumption DEF NfsChoice
    <3>2. QED
      BY <3>1 DEF NewVolume, VolumeObjects, Phases
  <2>4. vol[v].st = "gone" /\ vol[v].uid < obj.uid
    BY <1>0, <1>1, <2>2 DEF UserCreate
  <2> HIDE DEF obj
  <2>5. Write(v, obj)
    BY <2>1 DEF obj
  <2>6. Moves(vol[v], obj)
    BY <2>2, <2>4 DEF Moves
  <2>7. QED
    BY <1>0, <2>2, <2>3, <2>5, <2>6, WriteIsMove
<1>2. CASE UserEdit(v)
  BY <1>0, <1>2, RewriteMoves DEF UserEdit, OneMoves
<1>3. CASE UserDelete(v)
  <2> DEFINE obj == [vol[v] EXCEPT !.st = IF vol[v].fin THEN "deleting" ELSE "gone"]
  <2>1. obj \in VolumeObjects
    BY <1>0, EditTypes
  <2>2. /\ obj.uid = vol[v].uid /\ obj.ref = vol[v].ref
        /\ obj.st = IF vol[v].fin THEN "deleting" ELSE "gone"
    BY <1>0 DEF VolumeObjects
  <2>3. vol[v].st = "live"
    BY <1>3 DEF UserDelete
  <2> HIDE DEF obj
  <2>4. Write(v, obj)
    BY <1>3 DEF UserDelete, obj
  <2>5. Moves(vol[v], obj)
    BY <2>2, <2>3 DEF Moves
  <2>6. QED
    BY <1>0, <2>1, <2>3, <2>4, <2>5, WriteIsMove
<1>4. QED
  BY <1>1, <1>2, <1>3

---------------------------------------------------------------------------
\* The mapping

\* The children made for a volume whose object stays and whose children stay.
LEMMA MadeStays ==
  ASSUME NEW v \in Volumes, vol[v].st # "gone", vol'[v].st # "gone", vol'[v].uid = vol[v].uid,
         UNCHANGED kids
  PROVE  MadeFor(v)' = MadeFor(v)
  BY DEF MadeFor, OwnerPresent

\* No child was made for a volume that is gone, or for one that has just been created.
LEMMA NothingMade ==
  ASSUME NEW v \in Volumes
  PROVE  /\ vol[v].st = "gone" => MadeFor(v) = {}
         /\ vol'[v].st = "gone" => MadeFor(v)' = {}
  BY DEF MadeFor, OwnerPresent

LEMMA NothingMadeYet ==
  ASSUME TypeOK, TypeOK', KidsOwned, NEW v \in Volumes, vol[v].uid < vol'[v].uid,
         UNCHANGED kids
  PROVE  MadeFor(v)' = {}
<1> SUFFICES ASSUME NEW id \in Ids, Exists(kids[id]), kids[id].vol = v,
                    vol'[v].uid = kids[id].uid
             PROVE  FALSE
  BY DEF MadeFor, OwnerPresent
<1>1. kids[id].uid <= vol[v].uid
  BY DEF KidsOwned
<1>2. vol[v].uid \in Nat /\ vol'[v].uid \in Nat
  BY DEF TypeOK, VolumeObjects
<1>3. QED
  BY <1>1, <1>2

\* A move of one volume is a step of the contract.
LEMMA MoveMaps ==
  ASSUME TypeOK, TypeOK', KidsOwned, UNCHANGED kids, OneMoves
  PROVE  [Contract!Next]_mapped
<1>1. PICK v \in Volumes : /\ Moves(vol[v], vol'[v])
                           /\ \A w \in Volumes \ {v} : vol'[w] = vol[w]
  BY DEF OneMoves
<1>2. /\ vol[v] \in VolumeObjects /\ vol'[v] \in VolumeObjects
  BY DEF TypeOK
<1>3. \A w \in Volumes \ {v} : /\ Life(vol'[w]) = Life(vol[w])
                               /\ NameOf(vol'[w]) = NameOf(vol[w])
                               /\ MadeFor(w)' = MadeFor(w)
  BY <1>1 DEF MadeFor, OwnerPresent
<1>4. /\ lives' = [lives EXCEPT ![v] = Life(vol'[v])]
      /\ names' = [names EXCEPT ![v] = NameOf(vol'[v])]
      /\ mades' = [mades EXCEPT ![v] = MadeFor(v)']
  BY <1>3 DEF lives, names, mades
<1>5. lives[v] = Life(vol[v]) /\ names[v] = NameOf(vol[v]) /\ mades[v] = MadeFor(v)
  BY DEF lives, names, mades
<1>6. ASSUME Life(vol'[v]) = Life(vol[v])
      PROVE  lives' = lives
  BY <1>4, <1>5, <1>6 DEF lives
<1>7. ASSUME NameOf(vol'[v]) = NameOf(vol[v])
      PROVE  names' = names
  BY <1>4, <1>5, <1>7 DEF names
<1>8. ASSUME MadeFor(v)' = MadeFor(v)
      PROVE  mades' = mades
  BY <1>4, <1>5, <1>8 DEF mades
<1>9. CASE vol'[v] = vol[v]
  <2>1. MadeFor(v)' = MadeFor(v)
    BY <1>9 DEF MadeFor, OwnerPresent
  <2>2. QED
    BY <1>6, <1>7, <1>8, <1>9, <2>1 DEF mapped
<1>10. CASE vol[v].st = "gone" /\ vol'[v].st = "live" /\ ~vol'[v].fin /\ vol[v].uid < vol'[v].uid
  <2>1. MadeFor(v)' = {} /\ MadeFor(v) = {}
    BY <1>10, NothingMade, NothingMadeYet
  <2>2. Life(vol[v]) = "absent" /\ Life(vol'[v]) = "new"
    BY <1>10 DEF Life
  <2>3. NameOf(vol'[v]) \in Refs \cup {NoRef}
    BY <1>2 DEF NameOf, VolumeObjects
  <2>4. Contract!Create(v)
    BY <1>4, <1>5, <1>8, <2>1, <2>2, <2>3 DEF Contract!Create
  <2>5. QED
    BY <2>4 DEF Contract!Next
<1>11. CASE vol[v].st # "gone" /\ vol'[v].st = "gone" /\ (vol[v].st = "live" => ~vol[v].fin)
  <2>1. MadeFor(v)' = {}
    BY <1>11, NothingMade
  <2>2. Life(vol[v]) \in {"new", "leaving"} /\ Life(vol'[v]) = "absent"
    BY <1>2, <1>11 DEF Life, VolumeObjects
  <2>3. NameOf(vol'[v]) = NoRef
    BY <1>11 DEF NameOf
  <2>4. Contract!Go(v)
    BY <1>4, <1>5, <2>1, <2>2, <2>3 DEF Contract!Go
  <2>5. QED
    BY <2>4 DEF Contract!Next
<1>12. CASE /\ vol[v].st # "gone" /\ vol[v].uid = vol'[v].uid
            /\ vol'[v].st = vol[v].st /\ vol'[v].ref = vol[v].ref
            /\ vol[v].fin => vol'[v].fin
  <2>1. MadeFor(v)' = MadeFor(v) /\ NameOf(vol'[v]) = NameOf(vol[v])
    BY <1>12, MadeStays DEF NameOf
  <2>2. \/ Life(vol'[v]) = Life(vol[v])
        \/ Life(vol[v]) = "new" /\ Life(vol'[v]) = "held"
    BY <1>2, <1>12 DEF Life, VolumeObjects
  <2>3. CASE Life(vol'[v]) = Life(vol[v])
    BY <1>6, <1>7, <1>8, <2>1, <2>3 DEF mapped
  <2>4. CASE Life(vol[v]) = "new" /\ Life(vol'[v]) = "held"
    <3>1. Contract!Hold(v)
      BY <1>4, <1>5, <1>7, <1>8, <2>1, <2>4 DEF Contract!Hold
    <3>2. QED
      BY <3>1 DEF Contract!Next
  <2>5. QED
    BY <2>2, <2>3, <2>4
<1>13. CASE /\ vol[v].st # "gone" /\ vol[v].uid = vol'[v].uid
            /\ vol'[v].st = vol[v].st /\ vol[v].st = "live" /\ vol[v].fin /\ vol'[v].fin
            /\ vol[v].ref = NoRef
  <2>1. MadeFor(v)' = MadeFor(v)
    BY <1>13, MadeStays
  <2>2. Life(vol[v]) = "held" /\ Life(vol'[v]) = "held"
    BY <1>13 DEF Life
  <2>3. NameOf(vol[v]) = NoRef /\ NameOf(vol'[v]) \in Refs \cup {NoRef}
    BY <1>2, <1>13 DEF NameOf, VolumeObjects
  <2>4. CASE NameOf(vol'[v]) = NoRef
    BY <1>6, <1>7, <1>8, <2>1, <2>2, <2>3, <2>4 DEF mapped
  <2>5. CASE NameOf(vol'[v]) \in Refs
    <3>1. Contract!Name(v)
      BY <1>4, <1>5, <1>6, <1>8, <2>1, <2>2, <2>3, <2>5 DEF Contract!Name
    <3>2. QED
      BY <3>1 DEF Contract!Next
  <2>6. QED
    BY <2>3, <2>4, <2>5
<1>14. CASE /\ vol[v].st # "gone" /\ vol[v].uid = vol'[v].uid
            /\ vol[v].st = "live" /\ vol[v].fin /\ vol'[v].st = "deleting"
            /\ vol'[v].ref = vol[v].ref
  <2>1. MadeFor(v)' = MadeFor(v) /\ NameOf(vol'[v]) = NameOf(vol[v])
    BY <1>14, MadeStays DEF NameOf
  <2>2. Life(vol[v]) = "held" /\ Life(vol'[v]) = "leaving"
    BY <1>14 DEF Life
  <2>3. Contract!Leave(v)
    BY <1>4, <1>5, <1>7, <1>8, <2>1, <2>2 DEF Contract!Leave
  <2>4. QED
    BY <2>3 DEF Contract!Next
<1>15. QED
  BY <1>1, <1>9, <1>10, <1>11, <1>12, <1>13, <1>14 DEF Moves

---------------------------------------------------------------------------
\* Writes of a child

\* A step that writes a child writes one, and no volume; a child that stays keeps its owner.
LEMMA OneKid ==
  ASSUME ReconcileInv, [Next]_vars, kids' # kids
  PROVE  /\ UNCHANGED vol
         /\ \E id \in Ids :
              /\ \A j \in Ids \ {id} : kids'[j] = kids[j]
              /\ Exists(kids[id]) /\ Exists(kids'[id]) =>
                   kids'[id].vol = kids[id].vol /\ kids'[id].uid = kids[id].uid
<1>0. TypeOK /\ kids \in [Ids -> KidObjects]
  BY DEF ReconcileInv, TypeOK
<1>1. ASSUME NEW v \in Volumes, NEW kind \in Kinds,
             kids' = [kids EXCEPT ![<<kind, mem[v].ref>>] = NewKid(v, kind)],
             ~Exists(kids[<<kind, mem[v].ref>>])
      PROVE  \E id \in Ids :
               /\ \A j \in Ids \ {id} : kids'[j] = kids[j]
               /\ ~Exists(kids[id])
  <2>1. <<kind, mem[v].ref>> \in Ids
    BY <1>0, <1>1 DEF Exists
  <2>2. QED
    BY <1>0, <1>1, <2>1
<1>2. CASE \E v \in Volumes : CreateNfsServer(v)
  <2>1. PICK v \in Volumes : CreateNfsServer(v)
    BY <1>2
  <2>2. /\ ~Exists(kids[<<"nfs", mem[v].ref>>]) /\ UNCHANGED vol
        /\ kids' = [kids EXCEPT ![<<"nfs", mem[v].ref>>] = NewKid(v, "nfs")]
    BY <2>1 DEF CreateNfsServer, CreateError, WriteKid, kidVars, apiVars
  <2>3. PICK id \in Ids : /\ \A j \in Ids \ {id} : kids'[j] = kids[j]
                          /\ kids' # kids
                          /\ id = <<"nfs", mem[v].ref>>
    BY <1>0, <2>2
  <2>4. QED
    BY <2>2, <2>3
<1>3. CASE \E v \in Volumes : \E kind \in Kinds \ {"nfs"} : EnsureKid(v, kind)
  <2>1. PICK v \in Volumes, kind \in Kinds \ {"nfs"} : EnsureKid(v, kind)
    BY <1>3
  <2>2. /\ ~Exists(kids[<<kind, mem[v].ref>>]) /\ UNCHANGED vol
        /\ kids' = [kids EXCEPT ![<<kind, mem[v].ref>>] = NewKid(v, kind)]
    BY <2>1 DEF EnsureKid, CreateError, WriteKid, kidVars, apiVars
  <2>3. PICK id \in Ids : /\ \A j \in Ids \ {id} : kids'[j] = kids[j]
                          /\ kids' # kids
                          /\ id = <<kind, mem[v].ref>>
    BY <1>0, <2>2
  <2>4. QED
    BY <2>2, <2>3
<1>4. CASE \E v \in Volumes : \E step \in CleanupSteps : CleanupKid(v, step)
  <2>1. PICK v \in Volumes, step \in CleanupSteps : CleanupKid(v, step)
    BY <1>4
  <2>2. /\ UNCHANGED vol
        /\ kids' = [kids EXCEPT ![<<step[2], mem[v].ref>>] = NoKid]
    BY <2>1 DEF CleanupKid, WriteKid, kidVars, apiVars
  <2>3. PICK id \in Ids : /\ \A j \in Ids \ {id} : kids'[j] = kids[j]
                          /\ kids'[id] = NoKid
    BY <1>0, <2>2
  <2>4. QED
    BY <2>2, <2>3 DEF Exists, NoKid
<1>5. CASE Cluster
  <2>1. PICK id \in Ids : BecomeReady(id) \/ BecomeUnready(id) \/ GarbageCollect(id)
    BY <1>5 DEF Cluster
  <2>2. UNCHANGED vol
    BY <2>1 DEF BecomeReady, BecomeUnready, GarbageCollect, apiVars
  <2>3. CASE GarbageCollect(id)
    <3>1. kids' = [kids EXCEPT ![id] = NoKid]
      BY <2>3 DEF GarbageCollect, WriteKid
    <3>2. QED
      BY <1>0, <2>2, <3>1 DEF Exists, NoKid
  <2>4. CASE BecomeReady(id) \/ BecomeUnready(id)
    <3>1. \E st : kids' = [kids EXCEPT ![id] = [kids[id] EXCEPT !.st = st]]
      BY <2>4 DEF BecomeReady, BecomeUnready, WriteKid
    <3>2. kids[id] \in KidObjects
      BY <1>0
    <3>3. kids'[id].vol = kids[id].vol /\ kids'[id].uid = kids[id].uid
      BY <1>0, <3>1, <3>2 DEF KidObjects
    <3>4. \A j \in Ids \ {id} : kids'[j] = kids[j]
      BY <1>0, <3>1
    <3>5. QED
      BY <2>2, <3>3, <3>4
  <2>5. QED
    BY <2>1, <2>3, <2>4
<1>6. QED
  BY <1>2, <1>3, <1>4, <1>5, KidWriters

\* Two sets that differ in one element at most.
LEMMA DifferInOne ==
  ASSUME NEW A, NEW B, NEW x, A \ {x} = B \ {x}
  PROVE  /\ (x \in A <=> x \in B) => A = B
         /\ x \in A => A = B \cup {x}
         /\ x \notin A => A = B \ {x}
<1>1. \A y : y # x => (y \in A <=> y \in B)
  OBVIOUS
<1>2. QED
  BY <1>1

\* A write of a child is a step of the contract, or nothing to it.
LEMMA KidMaps ==
  ASSUME ReconcileInv, [Next]_vars, kids' # kids
  PROVE  [Contract!Next]_mapped
<1>0. TypeOK /\ KidsOwned /\ KidsFindable /\ UNCHANGED vol
  BY OneKid DEF ReconcileInv
<1>1. PICK id \in Ids :
        /\ \A j \in Ids \ {id} : kids'[j] = kids[j]
        /\ Exists(kids[id]) /\ Exists(kids'[id]) =>
             kids'[id].vol = kids[id].vol /\ kids'[id].uid = kids[id].uid
  BY OneKid
<1>2. lives' = lives /\ names' = names
  BY <1>0 DEF lives, names
<1>3. \A w \in Volumes : /\ MadeFor(w)' \ {id} = MadeFor(w) \ {id}
                         /\ id \in MadeFor(w)' <=> /\ Exists(kids'[id]) /\ kids'[id].vol = w
                                                   /\ OwnerPresent(kids'[id])
                         /\ id \in MadeFor(w) <=> /\ Exists(kids[id]) /\ kids[id].vol = w
                                                  /\ OwnerPresent(kids[id])
  BY <1>0, <1>1 DEF MadeFor, OwnerPresent
<1>4. \A w \in Volumes : (id \in MadeFor(w)' <=> id \in MadeFor(w)) => MadeFor(w)' = MadeFor(w)
  BY <1>3, DifferInOne
<1>5. CASE ~Exists(kids[id]) /\ Exists(kids'[id])
  <2>1. PICK v \in Volumes : /\ v = kids'[id].vol /\ OwnerPresent(kids'[id])
                             /\ vol[v].fin /\ vol[v].ref = id[2]
    BY <1>5, CreationLawful
  <2>2. vol[v].st \in {"live", "deleting"} /\ id[2] \in Refs /\ id[1] \in Kinds
        /\ id = <<id[1], id[2]>>
    BY <1>0, <2>1 DEF OwnerPresent, TypeOK, VolumeObjects, Ids
  <2>3. lives[v] \in {"held", "leaving"} /\ names[v] = id[2] /\ names[v] # NoRef
    BY <2>1, <2>2, ConstantsAssumption DEF lives, names, Life, NameOf
  <2>4. /\ MadeFor(v)' = MadeFor(v) \cup {id}
        /\ \A w \in Volumes \ {v} : MadeFor(w)' = MadeFor(w)
    <3>1. id \in MadeFor(v)'
      BY <1>0, <1>3, <1>5, <2>1 DEF OwnerPresent
    <3>2. \A w \in Volumes \ {v} : id \notin MadeFor(w)' /\ id \notin MadeFor(w)
      BY <1>3, <1>5, <2>1
    <3>3. QED
      BY <1>3, <1>4, <3>1, <3>2, DifferInOne
  <2>5. mades' = [mades EXCEPT ![v] = @ \cup {<<id[1], names[v]>>}]
    BY <2>1, <2>2, <2>3, <2>4 DEF mades
  <2>6. Contract!Make(v)
    BY <1>2, <2>2, <2>3, <2>5 DEF Contract!Make
  <2>7. QED
    BY <2>1, <2>6 DEF Contract!Next
<1>6. CASE Exists(kids[id]) /\ ~Exists(kids'[id]) /\ OwnerPresent(kids[id])
  <2>1. PICK v \in Volumes : /\ v = kids[id].vol
                             /\ vol[v].st # "live" /\ vol[v].st # "gone"
    BY <1>0, <1>6, DeletionLawful DEF KidsOwned, OwnerPresent
  <2>2. vol[v].st = "deleting"
    BY <1>0, <2>1 DEF TypeOK, VolumeObjects
  <2>3. lives[v] = "leaving" /\ id \in mades[v]
    BY <1>3, <1>6, <2>1, <2>2 DEF lives, mades, Life
  <2>4. /\ MadeFor(v)' = MadeFor(v) \ {id}
        /\ \A w \in Volumes \ {v} : MadeFor(w)' = MadeFor(w)
    <3>1. \A w \in Volumes : id \notin MadeFor(w)'
      BY <1>3, <1>6
    <3>2. \A w \in Volumes \ {v} : id \notin MadeFor(w)
      BY <1>3, <2>1
    <3>3. QED
      BY <1>3, <1>4, <3>1, <3>2, DifferInOne
  <2>5. mades' = [mades EXCEPT ![v] = @ \ {id}]
    BY <2>1, <2>4 DEF mades
  <2>6. Contract!Unmake(v)
    BY <1>2, <2>3, <2>5 DEF Contract!Unmake
  <2>7. QED
    BY <2>1, <2>6 DEF Contract!Next
<1>7. CASE \A w \in Volumes : id \in MadeFor(w)' <=> id \in MadeFor(w)
  BY <1>2, <1>4, <1>7 DEF mades, mapped
<1>8. CASE Exists(kids[id]) /\ Exists(kids'[id])
  <2>1. \A w \in Volumes : id \in MadeFor(w)' <=> id \in MadeFor(w)
    BY <1>0, <1>1, <1>3, <1>8 DEF OwnerPresent
  <2>2. QED
    BY <1>7, <2>1
<1>9. CASE ~Exists(kids'[id]) /\ (Exists(kids[id]) => ~OwnerPresent(kids[id]))
  BY <1>3, <1>7, <1>9
<1>10. QED
  BY <1>5, <1>6, <1>8, <1>9

---------------------------------------------------------------------------

\* Every step of the reconcile loop, of its users and of the cluster is a step of the
\* contract, or nothing to it.
LEMMA StepMaps ==
  ASSUME ReconcileInv, ReconcileInv', [Next]_vars
  PROVE  [Contract!Next]_mapped
<1>0. TypeOK /\ TypeOK' /\ KidsOwned
  BY DEF ReconcileInv
<1>1. CASE UNCHANGED kids /\ OneMoves
  BY <1>0, <1>1, MoveMaps
<1>2. CASE UNCHANGED kids /\ UNCHANGED vol
  BY <1>2 DEF mapped, lives, names, mades, MadeFor, OwnerPresent
<1>3. UNCHANGED vol \/ OneMoves
  <2>1. CASE \E v \in Volumes : Worker(v)
    BY <2>1, WorkerMoves
  <2>2. CASE Users
    BY <2>2, UserMoves DEF Users
  <2>3. CASE Informers \/ Cluster \/ Crash \/ UNCHANGED vars
    BY <2>3 DEF Informers, Deliver, DeliverKid, Cluster, BecomeReady, BecomeUnready,
                GarbageCollect, Crash, vars, apiVars
  <2>4. QED
    BY <2>1, <2>2, <2>3 DEF Next
<1>4. QED
  BY <1>1, <1>2, <1>3, KidMaps

\* There is no volume and no child at first.
LEMMA InitMaps == Init => Contract!Init
<1> SUFFICES ASSUME Init PROVE Contract!Init
  OBVIOUS
<1>1. \A v \in Volumes : Life(vol[v]) = "absent" /\ NameOf(vol[v]) = NoRef
  BY DEF Init, NoObject, Life, NameOf
<1>2. \A v \in Volumes : MadeFor(v) = {}
  BY DEF Init, MadeFor, Exists, NoKid
<1>3. QED
  BY <1>1, <1>2 DEF Contract!Init, lives, names, mades

\* The reconcile loop implements its contract: with any number of volumes and reference
\* values, any caches, conflicts, failures and crashes, a child is made only under the
\* stored value of a volume that is held, and taken away only from one that is leaving.
THEOREM ReconcilerImplementsContract == Spec => Implements
<1>1. ReconcileInv /\ ReconcileInv' /\ [Next]_vars => [Contract!Next]_(Contract!contractVars)
  BY StepMaps DEF mapped, Contract!contractVars
<1>2. QED
  BY <1>1, InitMaps, ReconcileInvariant, PTL DEF Spec, Implements, Contract!Spec
=============================================================================
