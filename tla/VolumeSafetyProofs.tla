------------------------ MODULE VolumeSafetyProofs ------------------------
(***************************************************************************)
(* ReconcileInv is an invariant of VolumeReconciler, and with it its       *)
(* safety properties.  A step is local to one volume or to one child: what *)
(* it does to that volume is proved action by action, the rest follows     *)
(* from the lemmas on versions below.                                      *)
(***************************************************************************)
EXTENDS VolumeTypeProofs

---------------------------------------------------------------------------
\* Versions

\* A version follows itself (an object nobody writes).
LEMMA FollowsReflexive ==
  ASSUME NEW c \in VolumeObjects
  PROVE  Follows(c, c)
  BY DEF Follows, VolumeObjects

\* Following composes: what holds from one write of an object to the next holds
\* over any number of them, as a lagging cache sees them.
LEMMA FollowsTransitive ==
  ASSUME NEW c \in VolumeObjects, NEW d \in VolumeObjects, NEW e \in VolumeObjects,
         Follows(d, c), Follows(e, d)
  PROVE  Follows(e, c)
<1>1. c.rv \in Nat /\ d.rv \in Nat /\ e.rv \in Nat
      /\ c.uid \in Nat /\ d.uid \in Nat /\ e.uid \in Nat
  BY DEF VolumeObjects
<1>2. c.rv <= e.rv /\ c.uid <= e.uid
  BY <1>1 DEF Follows
<1>3. c.rv = e.rv => c = e
  BY <1>1 DEF Follows
<1>4. ASSUME c.uid = e.uid
      PROVE  /\ c.st = "deleting" => e.st # "live"
             /\ c.st = "gone" => e.st = "gone"
             /\ c.fin => e.fin \/ e.st = "gone"
             /\ c.ref # NoRef => e.ref = c.ref
  <2>1. c.uid = d.uid /\ d.uid = e.uid
    BY <1>1, <1>4 DEF Follows
  <2>2. d.st \in {"live", "deleting", "gone"}
    BY DEF VolumeObjects
  <2>3. QED
    BY <2>1, <2>2 DEF Follows
<1>5. QED
  BY <1>2, <1>3, <1>4 DEF Follows

\* A write made from the current version follows it, if it changes what it may.
LEMMA WriteFollows ==
  ASSUME TypeOK, NEW v \in Volumes, NEW obj \in VolumeObjects, Write(v, obj),
         vol[v].uid <= obj.uid,
         vol[v].uid = obj.uid =>
           /\ vol[v].st = "deleting" => obj.st # "live"
           /\ vol[v].st = "gone" => obj.st = "gone"
           /\ vol[v].fin => obj.fin \/ obj.st = "gone"
           /\ vol[v].ref # NoRef => obj.ref = vol[v].ref
  PROVE  /\ vol'[v] = Versioned(v, obj)
         /\ vol'[v].uid = obj.uid /\ vol'[v].st = obj.st /\ vol'[v].fin = obj.fin
         /\ vol'[v].ref = obj.ref /\ vol'[v].rv = vol[v].rv + 1
         /\ watch'[v] = watch[v] \cup {vol'[v]}
         /\ Follows(vol'[v], vol[v])
<1>1. vol'[v] = Versioned(v, obj) /\ watch'[v] = watch[v] \cup {vol'[v]}
  BY DEF Write, TypeOK
<1>2. /\ vol'[v].uid = obj.uid /\ vol'[v].st = obj.st /\ vol'[v].fin = obj.fin
      /\ vol'[v].ref = obj.ref /\ vol'[v].rv = vol[v].rv + 1
  BY <1>1 DEF Versioned, VolumeObjects
<1>3. vol[v].rv \in Nat
  BY DEF TypeOK, VolumeObjects
<1>4. QED
  BY <1>1, <1>2, <1>3 DEF Follows

\* A copy with the current resourceVersion is the current object.
LEMMA CurrentCopy ==
  ASSUME TypeOK, NEW v \in Volumes, NEW c \in VolumeObjects, CopyOf(v, c), Current(v, c)
  PROVE  c = vol[v] /\ vol[v].st # "gone"
  BY DEF CopyOf, Current, Follows

---------------------------------------------------------------------------
\* What a step leaves alone

\* Nothing of volume w changes.
Still(w) ==
  /\ vol'[w] = vol[w] /\ watch'[w] = watch[w] /\ cache'[w] = cache[w]
  /\ pc'[w] = pc[w] /\ mem'[w] = mem[w] /\ latest'[w] = latest[w]

\* Reference values keep their owners.
ClaimsKept ==
  /\ uids <= uids'
  /\ \A r \in Refs : claim[r] # NoVolume => claim'[r] = claim[r]

\* A step of volume v.
StepOf(v) == ClaimsKept /\ \A w \in Volumes \ {v} : Still(w)

\* A copy whose reference value is claimed stays so: claims are only added.
LEMMA ClaimKept ==
  ASSUME NEW v \in Volumes, NEW c \in VolumeObjects, ClaimsKept, ClaimedBy(v, c)
  PROVE  c.ref # NoRef => claim'[c.ref] = v
<1>1. c.ref \in Refs \cup {NoRef}
  BY DEF VolumeObjects
<1>2. v # NoVolume
  BY ConstantsAssumption
<1>3. QED
  BY <1>1, <1>2 DEF ClaimsKept, ClaimedBy

\* What is stored of v stays well: vol' follows vol, and the rest is unchanged or a
\* delivery of it.
LEMMA StoreWrite ==
  ASSUME TypeOK, TypeOK', NEW v \in Volumes, StoreInv(v), ClaimsKept,
         Follows(vol'[v], vol[v]),
         watch'[v] = watch[v] \cup {vol'[v]},
         cache'[v] = cache[v],
         vol'[v].uid <= uids',
         vol'[v].fin => vol'[v].st # "gone" /\ vol'[v].uid = cache[v].uid,
         \A c \in watch[v] \cup {cache[v]} :
           c.st = "live" /\ c.fin => vol'[v].uid = c.uid /\ vol'[v].st # "gone",
         vol'[v].ref # NoRef => claim'[vol'[v].ref] = v
  PROVE  StoreInv(v)'
<1>0. /\ vol[v] \in VolumeObjects /\ vol'[v] \in VolumeObjects /\ cache[v] \in VolumeObjects
      /\ \A w \in watch[v] : w \in VolumeObjects
  BY DEF TypeOK
<1>1. VersionsFollow(v)'
  <2>1. Follows(vol'[v], cache[v])
    BY <1>0, FollowsTransitive DEF StoreInv, VersionsFollow
  <2>2. \A w \in watch[v] : Follows(vol'[v], w) /\ Follows(w, cache[v])
    BY <1>0, FollowsTransitive DEF StoreInv, VersionsFollow
  <2>3. Follows(vol'[v], vol'[v])
    BY <1>0, FollowsReflexive
  <2>4. ASSUME NEW w \in watch[v], vol'[v].rv <= w.rv
        PROVE  Follows(w, vol'[v])
    <3>1. w.rv <= vol'[v].rv /\ w.rv \in Nat /\ vol'[v].rv \in Nat
      BY <1>0, <2>2 DEF Follows, VolumeObjects
    <3>2. w.rv = vol'[v].rv
      BY <2>4, <3>1
    <3>3. QED
      BY <2>2, <2>3, <3>2 DEF Follows
  <2>5. \A w, x \in watch[v] : w.rv <= x.rv => Follows(x, w)
    BY DEF StoreInv, VersionsFollow
  <2>6. QED
    BY <2>1, <2>2, <2>3, <2>4, <2>5 DEF VersionsFollow
<1>2. FinalizerHeld(v)'
  BY DEF FinalizerHeld, Standing
<1>3. RefsClaimed(v)'
  <2>1. \A c \in watch[v] \cup {cache[v]} : c.ref # NoRef => claim'[c.ref] = v
    BY <1>0, ClaimKept DEF StoreInv, RefsClaimed
  <2>2. QED
    BY <2>1 DEF RefsClaimed, ClaimedBy
<1>4. QED
  BY <1>1, <1>2, <1>3 DEF StoreInv

\* A step that writes no version of v and delivers none leaves what is said of the
\* versions of v: the steps of its reconcile that only read, and those of other volumes.
LEMMA StoreStill ==
  ASSUME TypeOK, NEW v \in Volumes, StoreInv(v), ClaimsKept,
         TypeOK', vol'[v] = vol[v], watch'[v] = watch[v], cache'[v] = cache[v]
  PROVE  StoreInv(v)'
<1>0. /\ vol[v] \in VolumeObjects /\ cache[v] \in VolumeObjects
      /\ \A w \in watch[v] : w \in VolumeObjects
  BY DEF TypeOK
<1>1. VersionsFollow(v)'
  BY DEF StoreInv, VersionsFollow
<1>2. FinalizerHeld(v)'
  <2>1. vol[v].uid <= uids'
    <3>1. vol[v].uid \in Nat /\ uids \in Nat /\ uids' \in Nat
      BY <1>0, BoundTypes DEF TypeOK, VolumeObjects
    <3>2. QED
      BY <3>1 DEF StoreInv, FinalizerHeld, ClaimsKept
  <2>2. QED
    BY <2>1 DEF StoreInv, FinalizerHeld, Standing
<1>3. RefsClaimed(v)'
  <2>1. \A c \in watch[v] \cup {vol[v], cache[v]} : c.ref # NoRef => claim'[c.ref] = v
    BY <1>0, ClaimKept DEF StoreInv, RefsClaimed
  <2>2. QED
    BY <2>1 DEF RefsClaimed, ClaimedBy
<1>4. QED
  BY <1>1, <1>2, <1>3 DEF StoreInv

\* A reconcile that does not move knows what it knew.
LEMMA KnowsStill ==
  ASSUME TypeOK, TypeOK', NEW v \in Volumes, ReconcileKnows(v), ClaimsKept,
         pc'[v] = pc[v], mem'[v] = mem[v], latest'[v] = latest[v],
         Follows(vol'[v], vol[v]), Follows(cache'[v], cache[v]),
         vol[v].fin /\ vol[v].st # "gone" => vol'[v].uid = vol[v].uid /\ vol'[v].st # "gone",
         vol'[v].fin => vol[v].fin /\ vol'[v].uid = vol[v].uid
  PROVE  ReconcileKnows(v)'
<1>0. {vol[v], vol'[v], cache[v], cache'[v], mem[v], latest[v]} \subseteq VolumeObjects
  BY DEF TypeOK
<1>1. ASSUME NEW c \in VolumeObjects, CopyOf(v, c)
      PROVE  Follows(vol'[v], c) /\ (c.ref # NoRef => claim'[c.ref] = v)
  BY <1>0, <1>1, FollowsTransitive, ClaimKept DEF CopyOf
<1>2. ASSUME NEW c \in VolumeObjects, Follows(cache[v], c)
      PROVE  Follows(cache'[v], c)
  BY <1>0, <1>2, FollowsTransitive
<1>3. mem[v].uid <= cache[v].uid => mem[v].uid <= cache'[v].uid
  <2>1. mem[v].uid \in Nat /\ cache[v].uid \in Nat /\ cache'[v].uid \in Nat
    BY <1>0 DEF VolumeObjects
  <2>2. QED
    BY <2>1 DEF Follows
<1>4. ASSUME CopyOf(v, mem[v]), mem[v].fin, Standing(v, mem[v])
      PROVE  vol'[v].uid = mem[v].uid /\ vol'[v].st # "gone"
  BY <1>4 DEF CopyOf, Follows, Standing
<1>5. pc[v] # "idle" => (CopyOf(v, mem[v]) /\ mem[v].uid <= cache[v].uid)'
  BY <1>0, <1>1, <1>3 DEF ReconcileKnows, CopyOf, ClaimedBy
<1>6. pc[v] \in Writing => (CopyOf(v, latest[v]) /\ latest[v].st # "gone")'
  BY <1>0, <1>1 DEF ReconcileKnows, CopyOf, ClaimedBy
<1>7. pc[v] = "finalizer" => mem[v].st = "live" /\ (mem[v].fin => Standing(v, mem[v])')
  BY <1>4 DEF ReconcileKnows, Standing
<1>8. pc[v] \in Working => mem[v].st = "live" /\ mem[v].fin /\ Standing(v, mem[v])'
  BY <1>4 DEF ReconcileKnows, Standing, Working, Creating
<1>9. pc[v] \in Cleaning => Follows(cache'[v], mem[v]) /\ (vol'[v].fin => vol'[v].uid = mem[v].uid)
  BY <1>0, <1>2 DEF ReconcileKnows
<1>10. pc[v] = "writeRelease" => Follows(cache'[v], latest[v])
  BY <1>0, <1>2 DEF ReconcileKnows
<1>11. QED
  BY <1>5, <1>6, <1>7, <1>8, <1>9, <1>10 DEF ReconcileKnows

\* A reconcile that has returned holds no copy, so nothing is required of it.
LEMMA KnowsNothing ==
  ASSUME NEW v \in Volumes, pc'[v] = "idle"
  PROVE  ReconcileKnows(v)'
  BY DEF ReconcileKnows, Writing, Working, Creating, Deleting, Cleaning

\* Children are found as long as their volumes' versions follow one another.
LEMMA KidsStill ==
  ASSUME TypeOK, TypeOK', KidsOwned, KidsFindable, UNCHANGED kidVars,
         \A v \in Volumes : Follows(vol'[v], vol[v])
  PROVE  KidsOwned' /\ KidsFindable'
<1>1. ASSUME NEW id \in Ids, Exists(kids[id])
      PROVE  /\ kids[id].vol \in Volumes /\ kids[id].uid <= vol'[kids[id].vol].uid
             /\ OwnerPresent(kids[id])' =>
                  vol'[kids[id].vol].fin /\ vol'[kids[id].vol].ref = id[2]
  <2>1. kids[id].vol \in Volumes /\ kids[id].uid <= vol[kids[id].vol].uid
    BY <1>1 DEF KidsOwned
  <2> DEFINE v == kids[id].vol
  <2>2. kids[id].uid \in Nat /\ vol[v].uid \in Nat /\ vol'[v].uid \in Nat
    BY <2>1 DEF TypeOK, KidObjects, VolumeObjects
  <2>3. Follows(vol'[v], vol[v])
    BY <2>1
  <2>4. kids[id].uid <= vol'[v].uid
    BY <2>1, <2>2, <2>3 DEF Follows
  <2>5. ASSUME OwnerPresent(kids[id])'
        PROVE  vol'[v].fin /\ vol'[v].ref = id[2]
    <3>1. vol'[v].st # "gone" /\ vol'[v].uid = kids[id].uid
      BY <2>5 DEF OwnerPresent, kidVars
    <3>2. vol[v].uid = vol'[v].uid
      BY <2>1, <2>2, <2>3, <3>1 DEF Follows
    <3>3. OwnerPresent(kids[id])
      BY <2>3, <3>1, <3>2 DEF OwnerPresent, Follows
    <3>4. vol[v].fin /\ vol[v].ref = id[2]
      BY <1>1, <3>3 DEF KidsFindable
    <3>5. id[2] # NoRef
      BY ConstantsAssumption DEF Ids
    <3>6. QED
      BY <2>3, <3>1, <3>2, <3>4, <3>5 DEF Follows
  <2>6. QED
    BY <2>1, <2>4, <2>5
<1>2. KidsOwned'
  BY <1>1 DEF KidsOwned, kidVars
<1>3. KidsFindable'
  <2>1. ASSUME NEW id \in Ids, Exists(kids[id]), OwnerPresent(kids[id])'
        PROVE  vol'[kids[id].vol].fin /\ vol'[kids[id].vol].ref = id[2]
    BY <1>1, <2>1
  <2>2. QED
    BY <2>1 DEF KidsFindable, kidVars, OwnerPresent
<1>4. QED
  BY <1>2, <1>3

\* A child written for the volume that is stored with its reference value, or removed.
LEMMA KidWritten ==
  ASSUME TypeOK, TypeOK', KidsOwned, KidsFindable, UNCHANGED vol, UNCHANGED seen,
         NEW id \in Ids, NEW kid \in KidObjects, kids' = [kids EXCEPT ![id] = kid],
         Exists(kid) => /\ kid.vol \in Volumes /\ kid.uid <= vol[kid.vol].uid
                        /\ OwnerPresent(kid) => /\ vol[kid.vol].fin
                                                /\ vol[kid.vol].ref = id[2]
  PROVE  KidsOwned' /\ KidsFindable'
<1>1. kids'[id] = kid /\ \A i \in Ids \ {id} : kids'[i] = kids[i]
  BY DEF TypeOK
<1>2. KidsOwned'
  <2>1. ASSUME NEW i \in Ids, Exists(kids'[i])
        PROVE  kids'[i].vol \in Volumes /\ kids'[i].uid <= vol[kids'[i].vol].uid
    BY <1>1, <2>1 DEF KidsOwned
  <2>2. QED
    BY <2>1 DEF KidsOwned, Exists
<1>3. KidsFindable'
  <2>1. ASSUME NEW i \in Ids, Exists(kids'[i]), OwnerPresent(kids'[i])
        PROVE  vol[kids'[i].vol].fin /\ vol[kids'[i].vol].ref = i[2]
    BY <1>1, <2>1 DEF KidsFindable
  <2>2. QED
    BY <2>1 DEF KidsFindable, Exists, OwnerPresent
<1>4. QED
  BY <1>2, <1>3

---------------------------------------------------------------------------
\* From one volume to all

\* The frame of every step of the worker of v: the other volumes are not touched, so
\* only what v and the children it writes must satisfy is left to show.
LEMMA InvStep ==
  ASSUME ReconcileInv, TypeOK', NEW v \in Volumes, StepOf(v),
         StoreInv(v)', ReconcileKnows(v)', KidsOwned', KidsFindable'
  PROVE  ReconcileInv'
<1>1. ASSUME NEW w \in Volumes \ {v}
      PROVE  StoreInv(w)' /\ ReconcileKnows(w)'
  <2>1. StoreInv(w) /\ ReconcileKnows(w) /\ TypeOK /\ ClaimsKept /\ Still(w)
    BY DEF ReconcileInv, StepOf
  <2>2. Follows(vol'[w], vol[w]) /\ Follows(cache'[w], cache[w])
    BY <2>1, FollowsReflexive DEF Still, TypeOK
  <2>3. StoreInv(w)'
    BY <2>1, StoreStill DEF Still
  <2>4. vol'[w].fin => vol'[w].uid = vol[w].uid /\ vol'[w].st # "gone"
    BY <2>1 DEF Still, StoreInv, FinalizerHeld
  <2>5. ReconcileKnows(w)'
    BY <2>1, <2>2, <2>4, KnowsStill DEF Still
  <2>6. QED
    BY <2>3, <2>5
<1>2. QED
  BY <1>1 DEF ReconcileInv

\* A step of the worker that writes neither the volume nor a child.
LEMMA LocalStep ==
  ASSUME ReconcileInv, TypeOK', NEW v \in Volumes, StepOf(v),
         UNCHANGED <<apiVars, cache, kidVars>>, ReconcileKnows(v)'
  PROVE  ReconcileInv'
<1>1. StoreInv(v)'
  BY StoreStill DEF ReconcileInv, apiVars, StepOf
<1>2. \A w \in Volumes : Follows(vol'[w], vol[w])
  BY FollowsReflexive DEF ReconcileInv, apiVars, TypeOK
<1>3. KidsOwned' /\ KidsFindable'
  BY <1>2, KidsStill DEF ReconcileInv
<1>4. QED
  BY <1>1, <1>3, InvStep

\* A step of the worker that writes a child.
LEMMA KidStep ==
  ASSUME ReconcileInv, TypeOK', NEW v \in Volumes, StepOf(v),
         UNCHANGED <<apiVars, cache>>, ReconcileKnows(v)', KidsOwned', KidsFindable'
  PROVE  ReconcileInv'
<1>1. StoreInv(v)'
  BY StoreStill DEF ReconcileInv, apiVars, StepOf
<1>2. QED
  BY <1>1, InvStep

\* What Return and Goto do to the copies.
LEMMA ForgetMoves ==
  ASSUME TypeOK, NEW v \in Volumes, Forget(v)
  PROVE  /\ pc'[v] = "idle"
         /\ \A w \in Volumes \ {v} : pc'[w] = pc[w] /\ mem'[w] = mem[w] /\ latest'[w] = latest[w]
  BY DEF TypeOK, Forget

\* Moving on to the next statement changes the program counter of v alone.
LEMMA GotoMoves ==
  ASSUME TypeOK, NEW v \in Volumes, NEW label, Goto(v, label)
  PROVE  /\ pc'[v] = label /\ latest'[v] = latest[v]
         /\ \A w \in Volumes \ {v} : pc'[w] = pc[w] /\ latest'[w] = latest[w]
  BY DEF TypeOK, Goto

\* A reconcile that ends, having written nothing.
LEMMA ReturnStep ==
  ASSUME ReconcileInv, TypeOK', NEW v \in Volumes, Forget(v), ClaimsKept,
         UNCHANGED <<apiVars, cache, kidVars>>
  PROVE  ReconcileInv'
<1>1. StepOf(v)
  BY ForgetMoves DEF StepOf, Still, apiVars, ReconcileInv
<1>2. ReconcileKnows(v)'
  BY ForgetMoves, KnowsNothing DEF ReconcileInv
<1>3. QED
  BY <1>1, <1>2, LocalStep

\* A reconcile that goes on to label, whose requirements its copy meets.
LEMMA GotoStep ==
  ASSUME ReconcileInv, TypeOK', NEW v \in Volumes, NEW label,
         pc' = [pc EXCEPT ![v] = label], UNCHANGED <<mem, latest>>, ClaimsKept,
         UNCHANGED <<apiVars, cache, kidVars>>, pc[v] # "idle",
         label \notin Writing /\ label # "finalizer",
         label \in Working => mem[v].st = "live" /\ mem[v].fin /\ Standing(v, mem[v]),
         label \in Creating \cup Deleting => mem[v].ref # NoRef,
         label = "assignRef" => mem[v].ref = NoRef,
         label \in Cleaning => pc[v] \in Cleaning
  PROVE  ReconcileInv'
<1>1. StepOf(v)
  BY DEF StepOf, Still, apiVars, ReconcileInv, TypeOK
<1>2. ReconcileKnows(v)'
  <2>1. ReconcileKnows(v) /\ TypeOK
    BY DEF ReconcileInv
  <2>2. pc'[v] = label
    BY <2>1 DEF TypeOK
  <2>3. ASSUME NEW c \in VolumeObjects, CopyOf(v, c)
        PROVE  CopyOf(v, c)'
    BY <2>1, <2>3, ClaimKept DEF CopyOf, ClaimedBy, apiVars
  <2>4. CopyOf(v, mem[v])' /\ (mem[v].uid <= cache[v].uid)'
    BY <2>1, <2>3, CopyTypes DEF ReconcileKnows, CopyOf, ClaimedBy, apiVars
  <2>5. label \in Working => (mem[v].st = "live" /\ mem[v].fin /\ Standing(v, mem[v]))'
    BY DEF Standing, apiVars
  <2>6. label \in Cleaning =>
          (/\ mem[v].st = "deleting" /\ mem[v].fin
           /\ Follows(cache[v], mem[v])
           /\ vol[v].fin => vol[v].uid = mem[v].uid)'
    BY <2>1 DEF ReconcileKnows, apiVars
  <2>7. QED
    BY <2>2, <2>4, <2>5, <2>6 DEF ReconcileKnows, Writing
<1>3. QED
  BY <1>1, <1>2, LocalStep

---------------------------------------------------------------------------
\* The worker, up to the children

\* ReconcileGeneric starts from the cached version, which the stored one follows.
LEMMA FetchSafe ==
  ASSUME ReconcileInv, NEW v \in Volumes, Fetch(v)
  PROVE  ReconcileInv'
<1>0. TypeOK /\ TypeOK' /\ StoreInv(v)
  BY FetchType DEF ReconcileInv
<1>1. ClaimsKept
  BY <1>0, BoundTypes DEF Fetch, boundVars, ClaimsKept, TypeOK
<1>2. CASE UNCHANGED workerVars
  <2>1. StepOf(v)
    BY <1>1, <1>2 DEF Fetch, StepOf, Still, apiVars, workerVars
  <2>2. ReconcileKnows(v)'
    BY <1>2, KnowsNothing DEF Fetch, workerVars
  <2>3. QED
    BY <1>0, <2>1, <2>2, LocalStep DEF Fetch
<1>3. ASSUME NEW label, Goto(v, label), mem' = [mem EXCEPT ![v] = cache[v]],
             \/ label = "finalizer" /\ cache[v].st = "live"
             \/ label = "stopSync" /\ cache[v].st = "deleting" /\ cache[v].fin
      PROVE  ReconcileInv'
  <2>1. mem'[v] = cache[v] /\ \A w \in Volumes \ {v} : mem'[w] = mem[w]
    BY <1>0, <1>3 DEF TypeOK
  <2>2. StepOf(v)
    BY <1>0, <1>1, <1>3, <2>1, GotoMoves DEF Fetch, StepOf, Still, apiVars
  <2>3. pc'[v] = label
    BY <1>0, <1>3, GotoMoves
  <2>4. CopyOf(v, cache[v]) /\ Follows(cache[v], cache[v]) /\ cache[v].uid <= cache[v].uid
    <3>1. cache[v] \in VolumeObjects
      BY <1>0 DEF TypeOK
    <3>2. QED
      BY <1>0, <3>1, FollowsReflexive
         DEF StoreInv, VersionsFollow, RefsClaimed, CopyOf, VolumeObjects
  <2>5. cache[v].st = "live" /\ cache[v].fin => Standing(v, cache[v])
    BY <1>0 DEF StoreInv, FinalizerHeld
  <2>6. vol[v].fin => vol[v].uid = cache[v].uid
    BY <1>0 DEF StoreInv, FinalizerHeld
  <2>7. UNCHANGED <<vol, cache, claim>>
    BY DEF Fetch, apiVars
  <2>8. ReconcileKnows(v)'
    BY <1>3, <2>1, <2>3, <2>4, <2>5, <2>6, <2>7
       DEF ReconcileKnows, CopyOf, ClaimedBy, Standing, Writing, Working, Creating, Deleting,
           Cleaning
  <2>9. QED
    BY <1>0, <2>2, <2>8, LocalStep DEF Fetch
<1>4. QED
  BY <1>2, <1>3 DEF Fetch

\* A refused or failed r.Update ends the reconcile and writes nothing.
LEMMA UpdateErrorSafe ==
  ASSUME ReconcileInv, NEW v \in Volumes, UpdateError(v), UNCHANGED <<cache, kidVars, armed>>
  PROVE  ReconcileInv'
<1>1. TypeOK'
  BY UpdateErrorType DEF ReconcileInv
<1>2. ClaimsKept
  BY BoundTypes DEF UpdateError, ClaimsKept, ReconcileInv, TypeOK
<1>3. QED
  BY <1>1, <1>2, ReturnStep DEF UpdateError, Return

\* A write of the reconciler from a current copy, which keeps the object and goes on
\* with the new version or ends.
LEMMA StoreStep ==
  ASSUME ReconcileInv, TypeOK', NEW v \in Volumes, NEW obj \in VolumeObjects,
         StepOf(v), Write(v, obj), UNCHANGED <<cache, kidVars>>,
         vol[v].st # "gone", vol[v].uid = cache[v].uid,
         obj.uid = vol[v].uid, obj.st = vol[v].st, vol[v].fin => obj.fin,
         vol[v].ref # NoRef => obj.ref = vol[v].ref,
         obj.ref # NoRef => claim'[obj.ref] = v,
         ReconcileKnows(v)'
  PROVE  ReconcileInv'
<1>0. TypeOK /\ StoreInv(v) /\ ClaimsKept
  BY DEF ReconcileInv, StepOf
<1>1. /\ vol'[v].uid = obj.uid /\ vol'[v].st = obj.st /\ vol'[v].fin = obj.fin
      /\ vol'[v].ref = obj.ref
      /\ watch'[v] = watch[v] \cup {vol'[v]}
      /\ Follows(vol'[v], vol[v])
  <2>1. vol[v].uid <= obj.uid
    BY <1>0 DEF TypeOK, VolumeObjects
  <2>2. QED
    BY <1>0, <2>1, WriteFollows
<1>2. vol'[v].uid <= uids'
  <2>1. vol[v].uid \in Nat /\ uids \in Nat /\ uids' \in Nat
    BY <1>0, BoundTypes DEF TypeOK, VolumeObjects
  <2>2. QED
    BY <1>0, <1>1, <2>1 DEF StoreInv, FinalizerHeld, ClaimsKept
<1>3. StoreInv(v)'
  <2>1. \A c \in watch[v] \cup {cache[v]} :
          c.st = "live" /\ c.fin => vol'[v].uid = c.uid /\ vol'[v].st # "gone"
    BY <1>0, <1>1 DEF StoreInv, FinalizerHeld, Standing
  <2>2. QED
    BY <1>0, <1>1, <1>2, <2>1, StoreWrite
<1>4. \A w \in Volumes : Follows(vol'[w], vol[w])
  BY <1>0, <1>1, FollowsReflexive DEF StepOf, Still, TypeOK
<1>5. KidsOwned' /\ KidsFindable'
  BY <1>4, KidsStill DEF ReconcileInv
<1>6. QED
  BY <1>3, <1>5, InvStep

\* The same, when the reconcile goes on with what it stored.
LEMMA UpdateStep ==
  ASSUME ReconcileInv, TypeOK', NEW v \in Volumes, NEW obj \in VolumeObjects,
         NEW label \in {"nfs", "createNfs"}, Update(v, obj, label),
         ClaimsKept, UNCHANGED <<cache, kidVars>>,
         pc[v] # "idle", mem[v].st = "live",
         obj.uid = mem[v].uid, obj.st = mem[v].st, obj.fin,
         mem[v].ref # NoRef => obj.ref = mem[v].ref,
         obj.ref # NoRef => claim'[obj.ref] = v,
         label = "createNfs" => obj.ref # NoRef
  PROVE  ReconcileInv'
<1>0. TypeOK /\ StoreInv(v) /\ ReconcileKnows(v)
  BY DEF ReconcileInv
<1>1. mem[v] = vol[v] /\ vol[v].st # "gone"
  BY <1>0, CopyTypes, CurrentCopy DEF Update, ReconcileKnows
<1>2. vol[v].uid = cache[v].uid
  <2>1. cache[v].uid <= vol[v].uid /\ vol[v].uid <= cache[v].uid
    BY <1>0, <1>1 DEF StoreInv, VersionsFollow, Follows, ReconcileKnows
  <2>2. cache[v].uid \in Nat /\ vol[v].uid \in Nat
    BY <1>0 DEF TypeOK, VolumeObjects
  <2>3. QED
    BY <2>1, <2>2
<1>3. /\ vol'[v] = Versioned(v, obj)
      /\ vol'[v].uid = obj.uid /\ vol'[v].st = obj.st /\ vol'[v].fin = obj.fin
      /\ vol'[v].ref = obj.ref
  <2>1. vol[v].uid \in Nat
    BY <1>0 DEF TypeOK, VolumeObjects
  <2>2. vol[v].uid <= obj.uid
    BY <1>1, <2>1
  <2>3. /\ vol[v].st = "live" /\ obj.st = "live" /\ Write(v, obj)
        /\ vol[v].ref # NoRef => obj.ref = vol[v].ref
    BY <1>1 DEF Update
  <2>4. QED
    BY <1>0, <2>2, <2>3, WriteFollows
<1>4. mem'[v] = vol'[v] /\ pc'[v] = label /\ latest'[v] = latest[v]
  BY <1>0, <1>3, GotoMoves DEF Update, TypeOK
<1>5. StepOf(v)
  BY <1>0, GotoMoves DEF Update, Write, StepOf, Still, TypeOK
<1>6. ReconcileKnows(v)'
  <2>1. Follows(vol'[v], vol'[v])
    BY FollowsReflexive DEF TypeOK
  <2>2. mem'[v].uid <= cache'[v].uid
    BY <1>0, <1>1, <1>2, <1>3, <1>4 DEF TypeOK, VolumeObjects
  <2>3. QED
    BY <1>1, <1>3, <1>4, <2>1, <2>2
       DEF ReconcileKnows, CopyOf, ClaimedBy, Standing, Writing, Working, Creating, Deleting,
           Cleaning
<1>7. QED
  BY <1>1, <1>2, <1>5, <1>6, StoreStep DEF Update

\* ensureFinalizer sets the finalizer only on the version it read: an object that
\* was deleted or replaced meanwhile has moved on and the update conflicts.
LEMMA EnsureFinalizerSafe ==
  ASSUME ReconcileInv, NEW v \in Volumes, EnsureFinalizer(v)
  PROVE  ReconcileInv'
<1>0. TypeOK /\ TypeOK' /\ StoreInv(v) /\ ReconcileKnows(v) /\ mem[v] \in VolumeObjects
  BY EnsureFinalizerType DEF ReconcileInv, TypeOK
<1>1. CASE /\ mem[v].fin /\ Goto(v, "nfs")
           /\ UNCHANGED <<apiVars, mem, queued, claim, boundVars>>
  <2>1. ClaimsKept
    BY <1>0, <1>1, BoundTypes DEF boundVars, ClaimsKept, TypeOK
  <2>2. pc[v] # "idle" /\ mem[v].st = "live" /\ Standing(v, mem[v])
    BY <1>0, <1>1 DEF EnsureFinalizer, ReconcileKnows
  <2>3. UNCHANGED <<mem, latest, apiVars, cache, kidVars>> /\ pc' = [pc EXCEPT ![v] = "nfs"]
    BY <1>1 DEF EnsureFinalizer, Goto
  <2>4. "nfs" \notin Writing /\ "nfs" \notin Creating \cup Deleting /\ "nfs" \notin Cleaning
    BY DEF Writing, Creating, Deleting, Cleaning
  <2>5. QED
    BY <1>0, <1>1, <2>1, <2>2, <2>3, <2>4, GotoStep
<1>2. CASE /\ Update(v, [mem[v] EXCEPT !.fin = TRUE], "nfs")
           /\ UNCHANGED <<queued, claim, boundVars>>
  <2> DEFINE obj == [mem[v] EXCEPT !.fin = TRUE]
  <2>1. /\ obj \in VolumeObjects /\ obj.uid = mem[v].uid /\ obj.st = mem[v].st /\ obj.fin
        /\ obj.ref = mem[v].ref
    BY <1>0, EditTypes DEF VolumeObjects
  <2>2. ClaimsKept
    BY <1>0, <1>2, BoundTypes DEF boundVars, ClaimsKept, TypeOK
  <2>3. obj.ref # NoRef => claim'[obj.ref] = v
    BY <1>0, <1>2, <2>1 DEF EnsureFinalizer, ReconcileKnows, CopyOf, ClaimedBy
  <2>4. mem[v].st = "live" /\ pc[v] # "idle"
    BY <1>0 DEF EnsureFinalizer, ReconcileKnows
  <2> HIDE DEF obj
  <2>5. Update(v, obj, "nfs") /\ UNCHANGED <<cache, kidVars>>
    BY <1>2 DEF EnsureFinalizer, obj
  <2>6. QED
    BY <1>0, <2>1, <2>2, <2>3, <2>4, <2>5, UpdateStep
<1>3. CASE UpdateError(v)
  BY <1>3, UpdateErrorSafe DEF EnsureFinalizer
<1>4. QED
  BY <1>1, <1>2, <1>3 DEF EnsureFinalizer

\* GenerateAndCreateNfsServer stores a reference value only over an empty one, and
\* the value is the volume's own from then on.
LEMMA GenerateNfsServerSafe ==
  ASSUME ReconcileInv, NEW v \in Volumes, GenerateNfsServer(v)
  PROVE  ReconcileInv'
<1>0. TypeOK /\ TypeOK' /\ StoreInv(v) /\ ReconcileKnows(v) /\ mem[v] \in VolumeObjects
  BY GenerateNfsServerType DEF ReconcileInv, TypeOK
<1>1. ASSUME NEW r \in RefChoices(v),
             Update(v, [mem[v] EXCEPT !.ref = r, !.nfs = "managed"], "createNfs"),
             claim' = [claim EXCEPT ![r] = IF @ = NoVolume THEN v ELSE @],
             UNCHANGED <<queued, boundVars>>
      PROVE  ReconcileInv'
  <2> DEFINE obj == [mem[v] EXCEPT !.ref = r, !.nfs = "managed"]
  <2>0. mem[v].st = "live" /\ mem[v].fin /\ pc[v] # "idle" /\ CopyOf(v, mem[v])
    BY <1>0 DEF GenerateNfsServer, ReconcileKnows, Working
  <2>1. /\ r \in Refs /\ (mem[v].ref # NoRef => r = mem[v].ref)
        /\ claim[r] = NoVolume \/ claim[r] = v
    BY <1>0, <2>0 DEF RefChoices, FreshRefs, CopyOf, ClaimedBy, VolumeObjects
  <2>2. /\ obj \in VolumeObjects /\ obj.uid = mem[v].uid /\ obj.st = mem[v].st /\ obj.fin
        /\ obj.ref = r
    <3>1. obj \in VolumeObjects
      BY <1>0, <2>1, EditTypes
    <3>2. obj.uid = mem[v].uid /\ obj.st = mem[v].st /\ obj.fin = mem[v].fin /\ obj.ref = r
      BY <1>0 DEF VolumeObjects
    <3>3. QED
      BY <2>0, <3>1, <3>2
  <2>3. ClaimsKept /\ claim'[r] = v
    BY <1>0, <1>1, <2>1, BoundTypes DEF boundVars, ClaimsKept, TypeOK
  <2>4. r # NoRef
    BY <2>1, ConstantsAssumption
  <2> HIDE DEF obj
  <2>5. Update(v, obj, "createNfs") /\ UNCHANGED <<cache, kidVars>>
    BY <1>1 DEF GenerateNfsServer, obj
  <2>6. QED
    BY <1>0, <2>0, <2>1, <2>2, <2>3, <2>4, <2>5, UpdateStep
<1>2. CASE UpdateError(v)
  BY <1>2, UpdateErrorSafe DEF GenerateNfsServer
<1>3. QED
  BY <1>1, <1>2 DEF GenerateNfsServer

\* ReconcileNfsServer reads and waits; it writes nothing.
LEMMA CheckNfsServerSafe ==
  ASSUME ReconcileInv, NEW v \in Volumes, CheckNfsServer(v)
  PROVE  ReconcileInv'
<1>0. TypeOK /\ TypeOK' /\ ReconcileKnows(v)
  BY CheckNfsServerType DEF ReconcileInv
<1>1. ClaimsKept
  BY <1>0, BoundTypes DEF CheckNfsServer, boundVars, ClaimsKept, TypeOK
<1>2. CASE NfsReady(v)
  <2>1. PICK label \in {"assignRef", "pv"} :
          /\ Goto(v, label)
          /\ label = "assignRef" <=> mem[v].ref = NoRef
    BY <1>2 DEF CheckNfsServer
  <2>2. QED
    BY <1>0, <1>1, <1>2, <2>1, GotoStep
       DEF CheckNfsServer, Goto, ReconcileKnows, Working, Writing, Creating, Deleting, Cleaning
<1>3. CASE ~NfsReady(v)
  BY <1>0, <1>1, <1>3, ReturnStep DEF CheckNfsServer, Return
<1>4. QED
  BY <1>2, <1>3

\* ReconcileNfsServerComplete assigns a value only where none is stored.
LEMMA AssignRefSafe ==
  ASSUME ReconcileInv, NEW v \in Volumes, AssignRef(v)
  PROVE  ReconcileInv'
<1>0. TypeOK /\ TypeOK' /\ StoreInv(v) /\ ReconcileKnows(v) /\ mem[v] \in VolumeObjects
  BY AssignRefType DEF ReconcileInv, TypeOK
<1>1. ASSUME NEW r \in FreshRefs, Current(v, mem[v]),
             Write(v, [mem[v] EXCEPT !.ref = r]), claim' = [claim EXCEPT ![r] = v],
             Return(v, TRUE), UNCHANGED boundVars
      PROVE  ReconcileInv'
  <2> DEFINE obj == [mem[v] EXCEPT !.ref = r]
  <2>0. /\ mem[v].ref = NoRef /\ mem[v].uid <= cache[v].uid /\ CopyOf(v, mem[v])
        /\ r \in Refs /\ claim[r] = NoVolume
    BY DEF AssignRef, ReconcileKnows, FreshRefs, ReconcileInv
  <2>1. mem[v] = vol[v] /\ vol[v].st # "gone"
    BY <1>0, <1>1, <2>0, CurrentCopy
  <2>2. vol[v].uid = cache[v].uid
    <3>1. cache[v].uid <= vol[v].uid /\ vol[v].uid <= cache[v].uid
      BY <1>0, <2>0, <2>1 DEF StoreInv, VersionsFollow, Follows
    <3>2. cache[v].uid \in Nat /\ vol[v].uid \in Nat
      BY <1>0 DEF TypeOK, VolumeObjects
    <3>3. QED
      BY <3>1, <3>2
  <2>3. /\ obj \in VolumeObjects /\ obj.uid = mem[v].uid /\ obj.st = mem[v].st
        /\ obj.fin = mem[v].fin /\ obj.ref = r
    <3>1. obj \in VolumeObjects
      BY <1>0, <2>0, EditTypes
    <3>2. obj.uid = mem[v].uid /\ obj.st = mem[v].st /\ obj.fin = mem[v].fin /\ obj.ref = r
      BY <1>0 DEF VolumeObjects
    <3>3. QED
      BY <3>1, <3>2
  <2>4. ClaimsKept /\ claim'[r] = v
    BY <1>0, <1>1, <2>0, BoundTypes DEF boundVars, ClaimsKept, TypeOK
  <2> HIDE DEF obj
  <2>5. Write(v, obj) /\ UNCHANGED <<cache, kidVars>>
    BY <1>1 DEF AssignRef, obj
  <2>6. StepOf(v)
    BY <1>0, <1>1, <2>4, <2>5, ForgetMoves DEF Return, Write, StepOf, Still, TypeOK
  <2>7. ReconcileKnows(v)'
    BY <1>0, <1>1, ForgetMoves, KnowsNothing DEF Return
  <2>8. QED
    BY <1>0, <2>0, <2>1, <2>2, <2>3, <2>4, <2>5, <2>6, <2>7, StoreStep
<1>2. CASE UpdateError(v)
  BY <1>2, UpdateErrorSafe DEF AssignRef
<1>3. QED
  BY <1>1, <1>2 DEF AssignRef

---------------------------------------------------------------------------
\* The worker, from the children to the status

\* A refused or failed Create ends the reconcile and creates nothing.
LEMMA CreateErrorSafe ==
  ASSUME ReconcileInv, NEW v \in Volumes, NEW id, CreateError(v, id),
         UNCHANGED <<apiVars, cache, claim, armed>>
  PROVE  ReconcileInv'
<1>1. TypeOK'
  BY CreateErrorType DEF ReconcileInv
<1>2. ClaimsKept
  BY BoundTypes DEF CreateError, ClaimsKept, ReconcileInv, TypeOK
<1>3. QED
  BY <1>1, <1>2, ReturnStep DEF CreateError, Return

\* A new child belongs to the object that is stored.
LEMMA NewKidWritten ==
  ASSUME ReconcileInv, TypeOK', NEW v \in Volumes, NEW kind \in Kinds, NEW requeue,
         pc[v] \in Creating, UNCHANGED vol,
         WriteKid(<<kind, mem[v].ref>>, NewKid(v, kind), v, requeue)
  PROVE  KidsOwned' /\ KidsFindable'
<1> DEFINE id == <<kind, mem[v].ref>>
           kid == NewKid(v, kind)
<1>0. TypeOK /\ KidsOwned /\ KidsFindable /\ ReconcileKnows(v)
  BY DEF ReconcileInv
<1>1. /\ mem[v].fin /\ Standing(v, mem[v]) /\ mem[v].ref # NoRef
      /\ Follows(vol[v], mem[v])
  BY <1>0 DEF ReconcileKnows, CopyOf, Working, Creating
<1>2. mem[v] \in VolumeObjects /\ vol[v] \in VolumeObjects
  BY <1>0 DEF TypeOK
<1>3. id \in Ids
  BY <1>1, <1>2, IdType DEF VolumeObjects
<1>4. kid.vol = v /\ kid.uid = mem[v].uid
  BY DEF NewKid
<1>5. kid.uid <= vol[v].uid
  BY <1>1, <1>4 DEF Follows
<1>6. vol[v].fin /\ vol[v].ref = id[2]
  BY <1>1 DEF Follows, Standing
<1>7. kid \in KidObjects
  BY <1>0, NewKidType
<1> HIDE DEF id, kid
<1>8. kids' = [kids EXCEPT ![id] = kid] /\ UNCHANGED seen
  BY DEF WriteKid, id, kid
<1>9. QED
  BY <1>0, <1>3, <1>4, <1>5, <1>6, <1>7, <1>8, KidWritten

\* CreateAndOwnNfsServer runs when the value in the name is stored already.
LEMMA CreateNfsServerSafe ==
  ASSUME ReconcileInv, NEW v \in Volumes, CreateNfsServer(v)
  PROVE  ReconcileInv'
<1> DEFINE id == <<"nfs", mem[v].ref>>
<1>0. TypeOK /\ ReconcileKnows(v)
  BY DEF ReconcileInv
<1>1. mem[v].ref # NoRef /\ pc[v] \in Creating
  BY <1>0 DEF CreateNfsServer, ReconcileKnows, Creating
<1>2. TypeOK'
  BY <1>0, <1>1, CreateNfsServerType
<1>3. CASE Return(v, TRUE) /\ UNCHANGED <<kidVars, boundVars>>
  <2>1. ClaimsKept
    BY <1>0, <1>3, BoundTypes DEF CreateNfsServer, ClaimsKept, boundVars, TypeOK
  <2>2. QED
    BY <1>2, <1>3, <2>1, ReturnStep DEF CreateNfsServer, Return
<1>4. CASE WriteKid(id, NewKid(v, "nfs"), v, TRUE) /\ Forget(v) /\ UNCHANGED boundVars
  <2>1. StepOf(v)
    BY <1>0, <1>4, BoundTypes, ForgetMoves
       DEF CreateNfsServer, StepOf, Still, ClaimsKept, boundVars, TypeOK, apiVars
  <2>2. KidsOwned' /\ KidsFindable'
    BY <1>1, <1>2, <1>4, NewKidWritten DEF CreateNfsServer, apiVars, Kinds
  <2>3. ReconcileKnows(v)'
    BY <1>0, <1>4, ForgetMoves, KnowsNothing
  <2>4. QED
    BY <1>2, <2>1, <2>2, <2>3, KidStep DEF CreateNfsServer
<1>5. CASE CreateError(v, id)
  BY <1>5, CreateErrorSafe DEF CreateNfsServer
<1>6. QED
  BY <1>3, <1>4, <1>5 DEF CreateNfsServer

\* ReconcileRequiredResources creates children of a volume that exists, holds its
\* finalizer and has the value stored, whatever its cached copy left out.
LEMMA EnsureKidSafe ==
  ASSUME ReconcileInv, NEW v \in Volumes, NEW kind \in Kinds \ {"nfs"}, EnsureKid(v, kind)
  PROVE  ReconcileInv'
<1> DEFINE id == <<kind, mem[v].ref>>
<1>0. TypeOK /\ ReconcileKnows(v)
  BY DEF ReconcileInv
<1>1. mem[v].ref # NoRef /\ pc[v] \in Creating /\ pc[v] # "idle" /\ pc[v] \in Working
  BY <1>0 DEF EnsureKid, ReconcileKnows, Creating, Working, Kinds
<1>2. TypeOK'
  BY <1>0, <1>1, EnsureKidType
<1>3. PICK label : label = NextLabel[kind] /\ label \in {"pvc", "rs", "svc", "sync"}
  BY DEF NextLabel, Kinds
<1>4. /\ label \notin Writing /\ label # "finalizer" /\ label # "assignRef"
      /\ label \notin Cleaning /\ label # "idle" /\ label # "writeRelease"
  BY <1>3 DEF Writing, Cleaning, Deleting
<1>5. mem[v].st = "live" /\ mem[v].fin /\ Standing(v, mem[v])
  BY <1>0, <1>1 DEF ReconcileKnows
<1>6. CASE Goto(v, label) /\ UNCHANGED <<mem, kidVars, queued, boundVars>>
  <2>1. ClaimsKept
    BY <1>0, <1>6, BoundTypes DEF EnsureKid, ClaimsKept, boundVars, TypeOK
  <2>2. QED
    BY <1>1, <1>2, <1>4, <1>5, <1>6, <2>1, GotoStep DEF EnsureKid, Goto
<1>7. CASE /\ WriteKid(id, NewKid(v, kind), v, FALSE)
           /\ Goto(v, label) /\ UNCHANGED <<mem, boundVars>>
  <2>1. StepOf(v)
    BY <1>0, <1>7, BoundTypes, GotoMoves
       DEF EnsureKid, StepOf, Still, ClaimsKept, boundVars, TypeOK, apiVars
  <2>2. KidsOwned' /\ KidsFindable'
    BY <1>1, <1>2, <1>7, NewKidWritten DEF EnsureKid, apiVars
  <2>3. pc'[v] = label /\ UNCHANGED <<vol, cache, claim, mem, latest>>
    BY <1>0, <1>7, GotoMoves DEF EnsureKid, apiVars, Goto
  <2>4. ReconcileKnows(v)'
    BY <1>0, <1>1, <1>4, <1>5, <2>3
       DEF ReconcileKnows, CopyOf, ClaimedBy, Standing, Deleting, Cleaning
  <2>5. QED
    BY <1>2, <2>1, <2>2, <2>4, KidStep DEF EnsureKid
<1>8. CASE CreateError(v, id)
  BY <1>8, CreateErrorSafe DEF EnsureKid
<1>9. QED
  BY <1>3, <1>6, <1>7, <1>8 DEF EnsureKid

\* Between two reads of a reconcile that is at work.
LEMMA WorkingStep ==
  ASSUME ReconcileInv, TypeOK', NEW v \in Volumes,
         NEW label \in {"sync", "checkNfs", "checkPvc", "checkRs", "status", "callback"},
         pc[v] \in Working, pc' = [pc EXCEPT ![v] = label],
         UNCHANGED <<apiVars, cache, kidVars, claim, mem, latest, boundVars>>
  PROVE  ReconcileInv'
<1>1. ReconcileKnows(v) /\ ClaimsKept
  BY BoundTypes DEF ReconcileInv, ClaimsKept, boundVars, TypeOK
<1>2. mem[v].st = "live" /\ mem[v].fin /\ Standing(v, mem[v]) /\ pc[v] # "idle"
  BY <1>1 DEF ReconcileKnows, Working, Creating
<1>3. label \notin Writing /\ label \notin Creating \cup Deleting /\ label \notin Cleaning
  BY DEF Writing, Creating, Deleting, Cleaning
<1>4. QED
  BY <1>1, <1>2, <1>3, GotoStep

\* The orders given to the SyncController touch no API object.
LEMMA UpdateSyncSafe ==
  ASSUME ReconcileInv, NEW v \in Volumes, UpdateSync(v)
  PROVE  ReconcileInv'
<1>1. TypeOK'
  BY UpdateSyncType DEF ReconcileInv
<1>2. QED
  BY <1>1, WorkingStep DEF UpdateSync, Goto, Working

\* CheckResourceReadiness reads children and chooses a phase; it writes nothing.
LEMMA CheckSafe ==
  ASSUME ReconcileInv, NEW v \in Volumes, CheckNfs(v) \/ CheckPvc(v) \/ CheckRs(v)
  PROVE  ReconcileInv'
<1>1. TypeOK'
  BY CheckType DEF ReconcileInv
<1>2. pc[v] \in Working /\ UNCHANGED <<apiVars, cache, kidVars, claim, boundVars>>
  BY DEF CheckNfs, CheckPvc, CheckRs, Check, Working
<1>3. ClaimsKept
  BY <1>2, BoundTypes DEF ClaimsKept, boundVars, ReconcileInv, TypeOK
<1>4. CASE Forget(v)
  BY <1>1, <1>2, <1>3, <1>4, ReturnStep
<1>5. CASE ~Forget(v)
  <2>1. PICK label \in {"checkPvc", "checkRs", "status"} :
          pc' = [pc EXCEPT ![v] = label] /\ UNCHANGED <<mem, latest>>
    BY <1>5 DEF CheckNfs, CheckPvc, CheckRs, Check, Goto, Settle, Finish, Return
  <2>2. QED
    BY <1>1, <1>2, <2>1, WorkingStep
<1>6. QED
  BY <1>4, <1>5

\* UpdateStatusWithRetry reads a version that the stored one follows.
LEMMA GetForStatusSafe ==
  ASSUME ReconcileInv, NEW v \in Volumes, GetForStatus(v)
  PROVE  ReconcileInv'
<1>0. TypeOK /\ TypeOK' /\ StoreInv(v) /\ ReconcileKnows(v)
  BY GetForStatusType DEF ReconcileInv
<1>1. ClaimsKept
  BY <1>0, BoundTypes DEF GetForStatus, ClaimsKept, boundVars, TypeOK
<1>2. CASE Forget(v)
  BY <1>0, <1>1, <1>2, ReturnStep DEF GetForStatus
<1>3. CASE ~Forget(v)
  <2>1. /\ cache[v].st # "gone"
        /\ pc' = [pc EXCEPT ![v] = "writeStatus"]
        /\ latest' = [latest EXCEPT ![v] = cache[v]]
        /\ UNCHANGED <<vol, cache, claim, mem>>
    BY <1>3 DEF GetForStatus, Return, apiVars
  <2>2. StepOf(v)
    BY <1>0, <1>1, <2>1 DEF GetForStatus, StepOf, Still, apiVars, TypeOK
  <2>3. pc'[v] = "writeStatus" /\ latest'[v] = cache[v]
    BY <1>0, <2>1 DEF TypeOK
  <2>4. CopyOf(v, cache[v])
    BY <1>0 DEF StoreInv, VersionsFollow, RefsClaimed, CopyOf
  <2>5. ReconcileKnows(v)'
    BY <1>0, <2>1, <2>3, <2>4
       DEF GetForStatus, ReconcileKnows, CopyOf, ClaimedBy, Standing, Writing, Working,
           Creating, Deleting, Cleaning
  <2>6. QED
    BY <1>0, <2>2, <2>5, LocalStep DEF GetForStatus
<1>4. QED
  BY <1>2, <1>3

\* The callbacks after the status write touch no API object.
LEMMA CallbackSafe ==
  ASSUME ReconcileInv, NEW v \in Volumes, Callback(v)
  PROVE  ReconcileInv'
<1>1. TypeOK'
  BY CallbackType DEF ReconcileInv
<1>2. ClaimsKept
  BY BoundTypes DEF Callback, ClaimsKept, boundVars, ReconcileInv, TypeOK
<1>3. QED
  BY <1>1, <1>2, ReturnStep DEF Callback, Finish, Return

\* A status write changes the phase of the version it read, or is refused.
LEMMA WriteStatusSafe ==
  ASSUME ReconcileInv, NEW v \in Volumes, WriteStatus(v)
  PROVE  ReconcileInv'
<1>0. TypeOK /\ TypeOK' /\ StoreInv(v) /\ ReconcileKnows(v)
  BY WriteStatusType DEF ReconcileInv
<1>1. /\ mem[v].st = "live" /\ mem[v].fin /\ Standing(v, mem[v])
      /\ CopyOf(v, mem[v]) /\ mem[v].uid <= cache[v].uid
      /\ CopyOf(v, latest[v]) /\ pc[v] \in Working
  BY <1>0 DEF WriteStatus, ReconcileKnows, Working, Writing
<1>2. CASE Current(v, latest[v]) /\ latest[v].phase = want[v] /\ UNCHANGED apiVars
           /\ Goto(v, "callback") /\ UNCHANGED <<mem, queued, boundVars>>
  BY <1>0, <1>1, <1>2, WorkingStep DEF WriteStatus, Goto
<1>3. CASE Current(v, latest[v]) /\ Write(v, [latest[v] EXCEPT !.phase = want[v]])
           /\ Goto(v, "callback") /\ UNCHANGED <<mem, queued, boundVars>>
  <2> DEFINE obj == [latest[v] EXCEPT !.phase = want[v]]
  <2>1. latest[v] = vol[v] /\ vol[v].st # "gone"
    BY <1>0, <1>1, <1>3, CopyTypes, CurrentCopy
  <2>2. vol[v].uid = cache[v].uid
    <3>1. cache[v].uid <= vol[v].uid /\ vol[v].uid <= cache[v].uid
      BY <1>0, <1>1 DEF StoreInv, VersionsFollow, Follows, Standing
    <3>2. cache[v].uid \in Nat /\ vol[v].uid \in Nat
      BY <1>0 DEF TypeOK, VolumeObjects
    <3>3. QED
      BY <3>1, <3>2
  <2>3. /\ obj \in VolumeObjects /\ obj.uid = vol[v].uid /\ obj.st = vol[v].st
        /\ obj.fin = vol[v].fin /\ obj.ref = vol[v].ref
    <3>1. vol[v] \in VolumeObjects /\ want[v] \in Phases
      BY <1>0 DEF TypeOK
    <3>2. obj \in VolumeObjects
      BY <2>1, <3>1, EditTypes
    <3>3. obj.uid = vol[v].uid /\ obj.st = vol[v].st /\ obj.fin = vol[v].fin /\ obj.ref = vol[v].ref
      BY <2>1, <3>1 DEF VolumeObjects
    <3>4. QED
      BY <3>2, <3>3
  <2> HIDE DEF obj
  <2>4. Write(v, obj) /\ UNCHANGED <<cache, kidVars, claim>>
    BY <1>3 DEF WriteStatus, obj
  <2>5. StepOf(v)
    BY <1>0, <1>3, <2>4, GotoMoves, BoundTypes
       DEF Write, StepOf, ClaimsKept, boundVars, Still, TypeOK
  <2>6. obj.ref # NoRef => claim'[obj.ref] = v
    BY <1>1, <2>1, <2>3, <2>4 DEF CopyOf, ClaimedBy
  <2>7. vol'[v].uid = vol[v].uid /\ vol'[v].st = vol[v].st /\ Follows(vol'[v], vol[v])
    <3>1. vol[v].uid <= obj.uid
      BY <1>0, <2>3 DEF TypeOK, VolumeObjects
    <3>2. QED
      BY <1>0, <2>3, <2>4, <3>1, WriteFollows
  <2>8. ReconcileKnows(v)'
    <3>1. pc'[v] = "callback" /\ mem'[v] = mem[v]
      BY <1>0, <1>3, GotoMoves
    <3>2. Follows(vol'[v], mem[v])
      BY <1>0, <1>1, <2>7, FollowsTransitive DEF CopyOf, TypeOK
    <3>3. QED
      BY <1>1, <2>4, <2>7, <3>1, <3>2
         DEF ReconcileKnows, CopyOf, ClaimedBy, Standing, Writing, Creating, Deleting, Cleaning
  <2>9. QED
    BY <1>0, <2>1, <2>2, <2>3, <2>4, <2>5, <2>6, <2>8, StoreStep
<1>4. CASE /\ IF vol[v].st = "gone" THEN Return(v, TRUE) ELSE Retry(v, "status")
           /\ UNCHANGED <<apiVars, boundVars>>
  <2>1. ClaimsKept
    BY <1>0, <1>4, BoundTypes DEF WriteStatus, ClaimsKept, boundVars, TypeOK
  <2>2. CASE Forget(v)
    BY <1>0, <1>4, <2>1, <2>2, ReturnStep DEF WriteStatus
  <2>3. CASE ~Forget(v)
    <3>1. pc' = [pc EXCEPT ![v] = "status"] /\ UNCHANGED <<mem, latest>>
      BY <1>4, <2>3 DEF Retry, Return
    <3>2. QED
      BY <1>0, <1>1, <1>4, <3>1, WorkingStep DEF WriteStatus
  <2>4. QED
    BY <2>2, <2>3
<1>5. CASE Fails("status") /\ Return(v, TRUE) /\ UNCHANGED <<apiVars, uids, edits, crashes, flaps>>
  <2>1. ClaimsKept
    BY <1>0, <1>5, BoundTypes DEF WriteStatus, ClaimsKept, TypeOK
  <2>2. QED
    BY <1>0, <1>5, <2>1, ReturnStep DEF WriteStatus, Return
<1>6. QED
  BY <1>2, <1>3, <1>4, <1>5 DEF WriteStatus

---------------------------------------------------------------------------
\* The worker, deleting

\* Stopping the sync leaves the object being deleted as it is.
LEMMA StopSyncSafe ==
  ASSUME ReconcileInv, NEW v \in Volumes, StopSync(v)
  PROVE  ReconcileInv'
<1>0. TypeOK /\ TypeOK' /\ ReconcileKnows(v)
  BY StopSyncType DEF ReconcileInv
<1>1. ClaimsKept
  BY <1>0, BoundTypes DEF StopSync, ClaimsKept, boundVars, TypeOK
<1>2. PICK label \in {"release", "delRs"} :
        /\ pc' = [pc EXCEPT ![v] = label]
        /\ label = "delRs" => mem[v].ref # NoRef
        /\ UNCHANGED <<mem, latest>>
  BY DEF StopSync, Goto
<1>3. pc[v] # "idle" /\ pc[v] \in Cleaning
  BY DEF StopSync, Cleaning
<1>4. /\ label \notin Writing /\ label # "finalizer" /\ label \notin Working
      /\ (label \in Creating \cup Deleting => label = "delRs") /\ label # "assignRef"
  BY <1>2 DEF Writing, Working, Creating, Deleting
<1>5. QED
  BY <1>0, <1>1, <1>2, <1>3, <1>4, GotoStep DEF StopSync

\* Cleanup deletes children named by the value of an object that is being deleted:
\* no later object of the name has children under that value.
LEMMA CleanupKidSafe ==
  ASSUME ReconcileInv, NEW v \in Volumes, NEW step \in CleanupSteps, CleanupKid(v, step)
  PROVE  ReconcileInv'
<1> DEFINE id == <<step[2], mem[v].ref>>
<1>0. TypeOK /\ ReconcileKnows(v) /\ KidsOwned /\ KidsFindable
  BY DEF ReconcileInv
<1>1. pc[v] \in Deleting /\ pc[v] \in Cleaning /\ pc[v] # "idle" /\ mem[v].ref # NoRef
  BY <1>0 DEF CleanupKid, CleanupSteps, Deleting, Cleaning, ReconcileKnows
<1>2. TypeOK'
  BY <1>0, <1>1, CleanupKidType
<1>3. /\ step[3] \in {"delPvc", "delPv", "delSvc", "delNfs", "release"}
      /\ step[2] \in Kinds
  BY DEF CleanupSteps, Kinds
<1>4. /\ step[3] \notin Writing /\ step[3] # "finalizer" /\ step[3] \notin Working
      /\ step[3] # "assignRef"
  BY <1>3 DEF Writing, Working, Creating
<1>5. pc' = [pc EXCEPT ![v] = step[3]] /\ UNCHANGED <<mem, latest, apiVars, cache, claim>>
  BY DEF CleanupKid, Goto
<1>6. ClaimsKept
  <2>1. UNCHANGED <<uids, claim>>
    BY DEF CleanupKid, boundVars
  <2>2. uids \in Nat
    BY <1>0, BoundTypes DEF TypeOK
  <2>3. QED
    BY <2>1, <2>2 DEF ClaimsKept
<1>7. CASE UNCHANGED kidVars
  BY <1>1, <1>2, <1>4, <1>5, <1>6, <1>7, GotoStep
<1>8. CASE WriteKid(id, NoKid, kids[id].vol, FALSE)
  <2>1. id \in Ids
    BY <1>0, <1>1, <1>3, CopyTypes, IdType DEF VolumeObjects
  <2> HIDE DEF id
  <2>2. kids' = [kids EXCEPT ![id] = NoKid] /\ UNCHANGED seen /\ UNCHANGED vol
    BY <1>5, <1>8 DEF WriteKid, apiVars
  <2>3. KidsOwned' /\ KidsFindable'
    BY <1>0, <1>2, <2>1, <2>2, NullTypes, KidWritten DEF NoKid, Exists
  <2>4. StepOf(v)
    BY <1>0, <1>5, <1>6 DEF StepOf, Still, apiVars, TypeOK
  <2>5. pc'[v] = step[3] /\ UNCHANGED <<vol, mem, latest, cache, claim>>
    BY <1>0, <1>5 DEF TypeOK, apiVars
  <2>6. ReconcileKnows(v)'
    BY <1>0, <1>1, <1>4, <2>5 DEF ReconcileKnows, CopyOf, ClaimedBy, Writing
  <2>7. QED
    BY <1>2, <1>5, <2>3, <2>4, <2>6, KidStep
<1>9. QED
  BY <1>7, <1>8 DEF CleanupKid

\* The fresh read of RemoveFinalizerWithRetry returns a version no older than the
\* one the deletion was decided on.
LEMMA GetForReleaseSafe ==
  ASSUME ReconcileInv, NEW v \in Volumes, GetForRelease(v)
  PROVE  ReconcileInv'
<1>0. TypeOK /\ TypeOK' /\ StoreInv(v) /\ ReconcileKnows(v)
  BY GetForReleaseType DEF ReconcileInv
<1>1. ClaimsKept
  BY <1>0, BoundTypes DEF GetForRelease, ClaimsKept, boundVars, TypeOK
<1>2. CASE Forget(v)
  BY <1>0, <1>1, <1>2, ReturnStep DEF GetForRelease
<1>3. CASE ~Forget(v)
  <2>1. /\ cache[v].st # "gone" /\ cache[v].fin
        /\ pc' = [pc EXCEPT ![v] = "writeRelease"]
        /\ latest' = [latest EXCEPT ![v] = cache[v]]
        /\ UNCHANGED <<vol, cache, claim, mem>>
    BY <1>3 DEF GetForRelease, Return, apiVars
  <2>2. StepOf(v)
    BY <1>0, <1>1, <2>1 DEF GetForRelease, StepOf, Still, apiVars, TypeOK
  <2>3. pc'[v] = "writeRelease" /\ latest'[v] = cache[v]
    BY <1>0, <2>1 DEF TypeOK
  <2>4. CopyOf(v, cache[v]) /\ Follows(cache[v], cache[v])
    BY <1>0, FollowsReflexive DEF StoreInv, VersionsFollow, RefsClaimed, CopyOf, TypeOK
  <2>5. ReconcileKnows(v)'
    BY <1>0, <2>1, <2>3, <2>4
       DEF GetForRelease, ReconcileKnows, CopyOf, ClaimedBy, Writing, Working, Creating,
           Deleting, Cleaning
  <2>6. QED
    BY <1>0, <2>2, <2>5, LocalStep DEF GetForRelease
<1>4. QED
  BY <1>2, <1>3

\* The version the release is made from is that of a deleting object, and no cached or
\* pending version shows it live any more.
LEMMA ReleaseIsOfDeleting ==
  ASSUME ReconcileInv, NEW v \in Volumes, pc[v] = "writeRelease", Current(v, latest[v])
  PROVE  /\ latest[v] = vol[v] /\ vol[v].st = "deleting" /\ vol[v].fin
         /\ \A c \in watch[v] \cup {cache[v]} : c.st = "live" => ~c.fin
<1>0. TypeOK /\ StoreInv(v) /\ ReconcileKnows(v)
  BY DEF ReconcileInv
<1>1. /\ CopyOf(v, latest[v]) /\ latest[v].fin /\ Follows(latest[v], mem[v])
      /\ Follows(cache[v], latest[v])
      /\ mem[v].st = "deleting" /\ (vol[v].fin => vol[v].uid = mem[v].uid)
  BY <1>0 DEF ReconcileKnows, Writing, Cleaning
<1>2. latest[v] = vol[v] /\ vol[v].st # "gone"
  BY <1>0, <1>1, CopyTypes, CurrentCopy
<1>3. vol[v].st = "deleting"
  <2>1. vol[v].uid = mem[v].uid /\ vol[v].st # "live"
    BY <1>1, <1>2 DEF Follows
  <2>2. vol[v].st \in {"live", "deleting", "gone"}
    BY <1>0 DEF TypeOK, VolumeObjects
  <2>3. QED
    BY <1>2, <2>1, <2>2
<1>4. ASSUME NEW c \in watch[v] \cup {cache[v]}
      PROVE  c = vol[v]
  <2>1. c \in VolumeObjects /\ cache[v] \in VolumeObjects /\ vol[v] \in VolumeObjects
    BY <1>0 DEF TypeOK
  <2>2. Follows(vol[v], c) /\ (c = cache[v] \/ Follows(c, cache[v]))
    BY <1>0 DEF StoreInv, VersionsFollow
  <2>3. Follows(c, vol[v])
    BY <1>1, <1>2, <2>1, <2>2, FollowsTransitive
  <2>4. c.rv <= vol[v].rv /\ vol[v].rv <= c.rv
    BY <2>2, <2>3 DEF Follows
  <2>5. c.rv \in Nat /\ vol[v].rv \in Nat
    BY <2>1 DEF VolumeObjects
  <2>6. c.rv = vol[v].rv
    BY <2>4, <2>5
  <2>7. QED
    BY <2>2, <2>6 DEF Follows
<1>5. QED
  BY <1>1, <1>2, <1>3, <1>4

\* The release drops the finalizer of the very version it read, which is deleting,
\* and with that the object: nothing is left holding children of a present volume.
LEMMA WriteReleaseSafe ==
  ASSUME ReconcileInv, NEW v \in Volumes, WriteRelease(v)
  PROVE  ReconcileInv'
<1>0. TypeOK /\ TypeOK' /\ StoreInv(v) /\ ReconcileKnows(v) /\ KidsOwned /\ KidsFindable
  BY WriteReleaseType DEF ReconcileInv
<1>1. CASE Current(v, latest[v]) /\ Write(v, Released(latest[v])) /\ Return(v, FALSE)
           /\ UNCHANGED boundVars
  <2> DEFINE obj == Released(latest[v])
  <2>1. /\ latest[v] = vol[v] /\ vol[v].st = "deleting" /\ vol[v].fin
        /\ \A c \in watch[v] \cup {cache[v]} : c.st = "live" => ~c.fin
    BY <1>1, ReleaseIsOfDeleting DEF WriteRelease
  <2>2. vol[v] \in VolumeObjects
    BY <1>0 DEF TypeOK
  <2>3. obj \in VolumeObjects
    BY <2>1, <2>2, EditTypes
  <2>4. obj.uid = vol[v].uid /\ obj.st = "gone" /\ ~obj.fin /\ obj.ref = vol[v].ref
    BY <2>1, <2>2 DEF Released, VolumeObjects
  <2> HIDE DEF obj
  <2>5. Write(v, obj) /\ UNCHANGED <<cache, kidVars, claim, boundVars>>
    BY <1>1 DEF WriteRelease, obj
  <2>6. ClaimsKept
    BY <1>0, <2>5, BoundTypes DEF ClaimsKept, boundVars, TypeOK
  <2>7. StepOf(v)
    BY <1>0, <1>1, <2>5, <2>6, ForgetMoves DEF Return, Write, StepOf, Still, TypeOK
  <2>8. /\ vol'[v].uid = vol[v].uid /\ vol'[v].st = "gone" /\ ~vol'[v].fin
        /\ vol'[v].ref = vol[v].ref /\ watch'[v] = watch[v] \cup {vol'[v]}
        /\ Follows(vol'[v], vol[v])
    <3>1. vol[v].uid <= obj.uid
      BY <2>2, <2>4 DEF VolumeObjects
    <3>2. QED
      BY <1>0, <2>1, <2>3, <2>4, <2>5, <3>1, WriteFollows
  <2>9. vol'[v].uid <= uids'
    BY <1>0, <2>5, <2>8 DEF StoreInv, FinalizerHeld, boundVars
  <2>10. vol'[v].ref # NoRef => claim'[vol'[v].ref] = v
    BY <1>0, <2>5, <2>8 DEF StoreInv, RefsClaimed, ClaimedBy
  <2>11. StoreInv(v)'
    BY <1>0, <2>1, <2>5, <2>6, <2>8, <2>9, <2>10, StoreWrite
  <2>12. KidsOwned' /\ KidsFindable'
    <3>1. \A w \in Volumes : Follows(vol'[w], vol[w])
      BY <1>0, <2>7, <2>8, FollowsReflexive DEF StepOf, Still, TypeOK
    <3>2. QED
      BY <1>0, <2>5, <3>1, KidsStill
  <2>13. ReconcileKnows(v)'
    BY <1>0, <1>1, ForgetMoves, KnowsNothing DEF Return
  <2>14. QED
    BY <1>0, <2>7, <2>11, <2>12, <2>13, InvStep
<1>2. CASE /\ IF vol[v].st = "gone" THEN Return(v, FALSE) ELSE Retry(v, "release")
           /\ UNCHANGED <<apiVars, boundVars>>
  <2>1. ClaimsKept
    BY <1>0, <1>2, BoundTypes DEF WriteRelease, ClaimsKept, boundVars, TypeOK
  <2>2. CASE Forget(v)
    BY <1>0, <1>2, <2>1, <2>2, ReturnStep DEF WriteRelease
  <2>3. CASE ~Forget(v)
    <3>1. pc' = [pc EXCEPT ![v] = "release"] /\ UNCHANGED <<mem, latest>>
      BY <1>2, <2>3 DEF Retry, Return
    <3>2. pc[v] # "idle" /\ pc[v] \in Cleaning
      BY DEF WriteRelease, Cleaning
    <3>3. "release" \notin Writing /\ "release" \notin Working
          /\ "release" \notin Creating \cup Deleting
      BY DEF Writing, Working, Creating, Deleting
    <3>4. QED
      BY <1>0, <1>2, <2>1, <3>1, <3>2, <3>3, GotoStep DEF WriteRelease
  <2>4. QED
    BY <2>2, <2>3
<1>3. CASE Fails("update") /\ Return(v, TRUE) /\ UNCHANGED <<apiVars, uids, edits, crashes, flaps>>
  <2>1. ClaimsKept
    BY <1>0, <1>3, BoundTypes DEF WriteRelease, ClaimsKept, TypeOK
  <2>2. QED
    BY <1>0, <1>3, <2>1, ReturnStep DEF WriteRelease, Return
<1>4. QED
  BY <1>1, <1>2, <1>3 DEF WriteRelease

---------------------------------------------------------------------------
\* Around the controller

\* A user's write of v.
LEMMA UserStep ==
  ASSUME ReconcileInv, TypeOK', NEW v \in Volumes, NEW obj \in VolumeObjects,
         Write(v, obj), ClaimsKept, UNCHANGED <<cache, kidVars, pc, mem, latest>>,
         \/ /\ vol[v].st = "live" /\ obj.uid = vol[v].uid /\ obj.fin = vol[v].fin
            /\ obj.ref = vol[v].ref /\ (obj.fin => obj.st # "gone")
         \/ vol[v].st = "gone" /\ vol[v].uid < obj.uid /\ ~obj.fin,
         obj.uid <= uids',
         obj.ref # NoRef => claim'[obj.ref] = v
  PROVE  ReconcileInv'
<1>0. TypeOK /\ StoreInv(v) /\ ReconcileKnows(v)
  BY DEF ReconcileInv
<1>1. vol[v] \in VolumeObjects /\ vol[v].uid \in Nat /\ obj.uid \in Nat
  BY <1>0 DEF TypeOK, VolumeObjects
<1>2. vol[v].uid <= obj.uid
  BY <1>1
<1>3. vol[v].uid = obj.uid => vol[v].st = "live" /\ obj.fin = vol[v].fin /\ obj.ref = vol[v].ref
  BY <1>1
<1>4. /\ vol'[v].uid = obj.uid /\ vol'[v].st = obj.st /\ vol'[v].fin = obj.fin
      /\ vol'[v].ref = obj.ref
      /\ watch'[v] = watch[v] \cup {vol'[v]}
      /\ Follows(vol'[v], vol[v])
  BY <1>0, <1>2, <1>3, WriteFollows
<1>5. StoreInv(v)'
  <2>1. vol'[v].fin => vol'[v].st # "gone" /\ vol'[v].uid = cache[v].uid
    BY <1>0, <1>4 DEF StoreInv, FinalizerHeld
  <2>2. ASSUME NEW c \in watch[v] \cup {cache[v]}, c.st = "live", c.fin
        PROVE  vol'[v].uid = c.uid /\ vol'[v].st # "gone"
    <3>1. Standing(v, c) /\ Follows(vol[v], c)
      BY <1>0, <2>2 DEF StoreInv, FinalizerHeld, VersionsFollow
    <3>2. vol[v].st = "live" /\ vol[v].fin
      BY <3>1, <2>2 DEF Standing, Follows
    <3>3. QED
      BY <1>4, <3>1, <3>2 DEF Standing
  <2>3. QED
    BY <1>0, <1>4, <2>1, <2>2, StoreWrite
<1>6. ReconcileKnows(v)'
  <2>1. Follows(cache'[v], cache[v])
    BY <1>0, FollowsReflexive DEF TypeOK
  <2>2. vol[v].fin /\ vol[v].st # "gone" => vol'[v].uid = vol[v].uid /\ vol'[v].st # "gone"
    BY <1>4
  <2>3. vol'[v].fin => vol[v].fin /\ vol'[v].uid = vol[v].uid
    BY <1>4
  <2>4. QED
    BY <1>0, <1>4, <2>1, <2>2, <2>3, KnowsStill
<1>7. StepOf(v)
  BY <1>0 DEF Write, StepOf, Still, TypeOK
<1>8. KidsOwned' /\ KidsFindable'
  <2>1. \A w \in Volumes : Follows(vol'[w], vol[w])
    BY <1>0, <1>4, <1>7, FollowsReflexive DEF StepOf, Still, TypeOK
  <2>2. QED
    BY <2>1, KidsStill DEF ReconcileInv
<1>9. QED
  BY <1>5, <1>6, <1>7, <1>8, InvStep

\* What users may do to a volume keeps the invariant: a new object of the name has a
\* larger uid, and deletion of an object that holds its finalizer only marks it.
LEMMA UsersSafe ==
  ASSUME ReconcileInv, NEW v \in Volumes, UserCreate(v) \/ UserEdit(v) \/ UserDelete(v)
  PROVE  ReconcileInv'
<1>0. TypeOK /\ TypeOK' /\ StoreInv(v)
  BY UsersType DEF ReconcileInv
<1>1. /\ vol[v] \in VolumeObjects /\ vol[v].uid \in Nat /\ uids \in Nat
      /\ vol[v].uid <= uids
  BY <1>0, BoundTypes DEF TypeOK, VolumeObjects, StoreInv, FinalizerHeld
<1>2. UNCHANGED <<cache, kidVars, pc, mem, latest>>
  BY DEF UserCreate, UserEdit, UserDelete, workerVars
<1>3. vol[v].ref # NoRef => claim[vol[v].ref] = v
  BY <1>0 DEF StoreInv, RefsClaimed, ClaimedBy
<1>4. CASE UserCreate(v)
  <2>1. PICK nfs \in UserNfs, r \in UserRefs \cup {NoRef} :
          /\ r # NoRef => claim[r] \in {NoVolume, v}
          /\ Write(v, NewVolume(uids + 1, nfs, r))
          /\ claim' = [x \in Refs |-> IF x = r THEN v ELSE claim[x]]
    BY <1>4 DEF UserCreate
  <2> DEFINE obj == NewVolume(uids + 1, nfs, r)
  <2>2. /\ obj.uid = uids + 1 /\ obj.ref = r /\ ~obj.fin
    BY DEF NewVolume
  <2>3. obj \in VolumeObjects
    <3>1. nfs \in NfsChoice /\ r \in Refs \cup {NoRef} /\ uids + 1 \in Nat
      BY <1>1, ConstantsAssumption DEF NfsChoice
    <3>2. QED
      BY <3>1 DEF NewVolume, VolumeObjects, Phases
  <2>4. uids' = uids + 1 /\ vol[v].st = "gone"
    BY <1>4 DEF UserCreate
  <2>5. ClaimsKept
    BY <1>1, <2>1, <2>4, ConstantsAssumption DEF ClaimsKept
  <2>6. obj.ref # NoRef => claim'[obj.ref] = v
    BY <2>1, <2>2, ConstantsAssumption
  <2>7. vol[v].uid < obj.uid /\ obj.uid <= uids'
    BY <1>1, <2>2, <2>4
  <2> HIDE DEF obj
  <2>8. Write(v, obj)
    BY <2>1 DEF obj
  <2>9. QED
    BY <1>0, <1>2, <2>2, <2>3, <2>4, <2>5, <2>6, <2>7, <2>8, UserStep
<1>5. CASE UserEdit(v)
  <2>1. UNCHANGED <<claim, uids>> /\ vol[v].st = "live" /\ Write(v, vol[v])
    BY <1>5 DEF UserEdit
  <2>2. ClaimsKept
    BY <1>1, <2>1 DEF ClaimsKept
  <2>3. QED
    BY <1>0, <1>1, <1>2, <1>3, <2>1, <2>2, UserStep
<1>6. CASE UserDelete(v)
  <2> DEFINE obj == [vol[v] EXCEPT !.st = IF vol[v].fin THEN "deleting" ELSE "gone"]
  <2>1. UNCHANGED <<claim, uids>> /\ vol[v].st = "live"
    BY <1>6 DEF UserDelete, boundVars
  <2>2. obj \in VolumeObjects
    BY <1>1, EditTypes
  <2>3. obj.uid = vol[v].uid /\ obj.fin = vol[v].fin /\ obj.ref = vol[v].ref
        /\ (obj.fin => obj.st # "gone")
    BY <1>1 DEF VolumeObjects
  <2>4. ClaimsKept
    BY <1>1, <2>1 DEF ClaimsKept
  <2> HIDE DEF obj
  <2>5. Write(v, obj)
    BY <1>6 DEF UserDelete, obj
  <2>6. QED
    BY <1>0, <1>1, <1>2, <1>3, <2>1, <2>2, <2>3, <2>4, <2>5, UserStep
<1>7. QED
  BY <1>4, <1>5, <1>6

\* The informer moves forward, to a version that was written.
LEMMA DeliverSafe ==
  ASSUME ReconcileInv, NEW v \in Volumes, Deliver(v)
  PROVE  ReconcileInv'
<1>0. TypeOK /\ TypeOK' /\ StoreInv(v) /\ ReconcileKnows(v)
  BY DeliverType DEF ReconcileInv
<1>1. PICK w \in watch[v] : /\ cache' = [cache EXCEPT ![v] = w]
                            /\ watch' = [watch EXCEPT ![v] = {x \in @ : x.rv > w.rv}]
  BY DEF Deliver
<1>2. UNCHANGED <<vol, kidVars, pc, mem, latest, claim, uids>>
  BY DEF Deliver, workerVars, boundVars
<1>3. /\ cache'[v] = w /\ watch'[v] = {x \in watch[v] : x.rv > w.rv}
      /\ \A u \in Volumes \ {v} : cache'[u] = cache[u] /\ watch'[u] = watch[u]
  BY <1>0, <1>1 DEF TypeOK
<1>4. uids \in Nat
  BY <1>0, BoundTypes DEF TypeOK
<1>5. StepOf(v)
  BY <1>2, <1>3, <1>4 DEF StepOf, Still, ClaimsKept
<1>6. Follows(vol[v], w) /\ Follows(w, cache[v]) /\ Follows(vol[v], vol[v])
  BY <1>0, FollowsReflexive DEF StoreInv, VersionsFollow, TypeOK
<1>7. StoreInv(v)'
  <2>1. VersionsFollow(v)'
    <3>1. \A x \in watch'[v] : x \in watch[v] /\ x.rv > w.rv
      BY <1>3
    <3>2. w \in VolumeObjects /\ \A x \in watch[v] : x \in VolumeObjects
      BY <1>0 DEF TypeOK
    <3>3. \A x \in watch'[v] : w.rv <= x.rv
      BY <3>1, <3>2 DEF VolumeObjects
    <3>4. \A x \in watch'[v] : Follows(x, w)
      BY <1>0, <3>1, <3>3 DEF StoreInv, VersionsFollow
    <3>5. \A x \in watch'[v] : /\ Follows(vol[v], x)
                               /\ \A y \in watch'[v] : x.rv <= y.rv => Follows(y, x)
      BY <1>0, <3>1 DEF StoreInv, VersionsFollow
    <3>6. QED
      BY <1>2, <1>3, <1>6, <3>4, <3>5 DEF VersionsFollow
  <2>2. FinalizerHeld(v)'
    <3>1. vol[v].fin => w.uid = vol[v].uid
      <4>1. vol[v].fin => vol[v].uid = cache[v].uid
        BY <1>0 DEF StoreInv, FinalizerHeld
      <4>2. cache[v].uid <= w.uid /\ w.uid <= vol[v].uid
        BY <1>6 DEF Follows
      <4>3. cache[v].uid \in Nat /\ w.uid \in Nat /\ vol[v].uid \in Nat
        BY <1>0 DEF TypeOK, VolumeObjects
      <4>4. QED
        BY <4>1, <4>2, <4>3
    <3>2. \A c \in watch'[v] \cup {w} : c.st = "live" /\ c.fin => Standing(v, c)
      BY <1>0, <1>3 DEF StoreInv, FinalizerHeld
    <3>3. QED
      BY <1>0, <1>2, <1>3, <3>1, <3>2 DEF StoreInv, FinalizerHeld, Standing
  <2>3. RefsClaimed(v)'
    BY <1>0, <1>2, <1>3 DEF StoreInv, RefsClaimed, ClaimedBy
  <2>4. QED
    BY <2>1, <2>2, <2>3 DEF StoreInv
<1>8. ReconcileKnows(v)'
  <2>1. vol[v].fin => vol[v].st # "gone"
    BY <1>0 DEF StoreInv, FinalizerHeld
  <2>2. QED
    BY <1>0, <1>2, <1>3, <1>5, <1>6, <2>1, KnowsStill DEF StepOf
<1>9. KidsOwned' /\ KidsFindable'
  <2>1. \A u \in Volumes : Follows(vol'[u], vol[u])
    BY <1>0, <1>2, FollowsReflexive DEF TypeOK
  <2>2. QED
    BY <1>0, <1>2, <2>1, KidsStill DEF ReconcileInv
<1>10. QED
  BY <1>0, <1>5, <1>7, <1>8, <1>9, InvStep

\* A step of the cluster: the volumes and the worker stay.
LEMMA ClusterStep ==
  ASSUME ReconcileInv, TypeOK', UNCHANGED <<apiVars, cache, claim, pc, mem, latest, uids>>,
         KidsOwned', KidsFindable'
  PROVE  ReconcileInv'
<1>1. ASSUME NEW v \in Volumes
      PROVE  StoreInv(v)' /\ ReconcileKnows(v)'
  BY DEF ReconcileInv, StoreInv, VersionsFollow, FinalizerHeld, RefsClaimed, ClaimedBy,
         ReconcileKnows, CopyOf, Standing, apiVars
<1>2. QED
  BY <1>1 DEF ReconcileInv

\* An informer of children copies what the API server has.
LEMMA DeliverKidSafe ==
  ASSUME ReconcileInv, NEW id \in Ids, DeliverKid(id)
  PROVE  ReconcileInv'
<1>0. TypeOK /\ TypeOK' /\ KidsOwned /\ KidsFindable
  BY DeliverKidType DEF ReconcileInv
<1>1. UNCHANGED <<apiVars, cache, claim, pc, mem, latest, uids, kids>>
  BY DEF DeliverKid, workerVars, boundVars
<1>2. \A i \in Ids : seen'[i] = seen[i] \/ seen'[i] = kids[i]
  BY <1>0 DEF DeliverKid, TypeOK
<1>3. KidsOwned'
  BY <1>0, <1>1, <1>2 DEF KidsOwned, apiVars, Exists
<1>4. KidsFindable'
  BY <1>0, <1>1 DEF KidsFindable, OwnerPresent, apiVars, Exists
<1>5. QED
  BY <1>0, <1>1, <1>3, <1>4, ClusterStep

\* Readiness and garbage collection leave volumes alone and create no child.
LEMMA ClusterSafe ==
  ASSUME ReconcileInv, NEW id \in Ids,
         BecomeReady(id) \/ BecomeUnready(id) \/ GarbageCollect(id)
  PROVE  ReconcileInv'
<1>0. TypeOK /\ TypeOK' /\ KidsOwned /\ KidsFindable
  BY ClusterType DEF ReconcileInv
<1>1. UNCHANGED <<apiVars, cache, claim, pc, mem, latest, uids, seen>>
  BY DEF BecomeReady, BecomeUnready, GarbageCollect, WriteKid, workerVars, boundVars
<1>2. Exists(kids[id])
  BY DEF BecomeReady, BecomeUnready, GarbageCollect, Exists
<1>3. PICK kid \in KidObjects :
        /\ kids' = [kids EXCEPT ![id] = kid]
        /\ Exists(kid) => kid.vol = kids[id].vol /\ kid.uid = kids[id].uid
  <2>1. kids[id] \in KidObjects
    BY <1>0 DEF TypeOK
  <2>2. \A st \in KidStates : LET kid == [kids[id] EXCEPT !.st = st] IN
          kid \in KidObjects /\ kid.vol = kids[id].vol /\ kid.uid = kids[id].uid
    BY <2>1 DEF KidObjects
  <2>3. ~Exists(NoKid) /\ NoKid \in KidObjects
    BY NullTypes DEF Exists, NoKid
  <2>4. CASE BecomeReady(id)
    BY <2>2, <2>4 DEF BecomeReady, WriteKid, KidStates
  <2>5. CASE BecomeUnready(id)
    BY <2>2, <2>5 DEF BecomeUnready, WriteKid, KidStates
  <2>6. CASE GarbageCollect(id)
    BY <2>3, <2>6 DEF GarbageCollect, WriteKid
  <2>7. QED
    BY <2>4, <2>5, <2>6
<1>4. Exists(kid) => /\ kid.vol \in Volumes /\ kid.uid <= vol[kid.vol].uid
                     /\ OwnerPresent(kid) => vol[kid.vol].fin /\ vol[kid.vol].ref = id[2]
  BY <1>0, <1>2, <1>3 DEF KidsOwned, KidsFindable, OwnerPresent
<1>5. UNCHANGED vol /\ UNCHANGED seen
  BY <1>1 DEF apiVars
<1>6. KidsOwned' /\ KidsFindable'
  BY <1>0, <1>3, <1>4, <1>5, KidWritten
<1>7. QED
  BY <1>0, <1>1, <1>6, ClusterStep

\* After a crash no copy is held, and the new cache is what is stored.
LEMMA CrashSafe ==
  ASSUME ReconcileInv, Crash
  PROVE  ReconcileInv'
<1>0. TypeOK /\ TypeOK' /\ KidsOwned /\ KidsFindable
  BY CrashType DEF ReconcileInv
<1>1. ASSUME NEW v \in Volumes
      PROVE  StoreInv(v)' /\ ReconcileKnows(v)'
  <2>1. StoreInv(v) /\ Follows(vol[v], vol[v])
    BY <1>0, FollowsReflexive DEF ReconcileInv, TypeOK
  <2>2. /\ cache'[v] = vol[v] /\ watch'[v] = {} /\ pc'[v] = "idle"
        /\ UNCHANGED <<vol, claim, uids>>
    BY DEF Crash
  <2>3. VersionsFollow(v)'
    BY <2>1, <2>2 DEF VersionsFollow
  <2>4. FinalizerHeld(v)'
    BY <2>1, <2>2 DEF StoreInv, FinalizerHeld, Standing
  <2>5. RefsClaimed(v)'
    BY <2>1, <2>2 DEF StoreInv, RefsClaimed, ClaimedBy
  <2>6. QED
    BY <2>2, <2>3, <2>4, <2>5, KnowsNothing DEF StoreInv
<1>2. KidsOwned'
  <2>1. \A id \in Ids : seen'[id] \in {kids[id], NoKid}
    BY DEF Crash
  <2>2. ~Exists(NoKid)
    BY DEF Exists, NoKid
  <2>3. QED
    BY <1>0, <2>1, <2>2 DEF KidsOwned, Crash, Exists
<1>3. KidsFindable'
  BY <1>0 DEF KidsFindable, OwnerPresent, Crash, Exists
<1>4. QED
  BY <1>0, <1>1, <1>2, <1>3 DEF ReconcileInv

---------------------------------------------------------------------------
\* The invariant

\* An empty cluster satisfies the invariant.
LEMMA InitSafe == Init => ReconcileInv
<1> SUFFICES ASSUME Init PROVE ReconcileInv
  OBVIOUS
<1>1. TypeOK
  <2>1. 0 \in 0 .. RetryLimit /\ 0 \in 0 .. MaxUids /\ 0 \in 0 .. MaxEdits /\ 0 \in 0 .. MaxFaults
        /\ 0 \in 0 .. MaxCrashes /\ 0 \in 0 .. MaxFlaps
    BY BoundTypes
  <2>2. QED
    BY <2>1, NullTypes DEF Init, TypeOK, Labels, Phases
<1>2. ASSUME NEW v \in Volumes
      PROVE  StoreInv(v) /\ ReconcileKnows(v)
  <2>1. Follows(NoObject, NoObject)
    BY NullTypes, FollowsReflexive
  <2>2. /\ vol[v] = NoObject /\ cache[v] = NoObject /\ watch[v] = {} /\ pc[v] = "idle"
        /\ uids = 0
    BY DEF Init
  <2>3. NoObject.ref = NoRef /\ NoObject.uid = 0 /\ ~NoObject.fin
    BY DEF NoObject
  <2>4. StoreInv(v)
    BY <2>1, <2>2, <2>3
       DEF StoreInv, VersionsFollow, FinalizerHeld, RefsClaimed, ClaimedBy
  <2>5. ReconcileKnows(v)
    BY <2>2 DEF ReconcileKnows, Writing, Working, Creating, Deleting, Cleaning
  <2>6. QED
    BY <2>4, <2>5
<1>3. \A id \in Ids : ~Exists(kids[id]) /\ ~Exists(seen[id])
  BY DEF Init, Exists, NoKid
<1>4. QED
  BY <1>1, <1>2, <1>3 DEF ReconcileInv, KidsOwned, KidsFindable

\* Every step of a reconcile keeps the invariant.
LEMMA WorkerSafe ==
  ASSUME ReconcileInv, NEW v \in Volumes, Worker(v)
  PROVE  ReconcileInv'
<1>1. CASE \E kind \in Kinds \ {"nfs"} : EnsureKid(v, kind)
  BY <1>1, EnsureKidSafe
<1>2. CASE \E step \in CleanupSteps : CleanupKid(v, step)
  BY <1>2, CleanupKidSafe
<1>3. CASE Fetch(v) \/ EnsureFinalizer(v) \/ GenerateNfsServer(v) \/ CreateNfsServer(v)
           \/ CheckNfsServer(v) \/ AssignRef(v) \/ UpdateSync(v)
  BY <1>3, FetchSafe, EnsureFinalizerSafe, GenerateNfsServerSafe, CreateNfsServerSafe,
     CheckNfsServerSafe, AssignRefSafe, UpdateSyncSafe
<1>4. CASE CheckNfs(v) \/ CheckPvc(v) \/ CheckRs(v) \/ GetForStatus(v) \/ WriteStatus(v)
           \/ Callback(v)
  BY <1>4, CheckSafe, GetForStatusSafe, WriteStatusSafe, CallbackSafe
<1>5. CASE StopSync(v) \/ GetForRelease(v) \/ WriteRelease(v)
  BY <1>5, StopSyncSafe, GetForReleaseSafe, WriteReleaseSafe
<1>6. QED
  BY <1>1, <1>2, <1>3, <1>4, <1>5 DEF Worker

\* The invariant is inductive: every step of the system keeps it.
LEMMA NextSafe == ReconcileInv /\ [Next]_vars => ReconcileInv'
<1> SUFFICES ASSUME ReconcileInv, [Next]_vars PROVE ReconcileInv'
  OBVIOUS
<1>1. CASE \E v \in Volumes : Worker(v)
  BY <1>1, WorkerSafe
<1>2. CASE Informers
  BY <1>2, DeliverSafe, DeliverKidSafe DEF Informers
<1>3. CASE Cluster
  BY <1>3, ClusterSafe DEF Cluster
<1>4. CASE Users
  BY <1>4, UsersSafe DEF Users
<1>5. CASE Crash
  BY <1>5, CrashSafe
<1>6. CASE UNCHANGED vars
  <2>1. TypeOK'
    BY <1>6 DEF ReconcileInv, vars, TypeOK
  <2>2. KidsOwned' /\ KidsFindable'
    BY <1>6 DEF ReconcileInv, vars, KidsOwned, KidsFindable, Exists, OwnerPresent
  <2>3. UNCHANGED <<apiVars, cache, claim, pc, mem, latest, uids>>
    BY <1>6 DEF vars, apiVars
  <2>4. QED
    BY <2>1, <2>2, <2>3, ClusterStep
<1>7. QED
  BY <1>1, <1>2, <1>3, <1>4, <1>5, <1>6 DEF Next

\* ReconcileInv holds in every reachable state: what every copy held by an informer, the
\* cache or a reconcile says of the stored object, through lag, conflicts, failures,
\* crashes and recreation under the same name.
THEOREM ReconcileInvariant == Spec => []ReconcileInv
<1>1. QED
  BY InitSafe, NextSafe, PTL DEF Spec

\* Every variable keeps its type.
THEOREM TypeCorrect == Spec => []TypeOK
<1>1. ReconcileInv => TypeOK
  BY DEF ReconcileInv
<1>2. QED
  BY <1>1, ReconcileInvariant, PTL

\* A volume that exists always holds its finalizer and the reference value in the names
\* of the children made for it (ensureFinalizer and GenerateAndCreateNfsServer before
\* CreateAndOwnNfsServer): cleanup by that value can find them.
THEOREM KidsAlwaysFindable == Spec => []KidsFindable
<1>1. ReconcileInv => KidsFindable
  BY DEF ReconcileInv
<1>2. QED
  BY <1>1, ReconcileInvariant, PTL
============================================================================
