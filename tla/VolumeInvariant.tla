-------------------------- MODULE VolumeInvariant --------------------------
(***************************************************************************)
(* The inductive invariant of VolumeReconciler: what relates the stored    *)
(* version of a volume to the older ones that its informer, its cache and  *)
(* its reconcile in progress still hold.  VolumeSafetyProofs proves it     *)
(* for all constants; a TLC run checks it on a small instance first.       *)
(***************************************************************************)
EXTENDS VolumeReconciler

\* Version d of a volume may follow version c: of the same object (uid), or of a
\* later object of the same name.
Follows(d, c) ==
  /\ c.rv <= d.rv /\ c.uid <= d.uid
  /\ c.rv = d.rv => c = d
  /\ c.uid = d.uid =>
       /\ c.st = "deleting" => d.st # "live"
       /\ c.st = "gone" => d.st = "gone"
       /\ c.fin => d.fin \/ d.st = "gone"
       /\ c.ref # NoRef => d.ref = c.ref

\* Labels of a reconcile that is past its finalizer, by what it is doing.
Creating == {"createNfs", "pv", "pvc", "rs", "svc"}
Deleting == {"delRs", "delPvc", "delPv", "delSvc", "delNfs"}
Working  == Creating \cup {"nfs", "assignRef", "sync", "checkNfs", "checkPvc", "checkRs",
                           "status", "writeStatus", "callback"}
Cleaning == Deleting \cup {"stopSync", "release", "writeRelease"}
Writing  == {"writeStatus", "writeRelease"}

\* The object c is a version of still exists.
Standing(v, c) == vol[v].uid = c.uid /\ vol[v].st # "gone"

\* No version is ahead of the API server; the cache trails what is yet to be delivered.
VersionsFollow(v) ==
  /\ Follows(vol[v], cache[v])
  /\ \A w \in watch[v] : /\ Follows(vol[v], w) /\ Follows(w, cache[v])
                         /\ \A x \in watch[v] : w.rv <= x.rv => Follows(x, w)

\* Only the reconciler sets the finalizer, having read the object it sets it on; and
\* only after reading that the object is being deleted does it give it up.
FinalizerHeld(v) ==
  /\ vol[v].uid <= uids
  /\ vol[v].fin => vol[v].st # "gone" /\ vol[v].uid = cache[v].uid
  /\ \A c \in watch[v] \cup {cache[v]} : c.st = "live" /\ c.fin => Standing(v, c)

\* A reference value belongs to one volume name, in every version.
ClaimedBy(v, c) == c.ref # NoRef => claim[c.ref] = v

RefsClaimed(v) == \A c \in watch[v] \cup {vol[v], cache[v]} : ClaimedBy(v, c)

\* A copy the reconcile works on was a version of the volume.
CopyOf(v, c) == Follows(vol[v], c) /\ ClaimedBy(v, c)

\* What each part of the reconcile knows of the object it is working for.
ReconcileKnows(v) ==
  /\ pc[v] # "idle" => CopyOf(v, mem[v]) /\ mem[v].uid <= cache[v].uid
  /\ pc[v] \in Writing => CopyOf(v, latest[v]) /\ latest[v].st # "gone"
  /\ pc[v] = "finalizer" => mem[v].st = "live" /\ (mem[v].fin => Standing(v, mem[v]))
  /\ pc[v] \in Working => mem[v].st = "live" /\ mem[v].fin /\ Standing(v, mem[v])
  /\ pc[v] \in Creating \cup Deleting => mem[v].ref # NoRef
  /\ pc[v] = "assignRef" => mem[v].ref = NoRef
  /\ pc[v] \in Cleaning =>
       /\ mem[v].st = "deleting" /\ mem[v].fin
       /\ Follows(cache[v], mem[v])
       /\ vol[v].fin => vol[v].uid = mem[v].uid
  /\ pc[v] = "writeRelease" =>
       latest[v].fin /\ Follows(latest[v], mem[v]) /\ Follows(cache[v], latest[v])

KidsOwned ==
  \A id \in Ids :
    /\ Exists(kids[id]) => /\ kids[id].vol \in Volumes
                           /\ kids[id].uid <= vol[kids[id].vol].uid
    /\ Exists(seen[id]) => seen[id].vol \in Volumes

StoreInv(v) == VersionsFollow(v) /\ FinalizerHeld(v) /\ RefsClaimed(v)

\* The inductive strengthening of KidsFindable (and, with it, of the action
\* properties of VolumeReconciler).
ReconcileInv ==
  /\ TypeOK
  /\ \A v \in Volumes : StoreInv(v) /\ ReconcileKnows(v)
  /\ KidsOwned
  /\ KidsFindable

\* The version stored is in the cache or yet to be delivered.
Reaches(v) == cache[v] = vol[v] \/ vol[v] \in watch[v]

\* A reconcile that nothing has been delivered to since it began works on what the cache
\* has, or on a version that it has stored itself.
UpToDate(v) == pc[v] # "idle" /\ ~queued[v] => cache[v].rv <= mem[v].rv

\* What it has ordered of the SyncController, and what it has written.
OrderKnown(v) ==
  /\ armed[v] => vol[v].fin
  /\ pc[v] \in Cleaning \ {"stopSync"} => ~armed[v]
  /\ pc[v] \in {"checkNfs", "checkPvc", "checkRs"} /\ mem[v].phase = "Ready" =>
       (armed[v] <=> v \in Sourced)
  /\ pc[v] = "callback" => vol[v].phase = want[v] \/ queued[v] \/ vol[v] \in watch[v]

Attended(v) ==
  /\ Settled(v) \/ queued[v] \/ pc[v] # "idle" \/ vol[v] \in watch[v]
  /\ vol[v].st = "deleting" => vol[v].fin
  /\ Reaches(v) /\ UpToDate(v) /\ OrderKnown(v)

\* The inductive form of VolumesAttended, with ReconcileInv.
AttendInv == \A v \in Volumes : Attended(v)
===========================================================================
