-------------------------- MODULE VolumeRefinement --------------------------
(***************************************************************************)
(* VolumeReconciler implements VolumeContract: the mapping from the stored *)
(* volumes and children to the life, the name and the children of the      *)
(* contract.                                                               *)
(***************************************************************************)
EXTENDS VolumeInvariant

Life(obj) == CASE obj.st = "gone" -> "absent"
               [] obj.st = "deleting" -> "leaving"
               [] obj.st = "live" -> IF obj.fin THEN "held" ELSE "new"

NameOf(obj) == IF obj.st = "gone" THEN NoRef ELSE obj.ref

\* The children made for the object stored now, not for an earlier one of its name.
MadeFor(v) ==
  {id \in Ids : Exists(kids[id]) /\ kids[id].vol = v /\ OwnerPresent(kids[id])}

lives == [v \in Volumes |-> Life(vol[v])]
names == [v \in Volumes |-> NameOf(vol[v])]
mades == [v \in Volumes |-> MadeFor(v)]

Contract == INSTANCE VolumeContract WITH life <- lives, name <- names, made <- mades

\* The reconcile loop, its caches, conflicts, crashes and the users around it keep to
\* VolumeContract (ensureFinalizer, GenerateAndCreateNfsServer, CleanupResourcesInNamespace).
Implements == Contract!Spec
=============================================================================
