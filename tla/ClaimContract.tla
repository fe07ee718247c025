--------------------------- MODULE ClaimContract ---------------------------
(***************************************************************************)
(* What the operator promises about the pods that use a volume and the PV  *)
(* and PVC through which a namespace's pods do: no cache, no workqueue, no *)
(* call to the API server, no restart.  A pod is admitted, runs,           *)
(* terminates, is released by our finalizer and only then goes.  A PV or   *)
(* PVC appears only for an admission to its namespace; it begins to go     *)
(* only when a pod of that namespace has ended or the volume itself is     *)
(* being deleted.                                                          *)
(*                                                                         *)
(* PodClaims implements it with every call that makes and deletes one      *)
(* namespace's objects, VolumeTeardown across namespaces while the volume  *)
(* is deleted.                                                             *)
(***************************************************************************)
CONSTANTS
  Pods,        \* the pods that may use the volume
  Namespaces,
  Home         \* the namespace of each pod

VARIABLES
  life,   \* the volume: "live", "dying" or "gone"
  stage,  \* of each pod: "none", "admitting", "live", "dying", "released" or "gone"
  claim   \* each PV and PVC: "none", "live" or "dying"

contractVars == <<life, stage, claim>>

Claims == {"pv", "pvc"} \X Namespaces

\* Some pods run already, and their namespaces have what they need.
Init ==
  /\ life = "live"
  /\ \E running \in SUBSET Pods :
       /\ stage = [p \in Pods |-> IF p \in running THEN "live" ELSE "none"]
       /\ claim = [c \in Claims |->
                     IF \E p \in running : Home[p] = c[2] THEN "live" ELSE "none"]

\* A pod goes from one stage to the next, and skips none.
Move(p, from, to) ==
  /\ stage[p] = from
  /\ stage' = [stage EXCEPT ![p] = to]
  /\ UNCHANGED <<life, claim>>

Admit(p)   == Move(p, "none", "admitting")
Store(p)   == Move(p, "admitting", "live")
End(p)     == Move(p, "live", "dying")
Release(p) == Move(p, "dying", "released")
Leave(p)   == Move(p, "released", "gone")

\* Admissions come to nothing: one is refused, or all that are under way fail.
Drop(lost) ==
  /\ \A p \in lost : stage[p] = "admitting"
  /\ stage' = [p \in Pods |-> IF p \in lost THEN "none" ELSE stage[p]]
  /\ UNCHANGED <<life, claim>>

\* A PV or PVC is made for a pod that is being admitted to its namespace.
Make(c) ==
  /\ claim[c] = "none"
  /\ \E p \in Pods : Home[p] = c[2] /\ stage[p] = "admitting"
  /\ claim' = [claim EXCEPT ![c] = "live"]
  /\ UNCHANGED <<life, stage>>

\* It goes at once or terminates.
Take(c) ==
  /\ claim[c] = "live"
  /\ \/ life = "dying"
     \/ \E p \in Pods : Home[p] = c[2] /\ stage[p] \in {"dying", "released", "gone"}
  /\ claim' \in {[claim EXCEPT ![c] = s] : s \in {"none", "dying"}}
  /\ UNCHANGED <<life, stage>>

\* What terminates never comes back to life.
Vanish(c) ==
  /\ claim[c] = "dying"
  /\ claim' = [claim EXCEPT ![c] = "none"]
  /\ UNCHANGED <<life, stage>>

DeleteVolume ==
  /\ life = "live"
  /\ life' = "dying"
  /\ UNCHANGED <<stage, claim>>

VolumeGoes ==
  /\ life = "dying"
  /\ life' = "gone"
  /\ UNCHANGED <<stage, claim>>

PodMoves == \E p \in Pods : Admit(p) \/ Store(p) \/ End(p) \/ Release(p) \/ Leave(p)

Next ==
  \/ PodMoves
  \/ \E lost \in SUBSET Pods : Drop(lost)
  \/ \E c \in Claims : Make(c) \/ Take(c) \/ Vanish(c)
  \/ DeleteVolume \/ VolumeGoes

Spec == Init /\ [][Next]_contractVars
=============================================================================
