--------------------------- MODULE VolumeContract ---------------------------
(***************************************************************************)
(* What the reconciler promises about a volume and the objects made for    *)
(* it, whatever its caches show and wherever it is interrupted.  There is  *)
(* no cache here, no retry and no crash: a volume is created, held by the  *)
(* finalizer, given the reference value its children are named by, leaves  *)
(* and is gone.  Children are made for held volumes under that value, and  *)
(* taken away only from a volume that is leaving.                          *)
(***************************************************************************)
CONSTANTS
  Volumes,  \* names of volumes
  Kinds,    \* kinds of children
  Refs,     \* reference values
  NoRef     \* none given yet

VARIABLES
  life,  \* of each volume: "absent", "new", "held" or "leaving"
  name,  \* its reference value
  made   \* the children made for the present object of that name: <<kind, ref>>

contractVars == <<life, name, made>>

Init ==
  /\ life = [v \in Volumes |-> "absent"]
  /\ name = [v \in Volumes |-> NoRef]
  /\ made = [v \in Volumes |-> {}]

\* A user may choose the reference value, otherwise it is still to be given.
Create(v) ==
  /\ life[v] = "absent"
  /\ life' = [life EXCEPT ![v] = "new"]
  /\ \E r \in Refs \cup {NoRef} : name' = [name EXCEPT ![v] = r]
  /\ UNCHANGED made

Hold(v) ==
  /\ life[v] = "new"
  /\ life' = [life EXCEPT ![v] = "held"]
  /\ UNCHANGED <<name, made>>

\* Given once: children made later are found by it.
Name(v) ==
  /\ life[v] = "held" /\ name[v] = NoRef
  /\ \E r \in Refs : name' = [name EXCEPT ![v] = r]
  /\ UNCHANGED <<life, made>>

\* Also of a volume that is leaving already: a reconcile under way does not notice.
Make(v) ==
  /\ life[v] \in {"held", "leaving"} /\ name[v] # NoRef
  /\ \E kind \in Kinds : made' = [made EXCEPT ![v] = @ \cup {<<kind, name[v]>>}]
  /\ UNCHANGED <<life, name>>

Unmake(v) ==
  /\ life[v] = "leaving"
  /\ \E id \in made[v] : made' = [made EXCEPT ![v] = @ \ {id}]
  /\ UNCHANGED <<life, name>>

Leave(v) ==
  /\ life[v] = "held"
  /\ life' = [life EXCEPT ![v] = "leaving"]
  /\ UNCHANGED <<name, made>>

\* A volume nobody holds yet goes at once.
Go(v) ==
  /\ life[v] \in {"new", "leaving"}
  /\ life' = [life EXCEPT ![v] = "absent"]
  /\ name' = [name EXCEPT ![v] = NoRef]
  /\ made' = [made EXCEPT ![v] = {}]

Next == \E v \in Volumes :
  Create(v) \/ Hold(v) \/ Name(v) \/ Make(v) \/ Unmake(v) \/ Leave(v) \/ Go(v)

Spec == Init /\ [][Next]_contractVars
=============================================================================
