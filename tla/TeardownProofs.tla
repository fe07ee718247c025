--------------------------- MODULE TeardownProofs ---------------------------
(***************************************************************************)
(* Proofs about VolumeTeardown: what its cleanup guarantees for every      *)
(* number of namespaces, pods and restarts, and whichever caches lag.      *)
(* Every step but the first of a cleanup only shrinks what is owed         *)
(* (Shrinks); the cleanup's own steps then advance Progress stage by       *)
(* stage.  At the end, step by step, that VolumeTeardown implements        *)
(* ClaimContract.                                                          *)
(***************************************************************************)
EXTENDS VolumeTeardown, TLAPS

States == {"none", "live", "dying"}

\* What is owed becomes less, and what terminates goes on terminating.
Shrinks ==
  /\ owed' \subseteq owed
  /\ \A x \in owed' : claim'[x] # "none" /\ (claim[x] = "dying" => claim'[x] = "dying")

LEMMA InitInv == Init => TeardownInv
<1>. SUFFICES ASSUME Init PROVE TeardownInv
  OBVIOUS
<1>1. TypeOK
  <2>1. cleanup \in [pc: {"idle", "list", "each", "wait", "servers", "release"},
                     kind: Kinds, todo: SUBSET Namespaces, late: BOOLEAN]
    BY DEF Init, NoCleanup, Kinds
  <2>2. job \in [pc: {"idle", "users", "pvc", "pv"}, pod: Pods \cup {Nobody}] /\ job.pc = "idle"
    BY DEF Init, NoJob
  <2>3. claim \in [Objects -> {"none", "live", "dying"}] /\ seen \subseteq Lagging
    BY DEF Init
  <2>4. crashes \in 0 .. MaxCrashes
    BY TeardownAssumption DEF Init
  <2>. QED
    BY <2>1, <2>2, <2>3, <2>4 DEF Init, TypeOK
<1>2. Accounted
  BY DEF Init, Accounted, NoCleanup
<1>3. Progress
  BY DEF Init, Progress, NoCleanup
<1>. QED
  BY <1>1, <1>2, <1>3 DEF TeardownInv

\* Storing a new state of an object that is owed leaves it owed or takes it out.
LEMMA PutShrinks ==
  ASSUME TypeOK, Accounted, NEW o \in Objects, NEW s \in States, Put(o, s),
         s = "live" => claim[o] = "none"
  PROVE  /\ Shrinks
         /\ claim' \in [Objects -> States]
         /\ \A x \in owed' : x # o => claim'[x] = claim[x]
         /\ o \in owed' => claim'[o] = "dying"
<1>1. claim' = [claim EXCEPT ![o] = s] /\ claim \in [Objects -> States]
  BY DEF Put, TypeOK, States
<1>2. claim' \in [Objects -> States] /\ claim'[o] = s
      /\ \A x \in Objects : x # o => claim'[x] = claim[x]
  BY <1>1
<1>3. owed' \subseteq owed /\ owed \subseteq Objects
  BY DEF Put, TypeOK
<1>4. o \in owed' => s = "dying"
  BY <1>3 DEF Put, Accounted, States
<1>. QED
  BY <1>2, <1>3, <1>4 DEF Shrinks, Accounted

LEMMA ForceDeleteShrinks ==
  ASSUME TypeOK, Accounted, NEW o \in Objects, ForceDelete(o)
  PROVE  /\ Shrinks
         /\ claim' \in [Objects -> States]
         /\ \A x \in owed' : x # o => claim'[x] = claim[x]
         /\ o \in owed' => claim'[o] = "dying"
<1>1. CASE claim[o] = "none"
  BY <1>1 DEF ForceDelete, Shrinks, TypeOK, Accounted, States
<1>2. CASE claim[o] # "none"
  <2>1. Put(o, "none") \/ Put(o, "dying")
    BY <1>2 DEF ForceDelete
  <2>2. CASE Put(o, "none")
    <3>1. "none" \in States
      BY DEF States
    <3>. QED
      BY <2>2, <3>1, PutShrinks
  <2>3. CASE Put(o, "dying")
    <3>1. "dying" \in States
      BY DEF States
    <3>. QED
      BY <2>3, <3>1, PutShrinks
  <2>. QED
    BY <2>1, <2>2, <2>3
<1>. QED
  BY <1>1, <1>2

\* What a step that leaves the cleanup alone has to keep.
LEMMA AloneKeepsProgress ==
  ASSUME Progress, Shrinks, cleanup' = cleanup, vol' = "gone" => vol = "gone"
  PROVE  Progress'
<1>1. \A x \in owed' : x \in owed /\ (claim[x] = "dying" => claim'[x] = "dying")
  BY DEF Shrinks
<1>. QED
  BY <1>1 DEF Progress

LEMMA AloneKeepsAccounted ==
  ASSUME TypeOK, Accounted, Shrinks, cleanup' = cleanup, vol' = vol, seen' = seen
  PROVE  Accounted'
<1>1. \A x \in owed' : x \in owed /\ claim'[x] # "none"
  BY DEF Shrinks
<1>2. \A x \in owed' : Seen(x)'
  BY <1>1 DEF Accounted, Seen
<1>. QED
  BY <1>1, <1>2 DEF Accounted, NoCleanup

\* A step that leaves claims and the cleanup alone.
LEMMA QuietKeepsInv ==
  ASSUME TeardownInv, TypeOK', UNCHANGED <<vol, claim, seen, cleanup, owed>>
  PROVE  TeardownInv'
<1>1. Accounted'
  BY DEF TeardownInv, Accounted, Seen, NoCleanup
<1>2. Progress'
  BY DEF TeardownInv, Progress
<1>. QED
  BY <1>1, <1>2 DEF TeardownInv

\* A step of somebody else that makes, deletes or loses an object.
LEMMA ShrinkKeepsInv ==
  ASSUME TeardownInv, TypeOK', Shrinks, UNCHANGED <<vol, seen, cleanup>>
  PROVE  TeardownInv'
<1>1. Accounted'
  BY AloneKeepsAccounted DEF TeardownInv
<1>2. Progress'
  BY AloneKeepsProgress DEF TeardownInv
<1>. QED
  BY <1>1, <1>2 DEF TeardownInv

---------------------------------------------------------------------------
\* The webhook and the pod cleanup reconciler

LEMMA EnsureKeepsInv ==
  ASSUME TeardownInv, NEW p \in Pods, NEW kind \in Kinds, Ensure(p, kind)
  PROVE  TeardownInv'
<1> DEFINE o == <<kind, p[1]>>
<1>1. o \in Objects
  BY TeardownAssumption DEF Objects
<1>2. request' \in [Pods -> {"idle", "pv", "pvc", "store"}]
  BY DEF Ensure, Answer, AfterEnsure, TeardownInv, TypeOK, Kinds
<1>3. CASE UNCHANGED <<claim, owed>>
  <2>1. TypeOK'
    BY <1>2, <1>3 DEF Ensure, TeardownInv, TypeOK
  <2>. QED
    BY <2>1, <1>3, QuietKeepsInv DEF Ensure
<1>4. CASE claim[o] = "none" /\ Put(o, "live")
  <2>1. "live" \in States /\ TypeOK /\ Accounted
    BY DEF States, TeardownInv
  <2>2. Shrinks /\ claim' \in [Objects -> States]
    BY <1>1, <1>4, <2>1, PutShrinks
  <2>3. TypeOK'
    BY <1>2, <2>2 DEF Ensure, TeardownInv, TypeOK, Shrinks, States
  <2>. QED
    BY <2>2, <2>3, ShrinkKeepsInv DEF Ensure
<1>. QED
  BY <1>3, <1>4 DEF Ensure

LEMMA DeleteForPodKeepsInv ==
  ASSUME TeardownInv, NEW kind \in Kinds, DeleteForPod(kind)
  PROVE  TeardownInv'
<1> DEFINE o == <<kind, job.pod[1]>>
<1>0. job.pod \in Pods /\ kind # "idle"
  BY DEF DeleteForPod, TeardownInv, TypeOK, Kinds
<1>1. o \in Objects
  BY <1>0, TeardownAssumption DEF Objects
<1>2. /\ job' \in [pc: {"idle", "users", "pvc", "pv"}, pod: Pods \cup {Nobody}]
      /\ job'.pc # "idle" => job'.pod \in Pods
  BY <1>0 DEF DeleteForPod, NoJob, TeardownInv, TypeOK
<1>3. CASE UNCHANGED <<claim, owed>>
  <2>1. TypeOK'
    BY <1>2, <1>3 DEF DeleteForPod, TeardownInv, TypeOK
  <2>. QED
    BY <2>1, <1>3, QuietKeepsInv DEF DeleteForPod
<1>4. CASE ForceDelete(o)
  <2>1. Shrinks /\ claim' \in [Objects -> States]
    BY <1>1, <1>4, ForceDeleteShrinks DEF TeardownInv
  <2>2. TypeOK'
    BY <1>2, <2>1 DEF DeleteForPod, TeardownInv, TypeOK, Shrinks, States
  <2>. QED
    BY <2>1, <2>2, ShrinkKeepsInv DEF DeleteForPod
<1>. QED
  BY <1>3, <1>4 DEF DeleteForPod

LEMMA PodsKeepInv ==
  ASSUME TeardownInv, NEW p \in Pods,
         \/ Admit(p) \/ Store(p) \/ Reconcile(p) \/ CheckUsers
         \/ DeletePod(p) \/ Kubelet(p)
  PROVE  TeardownInv'
<1>1. UNCHANGED <<vol, claim, seen, cleanup, owed>>
  BY DEF Admit, Store, Reconcile, CheckUsers, DeletePod, Kubelet
<1>2. request' \in [Pods -> {"idle", "pv", "pvc", "store"}]
  BY DEF Admit, Store, Answer, Reconcile, CheckUsers, DeletePod, Kubelet, TeardownInv, TypeOK
<1>3. pod' \in [Pods -> {"none", "live", "dying", "released", "gone"}]
  BY DEF Admit, Store, Reconcile, CheckUsers, DeletePod, Kubelet, TeardownInv, TypeOK
<1>4. /\ job' \in [pc: {"idle", "users", "pvc", "pv"}, pod: Pods \cup {Nobody}]
      /\ job'.pc # "idle" => job'.pod \in Pods
  BY DEF Admit, Store, Reconcile, CheckUsers, DeletePod, Kubelet, NoJob, TeardownInv, TypeOK
<1>5. TypeOK'
  BY <1>1, <1>2, <1>3, <1>4
  DEF Admit, Store, Reconcile, CheckUsers, DeletePod, Kubelet, TeardownInv, TypeOK
<1>. QED
  BY <1>1, <1>5, QuietKeepsInv

---------------------------------------------------------------------------
\* The cleanup

\* AfterList goes on with what is left, with the PVs, or waits.
LEMMA AfterListType ==
  ASSUME TypeOK, NEW todo \in SUBSET Namespaces, AfterList(todo)
  PROVE  /\ cleanup' \in [pc: {"idle", "list", "each", "wait", "servers", "release"},
                          kind: Kinds, todo: SUBSET Namespaces, late: BOOLEAN]
         /\ cleanup'.late = cleanup.late
         /\ \/ /\ todo # {} /\ cleanup'.pc = "each"
               /\ cleanup'.kind = cleanup.kind /\ cleanup'.todo = todo
            \/ /\ todo = {} /\ cleanup.kind = "pvc"
               /\ cleanup'.pc = "list" /\ cleanup'.kind = "pv"
            \/ todo = {} /\ cleanup.kind = "pv" /\ cleanup'.pc = "wait"
  BY DEF AfterList, TypeOK, Kinds

\* The stage is done but for the places still to do.
LEMMA AfterListKeepsProgress ==
  ASSUME TypeOK, Progress, Shrinks, NEW todo \in SUBSET Namespaces, AfterList(todo),
         cleanup.pc \in {"list", "each"}, vol = "dying", vol' = vol,
         \A o \in owed' : o[1] = cleanup.kind /\ o[2] \notin todo => claim'[o] = "dying"
  PROVE  Progress'
<1>1. ~cleanup.late /\ cleanup'.late = cleanup.late
  BY AfterListType DEF Progress
<1>2. cleanup.kind = "pv" => \A o \in owed' : o[1] = "pvc" => claim'[o] = "dying"
  BY DEF Progress, Shrinks
<1>3. CASE todo # {} /\ cleanup'.pc = "each" /\ cleanup'.kind = cleanup.kind /\ cleanup'.todo = todo
  BY <1>1, <1>2, <1>3 DEF Progress
<1>4. CASE todo = {} /\ cleanup.kind = "pvc" /\ cleanup'.pc = "list" /\ cleanup'.kind = "pv"
  BY <1>1, <1>4 DEF Progress
<1>5. CASE todo = {} /\ cleanup.kind = "pv" /\ cleanup'.pc = "wait"
  <2>1. \A o \in owed' : o[1] \in {"pvc", "pv"}
    BY DEF TypeOK, Objects, Kinds, Shrinks
  <2>2. \A o \in owed' : claim'[o] = "dying"
    BY <2>1, <1>2, <1>5
  <2>. QED
    BY <2>2, <1>1, <1>5 DEF Progress
<1>. QED
  BY <1>3, <1>4, <1>5, AfterListType


LEMMA BeginKeepsInv ==
  ASSUME TeardownInv, Begin
  PROVE  TeardownInv'
<1>1. /\ cleanup = NoCleanup /\ cleanup' = [NoCleanup EXCEPT !.pc = "list"]
      /\ vol = "dying" /\ vol' = vol /\ claim' = claim /\ seen' = seen
  BY DEF Begin, Step, TeardownInv, Accounted
<1>2. owed' = {o \in Objects : claim[o] # "none" /\ Seen(o)}
  BY DEF Begin
<1>3. TypeOK'
  BY <1>1, <1>2 DEF Begin, podVars, NoCleanup, Kinds, TeardownInv, TypeOK
<1>4. Accounted'
  BY <1>1, <1>2 DEF Accounted, Seen, NoCleanup
<1>5. Progress'
  BY <1>1 DEF Progress, NoCleanup
<1>. QED
  BY <1>3, <1>4, <1>5 DEF TeardownInv

LEMMA ListKeepsInv ==
  ASSUME TeardownInv, List
  PROVE  TeardownInv'
<1> DEFINE todo == {n \in Namespaces : Seen(<<cleanup.kind, n>>)}
<1>1. /\ todo \in SUBSET Namespaces /\ AfterList(todo)
      /\ cleanup.pc = "list" /\ vol = "dying"
      /\ UNCHANGED <<vol, there, podVars, claim, seen, serving, owed, crashes>>
  BY DEF List, TeardownInv, Accounted
<1>2. Shrinks
  BY <1>1 DEF Shrinks, TeardownInv, Accounted
<1>3. \A o \in owed : o[1] = cleanup.kind => o[2] \in todo
  <2>. SUFFICES ASSUME NEW o \in owed, o[1] = cleanup.kind PROVE o[2] \in todo
    OBVIOUS
  <2>1. o \in Kinds \X Namespaces /\ Seen(o)
    BY DEF TeardownInv, TypeOK, Accounted, Objects
  <2>2. o = <<cleanup.kind, o[2]>> /\ o[2] \in Namespaces
    BY <2>1
  <2>. QED
    BY <2>1, <2>2
<1>4. \A o \in owed' : o[1] = cleanup.kind /\ o[2] \notin todo => claim'[o] = "dying"
  BY <1>1, <1>3
<1>5. TypeOK /\ Progress /\ Accounted
  BY DEF TeardownInv
<1>6. Progress'
  <2>. HIDE DEF todo
  <2>. QED
    BY <1>1, <1>2, <1>4, <1>5, AfterListKeepsProgress
<1>7. cleanup' \in [pc: {"idle", "list", "each", "wait", "servers", "release"},
                    kind: Kinds, todo: SUBSET Namespaces, late: BOOLEAN]
      /\ cleanup'.pc # "idle"
  <2>. HIDE DEF todo
  <2>. QED
    BY <1>1, <1>5, AfterListType
<1>8. TypeOK'
  BY <1>1, <1>5, <1>7 DEF TypeOK, podVars
<1>9. Accounted'
  BY <1>1, <1>5, <1>7 DEF Accounted, Seen
<1>. QED
  BY <1>6, <1>8, <1>9 DEF TeardownInv

LEMMA DeleteListedKeepsInv ==
  ASSUME TeardownInv, NEW n \in Namespaces, DeleteListed(n)
  PROVE  TeardownInv'
<1> DEFINE o == <<cleanup.kind, n>>
           left == cleanup.todo \ {n}
<1>0. TypeOK /\ Progress /\ Accounted
  BY DEF TeardownInv
<1>1. /\ left \in SUBSET Namespaces /\ AfterList(left) /\ ForceDelete(o)
      /\ cleanup.pc = "each" /\ vol = "dying"
      /\ UNCHANGED <<vol, there, podVars, seen, serving, crashes>>
  BY <1>0 DEF DeleteListed, Accounted, TypeOK
<1>2. o \in Objects
  BY <1>0 DEF Objects, TypeOK
<1>3. /\ Shrinks /\ claim' \in [Objects -> States]
      /\ o \in owed' => claim'[o] = "dying"
  BY <1>0, <1>1, <1>2, ForceDeleteShrinks
<1>4. \A x \in owed' : x[1] = cleanup.kind /\ x[2] \notin left => claim'[x] = "dying"
  <2>. SUFFICES ASSUME NEW x \in owed', x[1] = cleanup.kind, x[2] \notin left
                PROVE  claim'[x] = "dying"
    OBVIOUS
  <2>1. x \in owed /\ x \in Kinds \X Namespaces
    BY <1>0, <1>3 DEF Shrinks, TypeOK, Objects
  <2>2. CASE x[2] = n
    <3>1. x = o
      BY <2>1, <2>2
    <3>. QED
      BY <3>1, <1>3
  <2>3. CASE x[2] # n
    <3>1. x[2] \notin cleanup.todo
      BY <2>3
    <3>2. claim[x] = "dying"
      BY <3>1, <2>1, <1>0, <1>1 DEF Progress
    <3>. QED
      BY <3>2, <1>3 DEF Shrinks
  <2>. QED
    BY <2>2, <2>3
<1>5. Progress'
  <2>. HIDE DEF left
  <2>. QED
    BY <1>0, <1>1, <1>3, <1>4, AfterListKeepsProgress
<1>6. cleanup' \in [pc: {"idle", "list", "each", "wait", "servers", "release"},
                    kind: Kinds, todo: SUBSET Namespaces, late: BOOLEAN]
      /\ cleanup'.pc # "idle"
  <2>. HIDE DEF left
  <2>. QED
    BY <1>0, <1>1, AfterListType
<1>7. TypeOK'
  BY <1>0, <1>1, <1>3, <1>6 DEF TypeOK, podVars, Shrinks, States
<1>8. Accounted'
  <2>1. \A x \in owed' : x \in owed /\ claim'[x] # "none"
    BY <1>3 DEF Shrinks
  <2>2. \A x \in owed' : Seen(x)'
    BY <2>1, <1>0, <1>1 DEF Accounted, Seen
  <2>. QED
    BY <2>1, <2>2, <1>1, <1>6 DEF Accounted
<1>. QED
  BY <1>5, <1>7, <1>8 DEF TeardownInv

\* Only without a PV in the cache, hence without one owed, does the wait end in time.
LEMMA WaitKeepsInv ==
  ASSUME TeardownInv, Wait
  PROVE  TeardownInv'
<1>0. TypeOK /\ Progress /\ Accounted
  BY DEF TeardownInv
<1>1. /\ cleanup.pc = "wait" /\ vol = "dying"
      /\ UNCHANGED <<vol, there, podVars, claim, seen, serving, owed, crashes>>
  BY <1>0 DEF Wait, Accounted
<1>2. \/ /\ \A n \in Namespaces : ~Seen(<<"pv", n>>)
         /\ cleanup' = [cleanup EXCEPT !.pc = "servers"]
      \/ cleanup' = [cleanup EXCEPT !.pc = "servers", !.late = TRUE]
  BY DEF Wait, Deadline, Step
<1>3. TypeOK'
  BY <1>0, <1>1, <1>2 DEF TypeOK, podVars
<1>4. Accounted'
  BY <1>0, <1>1, <1>2 DEF Accounted, Seen, TypeOK
<1>5. cleanup'.pc = "servers" /\ ~cleanup'.late => \A o \in owed' : o[1] # "pv"
  <2>. SUFFICES ASSUME ~cleanup'.late, NEW o \in owed, o[1] = "pv" PROVE FALSE
    BY <1>1
  <2>1. o \in Kinds \X Namespaces /\ Seen(o)
    BY <1>0 DEF TypeOK, Accounted, Objects
  <2>2. o = <<"pv", o[2]>> /\ o[2] \in Namespaces
    BY <2>1
  <2>3. cleanup'.late = cleanup.late \/ cleanup'.late
    BY <1>2, <1>0 DEF TypeOK
  <2>4. \A n \in Namespaces : ~Seen(<<"pv", n>>)
    BY <1>2, <1>0 DEF TypeOK
  <2>. QED
    BY <2>1, <2>2, <2>4
<1>6. cleanup'.pc = "servers" /\ \A o \in owed' : claim'[o] = "dying"
  BY <1>0, <1>1, <1>2 DEF Progress, TypeOK
<1>7. Progress'
  BY <1>5, <1>6 DEF Progress
<1>. QED
  BY <1>3, <1>4, <1>7 DEF TeardownInv

LEMMA DeleteServersKeepsInv ==
  ASSUME TeardownInv, DeleteServers
  PROVE  TeardownInv'
<1>0. TypeOK /\ Progress /\ Accounted
  BY DEF TeardownInv
<1>1. /\ cleanup.pc = "servers" /\ cleanup' = [cleanup EXCEPT !.pc = "release"]
      /\ serving' = FALSE
      /\ UNCHANGED <<vol, there, podVars, claim, seen, owed, crashes>>
  BY DEF DeleteServers, Step
<1>2. TypeOK'
  BY <1>0, <1>1 DEF TypeOK, podVars
<1>3. cleanup'.pc = "release"
  BY <1>0, <1>1 DEF TypeOK
<1>4. Accounted'
  BY <1>0, <1>1, <1>3 DEF Accounted, Seen
<1>5. Progress'
  BY <1>0, <1>1, <1>3 DEF Progress
<1>. QED
  BY <1>2, <1>4, <1>5 DEF TeardownInv

LEMMA ReleaseKeepsInv ==
  ASSUME TeardownInv, Release
  PROVE  TeardownInv'
<1>0. TypeOK /\ Progress /\ Accounted
  BY DEF TeardownInv
<1>1. /\ cleanup.pc = "release" /\ vol' = "gone" /\ cleanup' = NoCleanup
      /\ UNCHANGED <<there, podVars, claim, seen, serving, owed, crashes>>
  BY DEF Release
<1>2. TypeOK'
  BY <1>0, <1>1 DEF TypeOK, podVars, NoCleanup, Kinds
<1>3. Accounted'
  BY <1>0, <1>1 DEF Accounted, Seen, NoCleanup
<1>4. Progress'
  BY <1>0, <1>1 DEF Progress, NoCleanup
<1>. QED
  BY <1>2, <1>3, <1>4 DEF TeardownInv

---------------------------------------------------------------------------
\* What happens around them

LEMMA DeleteVolumeKeepsInv ==
  ASSUME TeardownInv, DeleteVolume
  PROVE  TeardownInv'
<1>1. TypeOK'
  BY DEF DeleteVolume, TeardownInv, TypeOK, podVars
<1>2. Accounted'
  BY DEF DeleteVolume, TeardownInv, Accounted, Seen, NoCleanup
<1>3. Progress'
  BY DEF DeleteVolume, TeardownInv, Progress, Accounted
<1>. QED
  BY <1>1, <1>2, <1>3 DEF TeardownInv

LEMMA DeliverVolumeKeepsInv ==
  ASSUME TeardownInv, DeliverVolume
  PROVE  TeardownInv'
<1>1. TypeOK' /\ UNCHANGED <<vol, claim, seen, cleanup, owed>>
  BY DEF DeliverVolume, TeardownInv, TypeOK, podVars
<1>. QED
  BY <1>1, QuietKeepsInv

\* What is owed exists, so that no news makes the cache lose it.
LEMMA DeliverKeepsInv ==
  ASSUME TeardownInv, NEW o \in Objects, Deliver(o)
  PROVE  TeardownInv'
<1>1. TypeOK'
  BY DEF Deliver, TeardownInv, TypeOK, podVars
<1>2. \A x \in owed : Seen(x)'
  BY DEF Deliver, TeardownInv, Accounted, Seen
<1>3. Accounted'
  BY <1>2 DEF Deliver, TeardownInv, Accounted, NoCleanup
<1>4. Progress'
  BY DEF Deliver, TeardownInv, Progress
<1>. QED
  BY <1>1, <1>3, <1>4 DEF TeardownInv

LEMMA UnprotectKeepsInv ==
  ASSUME TeardownInv, NEW o \in Objects, Unprotect(o)
  PROVE  TeardownInv'
<1>1. "none" \in States /\ Put(o, "none") /\ TypeOK /\ Accounted
  BY DEF States, Unprotect, TeardownInv
<1>2. Shrinks /\ claim' \in [Objects -> States]
  BY <1>1, PutShrinks
<1>3. TypeOK'
  BY <1>2 DEF Unprotect, TeardownInv, TypeOK, podVars, Shrinks, States
<1>. QED
  BY <1>2, <1>3, ShrinkKeepsInv DEF Unprotect

LEMMA CrashKeepsInv ==
  ASSUME TeardownInv, Crash
  PROVE  TeardownInv'
<1>0. TypeOK /\ Progress /\ Accounted
  BY DEF TeardownInv
<1>1. crashes' \in 0 .. MaxCrashes
  BY <1>0, TeardownAssumption DEF Crash, TypeOK
<1>2. TypeOK'
  BY <1>0, <1>1 DEF Crash, TypeOK, NoJob, NoCleanup, Kinds
<1>3. Accounted'
  BY <1>0 DEF Crash, Accounted, Seen, NoCleanup
<1>4. Progress'
  BY <1>0 DEF Crash, Progress, NoCleanup
<1>. QED
  BY <1>2, <1>3, <1>4 DEF TeardownInv

LEMMA NextKeepsInv == TeardownInv /\ [Next]_vars => TeardownInv'
<1>. SUFFICES ASSUME TeardownInv, [Next]_vars PROVE TeardownInv'
  OBVIOUS
<1>1. CASE VolumeWorker
  BY <1>1, BeginKeepsInv, ListKeepsInv, DeleteListedKeepsInv, WaitKeepsInv,
     DeleteServersKeepsInv, ReleaseKeepsInv DEF VolumeWorker
<1>2. CASE PodWorker
  <2>1. CASE CheckUsers
    <3>1. TypeOK' /\ UNCHANGED <<vol, claim, seen, cleanup, owed>>
      BY <2>1 DEF CheckUsers, NoJob, TeardownInv, TypeOK
    <3>. QED
      BY <3>1, QuietKeepsInv
  <2>. QED
    BY <1>2, <2>1, DeleteForPodKeepsInv DEF PodWorker
<1>3. CASE \E p \in Pods : Webhook(p) \/ Reconcile(p)
  BY <1>3, EnsureKeepsInv, PodsKeepInv DEF Webhook
<1>4. CASE Environment
  BY <1>4, DeleteVolumeKeepsInv, DeliverVolumeKeepsInv, CrashKeepsInv, PodsKeepInv,
     DeliverKeepsInv, UnprotectKeepsInv DEF Environment
<1>5. CASE UNCHANGED vars
  <2>1. TypeOK' /\ UNCHANGED <<vol, claim, seen, cleanup, owed>>
    BY <1>5 DEF vars, TeardownInv, TypeOK
  <2>. QED
    BY <2>1, QuietKeepsInv
<1>. QED
  BY <1>1, <1>2, <1>3, <1>4, <1>5 DEF Next

---------------------------------------------------------------------------
\* Theorems

\* The invariant holds whatever the number of namespaces, pods and restarts, and whichever
\* objects the cache lags behind (CleanupResourcesInNamespace as a whole).
THEOREM TeardownInvariant == Spec => []TeardownInv
<1>1. Init => TeardownInv
  BY InitInv
<1>2. TeardownInv /\ [Next]_vars => TeardownInv'
  BY NextKeepsInv
<1>. QED
  BY <1>1, <1>2, PTL DEF Spec

\* No PVC and PV that was there when the deletion began is left untouched
\* (CleanupAllPVCsInNamespace, CleanupAllPVs).
THEOREM NothingForgotten == Spec => []NoneForgotten
<1>1. TeardownInv => NoneForgotten
  BY DEF TeardownInv, Progress, NoneForgotten
<1>. QED
  BY <1>1, TeardownInvariant, PTL

\* Service and NFS server outlive the PVs (CleanupAllPVsWithWait), but for the deadline.
THEOREM ServersOutlivePvs == Spec => KeptForPvs
<1>1. TeardownInv /\ [Next]_vars =>
        [serving /\ ~serving' => cleanup.late \/ \A o \in owed : o[1] # "pv"]_vars
  <2>. SUFFICES ASSUME TeardownInv, [Next]_vars, serving, ~serving'
                PROVE  cleanup.late \/ \A o \in owed : o[1] # "pv"
    OBVIOUS
  <2>1. DeleteServers
    BY DEF vars, Next, VolumeWorker, Begin, List, DeleteListed, Wait, Release, PodWorker,
       CheckUsers, DeleteForPod, Webhook, Ensure, Store, Reconcile, Environment,
       DeleteVolume, DeliverVolume, Crash, Admit, DeletePod, Kubelet, Deliver, Unprotect
  <2>. QED
    BY <2>1 DEF DeleteServers, TeardownInv, Progress
<1>. QED
  BY <1>1, TeardownInvariant, PTL DEF Spec, KeptForPvs

---------------------------------------------------------------------------
\* Refinement of ClaimContract

contractVars == <<vol, stages, claim>>

\* The claims and what is owed are the cleanup's business, not the pods'.
LEMMA PodsMatchStep == TeardownInv /\ PodsMatch /\ [Next]_vars => PodsMatch'
<1> SUFFICES ASSUME TeardownInv, PodsMatch, [Next]_vars PROVE PodsMatch'
  OBVIOUS
<1>0. /\ pod \in [Pods -> {"none", "live", "dying", "released", "gone"}]
      /\ request \in [Pods -> {"idle", "pv", "pvc", "store"}]
      /\ job \in [pc: {"idle", "users", "pvc", "pv"}, pod: Pods \cup {Nobody}]
      /\ job.pc # "idle" => job.pod \in Pods
  BY DEF TeardownInv, TypeOK
<1>1. CASE UNCHANGED podVars
  BY <1>1 DEF podVars, PodsMatch
<1>2. ASSUME NEW p \in Pods, Admit(p) PROVE PodsMatch'
  BY <1>0, <1>2 DEF Admit, PodsMatch
<1>3. ASSUME NEW p \in Pods, NEW kind \in Kinds, Ensure(p, kind) PROVE PodsMatch'
  <2>1. UNCHANGED <<pod, job>> /\ request[p] = kind /\ \A q \in Pods \ {p} : request'[q] = request[q]
    BY <1>0, <1>3 DEF Ensure, Answer
  <2>2. request[p] # "idle"
    BY <2>1 DEF Kinds
  <2> QED
    BY <1>0, <2>1, <2>2 DEF PodsMatch
<1>4. ASSUME NEW p \in Pods, Store(p) PROVE PodsMatch'
  BY <1>0, <1>4 DEF Store, Answer, PodsMatch
<1>5. ASSUME NEW p \in Pods, Reconcile(p) PROVE PodsMatch'
  BY <1>0, <1>5 DEF Reconcile, NoJob, PodsMatch
<1>6. CASE PodWorker
  <2>1. UNCHANGED <<pod, request>> /\ job.pc # "idle"
    BY <1>6 DEF PodWorker, CheckUsers, DeleteForPod, Kinds
  <2>2. job'.pc # "idle" => job'.pod = job.pod
    <3>1. job' = NoJob \/ job' = [job EXCEPT !.pc = "pvc"] \/ job' = [job EXCEPT !.pc = "pv"]
      BY <1>6 DEF PodWorker, CheckUsers, DeleteForPod
    <3> QED
      BY <1>0, <3>1 DEF NoJob
  <2> QED
    BY <2>1, <2>2 DEF PodsMatch
<1>7. ASSUME NEW p \in Pods, DeletePod(p) \/ Kubelet(p) PROVE PodsMatch'
  BY <1>0, <1>7 DEF DeletePod, Kubelet, PodsMatch
<1>8. CASE Crash
  BY <1>8 DEF Crash, NoJob, PodsMatch
<1>9. VolumeWorker \/ DeleteVolume \/ DeliverVolume \/ (\E o \in Objects : Deliver(o) \/ Unprotect(o))
      \/ UNCHANGED vars => UNCHANGED podVars
  BY DEF VolumeWorker, Begin, List, DeleteListed, Wait, DeleteServers, Release, DeleteVolume,
     DeliverVolume, Deliver, Unprotect, vars, podVars
<1> QED
  BY <1>1, <1>2, <1>3, <1>4, <1>5, <1>6, <1>7, <1>8, <1>9 DEF Next, Webhook, Environment

\* A step that makes or takes away one object does so for a reason.
LEMMA ClaimMaps ==
  ASSUME TypeOK, NEW o \in Objects, NEW s \in States,
         claim' = [claim EXCEPT ![o] = s], UNCHANGED <<vol, stages>>,
         \/ s = claim[o]
         \/ claim[o] = "dying" /\ s = "none"
         \/ claim[o] = "none" /\ s = "live" /\ \E p \in Pods : p[1] = o[2] /\ stages[p] = "admitting"
         \/ /\ claim[o] = "live" /\ s \in {"none", "dying"}
            /\ \/ vol = "dying"
               \/ \E p \in Pods : p[1] = o[2] /\ stages[p] \in {"dying", "released", "gone"}
  PROVE  [Contract!Next]_contractVars
<1>1. o \in Contract!Claims
  BY DEF Objects, Kinds, Contract!Claims
<1>2. CASE s = claim[o]
  BY <1>2 DEF contractVars, TypeOK
<1>3. CASE claim[o] = "dying" /\ s = "none"
  BY <1>1, <1>3 DEF Contract!Next, Contract!Vanish
<1>4. CASE claim[o] = "none" /\ s = "live" /\ \E p \in Pods : p[1] = o[2] /\ stages[p] = "admitting"
  <2>1. Contract!Make(o)
    BY <1>4 DEF Contract!Make
  <2> QED
    BY <1>1, <2>1 DEF Contract!Next
<1>5. CASE /\ claim[o] = "live" /\ s \in {"none", "dying"}
           /\ \/ vol = "dying"
              \/ \E p \in Pods : p[1] = o[2] /\ stages[p] \in {"dying", "released", "gone"}
  <2>1. Contract!Take(o)
    BY <1>5 DEF Contract!Take
  <2> QED
    BY <1>1, <2>1 DEF Contract!Next
<1> QED
  BY <1>2, <1>3, <1>4, <1>5

\* One pod moves on, or its admission is dropped.
LEMMA StageMaps ==
  ASSUME NEW p \in Pods, NEW s, UNCHANGED <<vol, claim>>,
         \A q \in Pods \ {p} : pod'[q] = pod[q] /\ request'[q] = request[q],
         (IF request'[p] # "idle" THEN "admitting" ELSE pod'[p]) = s,
         \/ s = stages[p]
         \/ <<stages[p], s>> \in {<<"none", "admitting">>, <<"admitting", "live">>,
                                  <<"live", "dying">>, <<"dying", "released">>,
                                  <<"released", "gone">>, <<"admitting", "none">>}
  PROVE  [Contract!Next]_contractVars
<1>1. stages' = [stages EXCEPT ![p] = s]
  BY DEF stages
<1>2. CASE s = stages[p]
  BY <1>1, <1>2 DEF contractVars, stages
<1>3. CASE stages[p] = "admitting" /\ s = "none"
  <2>1. stages' = [q \in Pods |-> IF q \in {p} THEN "none" ELSE stages[q]]
    BY <1>1, <1>3 DEF stages
  <2>2. Contract!Drop({p})
    BY <1>3, <2>1 DEF Contract!Drop
  <2> QED
    BY <2>2 DEF Contract!Next
<1>4. CASE <<stages[p], s>> \in {<<"none", "admitting">>, <<"admitting", "live">>,
                                 <<"live", "dying">>, <<"dying", "released">>,
                                 <<"released", "gone">>}
  <2>1. Contract!Move(p, stages[p], s)
    BY <1>1 DEF Contract!Move
  <2>2. Contract!PodMoves
    BY <1>4, <2>1 DEF Contract!PodMoves, Contract!Admit, Contract!Store, Contract!End,
       Contract!Release, Contract!Leave
  <2> QED
    BY <2>2 DEF Contract!Next
<1> QED
  BY <1>2, <1>3, <1>4

\* Every step of the three, and of those around them, is a step of the contract.
LEMMA TeardownStepMaps ==
  ASSUME TeardownInv, PodsMatch, [Next]_vars
  PROVE  [Contract!Next]_contractVars
<1>0. /\ pod \in [Pods -> {"none", "live", "dying", "released", "gone"}]
      /\ request \in [Pods -> {"idle", "pv", "pvc", "store"}]
      /\ job \in [pc: {"idle", "users", "pvc", "pv"}, pod: Pods \cup {Nobody}]
      /\ job.pc # "idle" => job.pod \in Pods
      /\ claim \in [Objects -> States] /\ TypeOK
  BY DEF TeardownInv, TypeOK, States
<1>1. CASE UNCHANGED contractVars
  BY <1>1
<1>2. ASSUME NEW p \in Pods, Admit(p) PROVE [Contract!Next]_contractVars
  BY <1>0, <1>2, StageMaps DEF Admit, stages
<1>3. ASSUME NEW p \in Pods, Store(p) PROVE [Contract!Next]_contractVars
  <2>1. stages[p] = "admitting" /\ pod[p] = "none"
    BY <1>3 DEF Store, stages, PodsMatch
  <2>2. /\ request'[p] = "idle" /\ pod'[p] \in {"none", "live"} /\ UNCHANGED <<vol, claim>>
        /\ \A q \in Pods \ {p} : pod'[q] = pod[q] /\ request'[q] = request[q]
    BY <1>0, <1>3, <2>1 DEF Store, Answer
  <2> QED
    BY <2>1, <2>2, StageMaps
<1>4. ASSUME NEW p \in Pods, NEW kind \in Kinds, Ensure(p, kind)
      PROVE  [Contract!Next]_contractVars
  <2> DEFINE o == <<kind, p[1]>>
  <2>1. o \in Objects /\ stages[p] = "admitting" /\ pod[p] = "none" /\ request[p] = kind
    BY <1>4, TeardownAssumption DEF Ensure, Objects, stages, PodsMatch, Kinds
  <2>2. UNCHANGED <<vol, pod>> /\ \A q \in Pods \ {p} : request'[q] = request[q]
    BY <1>0, <1>4 DEF Ensure, Answer
  <2>3. CASE Answer(p) /\ UNCHANGED claim
    <3>1. request'[p] = "idle" /\ pod'[p] = "none"
      BY <1>0, <2>1, <2>2, <2>3 DEF Answer
    <3> QED
      BY <2>1, <2>2, <2>3, <3>1, StageMaps
  <2>4. CASE request' = [request EXCEPT ![p] = AfterEnsure[kind]]
    <3>1. request'[p] # "idle"
      BY <1>0, <2>4 DEF AfterEnsure, Kinds
    <3>2. UNCHANGED stages
      BY <2>1, <2>2, <3>1 DEF stages, Kinds
    <3>3. UNCHANGED claim \/ (claim[o] = "none" /\ claim' = [claim EXCEPT ![o] = "live"])
      BY <1>4 DEF Ensure, Put
    <3>4. "live" \in States /\ p[1] = o[2]
      BY DEF States
    <3>5. CASE UNCHANGED claim
      BY <2>2, <3>2, <3>5 DEF contractVars
    <3>6. CASE claim[o] = "none" /\ claim' = [claim EXCEPT ![o] = "live"]
      BY <1>0, <2>1, <2>2, <3>2, <3>4, <3>6, ClaimMaps
    <3> QED
      BY <3>3, <3>5, <3>6
  <2> QED
    BY <1>4, <2>3, <2>4 DEF Ensure
<1>5. ASSUME NEW p \in Pods, Reconcile(p) \/ DeletePod(p) \/ Kubelet(p)
      PROVE  [Contract!Next]_contractVars
  <2>1. /\ <<pod[p], pod'[p]>> \in {<<"dying", "released">>, <<"live", "dying">>,
                                    <<"released", "gone">>}
        /\ UNCHANGED <<vol, claim, request>> /\ \A q \in Pods \ {p} : pod'[q] = pod[q]
    BY <1>0, <1>5 DEF Reconcile, DeletePod, Kubelet
  <2>2. request[p] = "idle"
    BY <2>1 DEF PodsMatch
  <2>3. stages[p] = pod[p]
    BY <2>2 DEF stages
  <2> QED
    BY <2>1, <2>2, <2>3, StageMaps
<1>6. ASSUME NEW o \in Objects, ForceDelete(o), UNCHANGED <<vol, stages>>,
             \/ vol = "dying"
             \/ \E p \in Pods : p[1] = o[2] /\ stages[p] \in {"dying", "released", "gone"}
      PROVE  [Contract!Next]_contractVars
  <2>1. CASE UNCHANGED claim
    BY <1>6, <2>1 DEF contractVars
  <2>2. ASSUME NEW s \in {"none", "dying"}, claim' = [claim EXCEPT ![o] = s], claim[o] # "none"
        PROVE  [Contract!Next]_contractVars
    <3>1. s \in States /\ claim[o] \in {"live", "dying"}
      BY <1>0, <2>2 DEF States
    <3>2. \/ s = claim[o] \/ (claim[o] = "dying" /\ s = "none")
          \/ claim[o] = "live" /\ s \in {"none", "dying"}
      BY <2>2, <3>1
    <3> QED
      BY <1>0, <1>6, <2>2, <3>1, <3>2, ClaimMaps
  <2> QED
    BY <1>6, <2>1, <2>2 DEF ForceDelete, Put
<1>7. ASSUME NEW kind \in Kinds, DeleteForPod(kind) PROVE [Contract!Next]_contractVars
  <2> DEFINE o == <<kind, job.pod[1]>>
  <2>1. job.pc # "idle" /\ job.pod \in Pods /\ pod[job.pod] \in {"released", "gone"}
    BY <1>0, <1>7 DEF DeleteForPod, Kinds, PodsMatch
  <2>2. o \in Objects /\ job.pod[1] = o[2]
    BY <2>1, TeardownAssumption DEF Objects
  <2>3. stages[job.pod] \in {"dying", "released", "gone"}
    BY <2>1 DEF stages, PodsMatch
  <2>4. UNCHANGED <<vol, stages>>
    BY <1>7 DEF DeleteForPod, stages
  <2>5. ForceDelete(o) \/ UNCHANGED claim
    BY <1>7 DEF DeleteForPod
  <2>6. CASE UNCHANGED claim
    BY <2>4, <2>6 DEF contractVars
  <2>7. CASE ForceDelete(o)
    <3>1. \E p \in Pods : p[1] = o[2] /\ stages[p] \in {"dying", "released", "gone"}
      BY <2>1, <2>2, <2>3
    <3> HIDE DEF o
    <3> QED
      BY <1>6, <2>2, <2>4, <2>7, <3>1
  <2> QED
    BY <2>5, <2>6, <2>7
<1>8. ASSUME NEW n \in Namespaces, DeleteListed(n) PROVE [Contract!Next]_contractVars
  <2>1. <<cleanup.kind, n>> \in Objects /\ vol = "dying" /\ UNCHANGED <<vol, stages>>
    BY <1>0, <1>8 DEF DeleteListed, TeardownInv, TypeOK, Accounted, Objects, podVars, stages
  <2>2. ForceDelete(<<cleanup.kind, n>>)
    BY <1>8 DEF DeleteListed
  <2> QED
    BY <1>6, <2>1, <2>2
<1>9. ASSUME NEW o \in Objects, Unprotect(o) PROVE [Contract!Next]_contractVars
  <2>1. /\ claim[o] = "dying" /\ claim' = [claim EXCEPT ![o] = "none"] /\ UNCHANGED <<vol, stages>>
        /\ "none" \in States
    BY <1>9 DEF Unprotect, Put, podVars, stages, States
  <2> QED
    BY <1>0, <2>1, ClaimMaps
<1>10. CASE Crash
  <2> DEFINE lost == {p \in Pods : request[p] # "idle"}
  <2>1. \A p \in lost : stages[p] = "admitting" /\ pod[p] = "none"
    BY DEF stages, PodsMatch
  <2>2. stages' = [p \in Pods |-> IF p \in lost THEN "none" ELSE stages[p]]
    BY <1>10, <2>1 DEF Crash, stages
  <2>3. UNCHANGED <<vol, claim>>
    BY <1>10 DEF Crash
  <2>4. Contract!Drop(lost) /\ lost \in SUBSET Pods
    BY <2>1, <2>2, <2>3 DEF Contract!Drop
  <2> QED
    BY <2>4 DEF Contract!Next
<1>11. CASE DeleteVolume \/ Release
  <2>1. /\ <<vol, vol'>> \in {<<"live", "dying">>, <<"dying", "gone">>}
        /\ UNCHANGED <<stages, claim>>
    <3>1. CASE DeleteVolume
      BY <3>1 DEF DeleteVolume, podVars, stages
    <3>2. CASE Release
      <4>1. vol = "dying"
        BY <3>2 DEF Release, TeardownInv, Accounted
      <4> QED
        BY <3>2, <4>1 DEF Release, podVars, stages
    <3> QED
      BY <1>11, <3>1, <3>2
  <2> QED
    BY <2>1 DEF Contract!Next, Contract!DeleteVolume, Contract!VolumeGoes
<1>12. Begin \/ List \/ Wait \/ DeleteServers \/ CheckUsers \/ DeliverVolume
       \/ (\E o \in Objects : Deliver(o)) \/ UNCHANGED vars => UNCHANGED contractVars
  BY DEF Begin, List, Wait, DeleteServers, CheckUsers, DeliverVolume, Deliver, vars, podVars,
     contractVars, stages
<1> QED
  BY <1>1, <1>2, <1>3, <1>4, <1>5, <1>7, <1>8, <1>9, <1>10, <1>11, <1>12
     DEF Next, VolumeWorker, PodWorker, Webhook, Environment

\* In the beginning some pods run, with what they need.
LEMMA TeardownInitMaps == Init => Contract!Init /\ PodsMatch
<1> SUFFICES ASSUME Init PROVE Contract!Init /\ PodsMatch
  OBVIOUS
<1>1. stages = [p \in Pods |-> IF p \in Running THEN "live" ELSE "none"]
  BY DEF Init, stages
<1>2. \A n : n \in InUse <=> \E p \in Running : p[1] = n
  BY DEF InUse
<1>3. claim = [c \in Contract!Claims |-> IF \E p \in Running : p[1] = c[2] THEN "live" ELSE "none"]
  BY <1>2 DEF Init, Objects, Kinds, Contract!Claims
<1>4. claim = [c \in Contract!Claims |->
                 IF \E p \in Running : [q \in Pods |-> q[1]][p] = c[2] THEN "live" ELSE "none"]
  BY <1>3, TeardownAssumption
<1>5. Running \in SUBSET Pods /\ vol = "live" /\ PodsMatch
  BY TeardownAssumption DEF Init, NoJob, PodsMatch
<1> QED
  BY <1>1, <1>4, <1>5 DEF Contract!Init

\* For any namespaces, pods, lagging objects and restarts: while the volume's cleanup, the
\* pod cleanup and admissions run side by side, a PV or PVC is made only for a pod that is
\* being admitted to its namespace, and taken away only after one there has ended or when
\* the volume is being deleted.
THEOREM TeardownImplementsContract == Spec => KeepsContract
<1>1. Init => TeardownInv /\ PodsMatch /\ Contract!Init
  BY InitInv, TeardownInitMaps
<1>2. TeardownInv /\ PodsMatch /\ [Next]_vars =>
        TeardownInv' /\ PodsMatch' /\ [Contract!Next]_(Contract!contractVars)
  BY NextKeepsInv, PodsMatchStep, TeardownStepMaps DEF contractVars, Contract!contractVars
<1> QED
  BY <1>1, <1>2, PTL DEF Spec, KeepsContract, Contract!Spec
=============================================================================
