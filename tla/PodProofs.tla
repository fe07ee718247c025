----------------------------- MODULE PodProofs -----------------------------
(***************************************************************************)
(* ClaimsInv is an invariant of PodClaims: a pod that is not being deleted *)
(* has our finalizer, as stored and as cached, whatever the requests and   *)
(* the reconciler do to it.  From it follow that what is left of a         *)
(* volume's claims always has somebody to clean it up (AttendInv), and     *)
(* that every step is one of ClaimContract, or nothing to it.              *)
(***************************************************************************)
EXTENDS PodClaims, TLAPS

Requests == [pc: {"idle", "ensure", "create", "store", "list", "delete", "release"}, kind: Kinds]

Jobs == [pc: {"idle", "force", "list", "strip", "delete", "release"},
         kind: Kinds, pod: Pods \cup {Nobody}]

Stored == [st: {"none", "live", "dying"}, fin: BOOLEAN]

Objects == [Kinds -> Stored]

\* The part of the type invariant that says nothing of pods, requests and the job.
RestType ==
  /\ obj \in Objects
  /\ due \subseteq Pods
  /\ wasted \in BOOLEAN /\ faults \in 0 .. MaxFaults

Held(q) ==
  /\ q.st = "live" => q.fin
  /\ q.st \in {"none", "gone"} => ~q.fin

Suits(r, q) ==
  /\ r.pc \in {"ensure", "create", "store"} => q.st = "none"
  /\ r.pc \in {"list", "delete", "release"} => q.st \in Ended

Behind(s, q) ==
  /\ s.st = "live" => q.st # "none"
  /\ s.st \in Ended => q.st \in Ended

JobFits == job.pc # "idle" => job.pod \in Pods /\ pod[job.pod].st \in Ended

\* The invariant pod by pod.
PodInv(p) ==
  /\ Held(pod[p]) /\ Held(seen[p])
  /\ Behind(seen[p], pod[p])
  /\ Suits(request[p], pod[p])

Shapes ==
  /\ pod \in [Pods -> PodStates] /\ seen \in [Pods -> PodStates]
  /\ request \in [Pods -> Requests] /\ job \in Jobs

\* The invariant is what holds of each pod, of the job and of the rest.
LEMMA Parts == ClaimsInv <=> Shapes /\ RestType /\ JobFits /\ \A p \in Pods : PodInv(p)
  BY DEF ClaimsInv, TypeOK, CacheBehind, RequestsMatch, PodsHeld, Shapes, RestType, JobFits,
         PodInv, Held, Suits, Behind, Requests, Jobs, Objects, Stored

\* And so it is of the next state.
LEMMA PartsNext ==
  Shapes' /\ RestType' /\ JobFits' /\ (\A p \in Pods : PodInv(p)') => ClaimsInv'
  BY DEF ClaimsInv, TypeOK, CacheBehind, RequestsMatch, PodsHeld, Shapes, RestType, JobFits,
         PodInv, Held, Suits, Behind, Requests, Jobs, Objects, Stored

\* The constant entries have their types.
LEMMA Entries ==
  /\ NoRequest \in Requests /\ NoJob \in Jobs
  /\ Admitted \in PodStates /\ None \in PodStates /\ Held(Admitted) /\ Held(None)
  /\ None \in Stored /\ Fresh \in Stored
  BY DEF NoRequest, NoJob, Admitted, None, Fresh, Requests, Jobs, PodStates, Held, Kinds,
         Stored

\* A PV or PVC is written.
LEMMA ObjectWritten ==
  ASSUME obj \in Objects, NEW k \in Kinds, NEW o \in Stored
  PROVE  [obj EXCEPT ![k] = o] \in Objects
  BY DEF Objects

\* A request of p that goes on as the pod allows disturbs nothing else.
LEMMA RequestMoves ==
  ASSUME ClaimsInv, NEW p \in Pods, NEW r \in Requests, Suits(r, pod[p]),
         request' = [request EXCEPT ![p] = r],
         UNCHANGED <<pod, seen, job>>, RestType'
  PROVE  ClaimsInv'
<1>1. Shapes'
  BY Parts DEF Shapes
<1>2. JobFits'
  BY Parts DEF JobFits
<1>3. \A q \in Pods : PodInv(q)'
  BY Parts DEF PodInv, Shapes
<1> QED
  BY <1>1, <1>2, <1>3, PartsNext

\* So does a step of the worker that leaves the pods alone.
LEMMA JobMoves ==
  ASSUME ClaimsInv, job' \in Jobs, JobFits', UNCHANGED <<pod, seen, request>>, RestType'
  PROVE  ClaimsInv'
<1>1. Shapes'
  BY Parts DEF Shapes
<1>2. \A q \in Pods : PodInv(q)'
  BY Parts DEF PodInv
<1> QED
  BY <1>1, <1>2, PartsNext

\* What may become of a stored pod.
Follows(a, b) ==
  \/ a.st \in {"live", "dying", "gone"} /\ b.st \in Ended
  \/ a.st = "none" /\ b = Admitted

\* A pod that is stored, deleted, released or removed, with the request about it
\* answered when it did not exist before.
LEMMA PodMoves ==
  ASSUME ClaimsInv, NEW p \in Pods, NEW q \in PodStates, Held(q), Follows(pod[p], q),
         pod' = [pod EXCEPT ![p] = q], UNCHANGED seen,
         \/ request' = [request EXCEPT ![p] = NoRequest]
         \/ request' = request /\ pod[p].st # "none",
         job' = job \/ job' = NoJob, RestType'
  PROVE  ClaimsInv'
<1>0. Shapes /\ JobFits /\ \A r \in Pods : PodInv(r)
  BY Parts
<1>1. Shapes'
  BY <1>0, Entries DEF Shapes
<1>2. JobFits'
  BY <1>0 DEF JobFits, Shapes, NoJob, Follows, Ended
<1>3. ASSUME NEW r \in Pods
      PROVE  PodInv(r)'
  <2>1. CASE r # p
    BY <1>0, <2>1 DEF PodInv, Shapes
  <2>2. CASE r = p
    <3>1. pod'[p] = q /\ seen'[p] = seen[p] /\ request'[p] \in {request[p], NoRequest}
      BY <1>0 DEF Shapes
    <3>2. Behind(seen[p], q)
      BY <1>0 DEF PodInv, Behind, Follows, Ended, Admitted
    <3>3. Suits(request'[p], q)
      <4>1. Suits(NoRequest, q)
        BY DEF Suits, NoRequest
      <4>2. request' = request => Suits(request[p], q)
        <5>1. CASE pod[p].st # "none"
          BY <1>0, <5>1 DEF PodInv, Suits, Follows, Ended
        <5>2. CASE request' = [request EXCEPT ![p] = NoRequest]
          BY <1>0, <4>1, <5>2 DEF Shapes
        <5> QED
          BY <5>1, <5>2
      <4>3. request' # request => request'[p] = NoRequest
        BY <1>0 DEF Shapes
      <4> QED
        BY <4>1, <4>2, <4>3
    <3> QED
      BY <1>0, <2>2, <3>1, <3>2, <3>3 DEF PodInv
  <2> QED
    BY <2>1, <2>2
<1> QED
  BY <1>1, <1>2, <1>3, PartsNext

---------------------------------------------------------------------------
\* What each step does to the entries of RestType, when ClaimsInv holds.
LEMMA ApiTypes ==
  ASSUME NEW o \in Stored
  PROVE  Deleted(o) \in Stored /\ Stripped(o) \in Stored
  BY Entries DEF Deleted, Stripped, Stored

Unheld(q) == [q EXCEPT !.fin = FALSE]

\* A terminating pod may lose our finalizer.
LEMMA UnheldPod ==
  ASSUME NEW q \in PodStates, q.st \in Ended
  PROVE  Unheld(q) \in PodStates /\ Held(Unheld(q)) /\ Follows(q, Unheld(q))
  BY DEF PodStates, Unheld, Held, Follows, Ended

\* A request is asked on, or answered.
LEMMA AskRequest ==
  ASSUME ClaimsInv, NEW p \in Pods, NEW pc, NEW k \in Kinds, Ask(p, pc, k),
         pc \in {"ensure", "create", "store", "list", "delete", "release"},
         Suits([pc |-> pc, kind |-> k], pod[p]), UNCHANGED <<pod, seen, job>>, RestType'
  PROVE  ClaimsInv'
<1>1. [pc |-> pc, kind |-> k] \in Requests
  BY DEF Requests
<1>2. request' = [request EXCEPT ![p] = [pc |-> pc, kind |-> k]]
  <2>1. request \in [Pods -> Requests] /\ request' \in [Pods -> Requests]
    BY Parts DEF Ask, Shapes, Requests
  <2>2. request'[p].pc = pc /\ request'[p].kind = k
    BY <2>1 DEF Ask, Requests
  <2>3. request'[p] = [pc |-> pc, kind |-> k]
    BY <2>1, <2>2 DEF Requests
  <2>4. \A q \in Pods \ {p} : request'[q] = request[q]
    BY <2>1 DEF Ask
  <2> QED
    BY <2>1, <2>3, <2>4
<1> QED
  BY <1>1, <1>2, RequestMoves

\* A request that is answered is over.
LEMMA AnswerRequest ==
  ASSUME ClaimsInv, NEW p \in Pods, Answer(p), UNCHANGED <<pod, seen, job>>, RestType'
  PROVE  ClaimsInv'
<1>1. Suits(NoRequest, pod[p])
  BY DEF Suits, NoRequest
<1> QED
  BY <1>1, RequestMoves, Entries DEF Answer

\* Admission goes from the PV to the PVC to the pod.
LEMMA ProceedRequest ==
  ASSUME ClaimsInv, NEW p \in Pods, Proceed(p), pod[p].st = "none",
         UNCHANGED <<pod, seen, job>>, RestType'
  PROVE  ClaimsInv'
<1>1. CASE Ask(p, "ensure", "pvc")
  <2>1. Suits([pc |-> "ensure", kind |-> "pvc"], pod[p])
    BY DEF Suits
  <2> QED
    BY <1>1, <2>1, AskRequest DEF Kinds
<1>2. CASE Ask(p, "store", "pvc")
  <2>1. Suits([pc |-> "store", kind |-> "pvc"], pod[p])
    BY DEF Suits
  <2> QED
    BY <1>2, <2>1, AskRequest DEF Kinds
<1> QED
  BY <1>1, <1>2 DEF Proceed
\* Requests keep the invariant.
LEMMA RequestStep ==
  ASSUME ClaimsInv, NEW p \in Pods, Webhook(p) \/ Create(p) \/ Reject(p) \/ Touch(p)
  PROVE  ClaimsInv'
<1>0. Shapes /\ RestType /\ request[p] \in Requests /\ Suits(request[p], pod[p])
  BY Parts DEF Shapes, PodInv
<1>k. request[p].kind \in Kinds /\ "pv" \in Kinds /\ "pvc" \in Kinds
  BY <1>0 DEF Requests, Kinds
<1>1. CASE Create(p)
  <2>1. Suits([pc |-> "ensure", kind |-> "pv"], pod[p])
    BY <1>1 DEF Create, Suits
  <2> QED
    BY <1>0, <1>k, <1>1, <2>1, AskRequest DEF Create, RestType
<1>2. CASE Ensure(p)
  <2>1. pod[p].st = "none" /\ UNCHANGED <<pod, seen, job>>
    BY <1>0, <1>2 DEF Ensure, Suits
  <2>2. RestType'
    BY <1>0, <1>2 DEF Ensure, Refuse, RestType
  <2>3. CASE Ask(p, "create", request[p].kind)
    <3>1. Suits([pc |-> "create", kind |-> request[p].kind], pod[p])
      BY <2>1 DEF Suits
    <3> QED
      BY <1>k, <2>1, <2>2, <2>3, <3>1, AskRequest
  <2>4. CASE Refuse(p)
    BY <2>1, <2>2, <2>4, AnswerRequest DEF Refuse
  <2>5. CASE Proceed(p)
    BY <2>1, <2>2, <2>5, ProceedRequest
  <2> QED
    BY <1>2, <2>3, <2>4, <2>5 DEF Ensure
<1>3. CASE CreateObject(p)
  <2>1. pod[p].st = "none" /\ UNCHANGED <<pod, seen, job>>
    BY <1>0, <1>3 DEF CreateObject, Suits
  <2>2. RestType'
    <3>1. obj' \in Objects
      <4>1. obj' = obj \/ obj' = [obj EXCEPT ![request[p].kind] = Fresh]
        BY <1>3 DEF CreateObject
      <4> QED
        BY <1>0, <1>k, <4>1, Entries, ObjectWritten DEF RestType
    <3>2. wasted' \in BOOLEAN
      BY <1>0, <1>3 DEF CreateObject, Refuse, RestType
    <3>3. UNCHANGED <<due, faults>>
      BY <1>3 DEF CreateObject
    <3> QED
      BY <1>0, <3>1, <3>2, <3>3 DEF RestType
  <2>3. CASE Proceed(p)
    BY <2>1, <2>2, <2>3, ProceedRequest
  <2>4. CASE Refuse(p)
    BY <2>1, <2>2, <2>4, AnswerRequest DEF Refuse
  <2> QED
    BY <1>3, <2>3, <2>4 DEF CreateObject
<1>4. CASE Store(p)
  <2>1. Follows(pod[p], Admitted)
    BY <1>0, <1>4 DEF Store, Suits, Follows
  <2>2. RestType'
    BY <1>0, <1>4 DEF Store, RestType
  <2> QED
    BY <1>4, <2>1, <2>2, Entries, PodMoves DEF Store, Answer
<1>5. CASE Reject(p)
  <2>1. RestType'
    BY <1>0, <1>5 DEF Reject, Refuse, RestType
  <2> QED
    BY <1>5, <2>1, AnswerRequest DEF Reject, Refuse
<1>6. CASE Touch(p)
  <2>1. RestType'
    BY <1>0, <1>6, ClaimsAssumption DEF Touch, RestType
  <2>2. Suits([pc |-> "list", kind |-> "pvc"], pod[p])
    BY <1>6 DEF Touch, Suits, Ended
  <2>3. [pc |-> "list", kind |-> "pvc"] \in Requests
    BY DEF Requests, Kinds
  <2> QED
    BY <1>6, <2>1, <2>2, <2>3, RequestMoves DEF Touch
<1>7. CASE WebhookLists(p)
  <2>1. pod[p].st \in Ended /\ RestType'
    BY <1>0, <1>7 DEF WebhookLists, Suits, RestType
  <2>2. Suits([pc |-> "delete", kind |-> "pvc"], pod[p])
        /\ Suits([pc |-> "release", kind |-> "pvc"], pod[p])
    BY <2>1 DEF Suits
  <2>3. Ask(p, "delete", "pvc") \/ Ask(p, "release", "pvc")
    BY <1>7 DEF WebhookLists
  <2> QED
    BY <1>k, <1>7, <2>1, <2>2, <2>3, AskRequest DEF WebhookLists
<1>8. CASE WebhookDeletes(p)
  <2>1. pod[p].st \in Ended
    BY <1>0, <1>8 DEF WebhookDeletes, Suits
  <2>2. RestType'
    <3>1. /\ obj' = [obj EXCEPT ![request[p].kind] = Deleted(obj[request[p].kind])]
          /\ UNCHANGED <<due, wasted, faults>>
      BY <1>0, <1>8 DEF WebhookDeletes, RestType, Objects
    <3>2. Deleted(obj[request[p].kind]) \in Stored
      BY <1>0, <1>k, ApiTypes DEF RestType, Objects
    <3>3. obj' \in Objects
      BY <1>0, <1>k, <3>1, <3>2, ObjectWritten DEF RestType
    <3> QED
      BY <1>0, <3>1, <3>3 DEF RestType
  <2>3. Suits([pc |-> "delete", kind |-> "pv"], pod[p])
        /\ Suits([pc |-> "release", kind |-> "pv"], pod[p])
    BY <2>1 DEF Suits
  <2>4. Ask(p, "delete", "pv") \/ Ask(p, "release", "pv")
    BY <1>8 DEF WebhookDeletes
  <2> QED
    BY <1>k, <1>8, <2>2, <2>3, <2>4, AskRequest DEF WebhookDeletes
<1>9. CASE WebhookReleases(p)
  <2>1. pod[p].st \in Ended /\ pod[p] \in PodStates
    BY <1>0, <1>9 DEF WebhookReleases, Suits, Shapes
  <2>2. RestType'
    BY <1>0, <1>9 DEF WebhookReleases, RestType
  <2>3. Unheld(pod[p]) \in PodStates /\ Held(Unheld(pod[p])) /\ Follows(pod[p], Unheld(pod[p]))
    BY <2>1, UnheldPod
  <2>4. pod' = [pod EXCEPT ![p] = Unheld(pod[p])]
    BY <1>0, <1>9 DEF WebhookReleases, Unheld, Shapes
  <2> QED
    BY <1>9, <2>2, <2>3, <2>4, PodMoves DEF WebhookReleases, Answer
<1> QED
  BY <1>1, <1>2, <1>3, <1>4, <1>5, <1>6, <1>7, <1>8, <1>9 DEF Webhook
\* The worker's writes to a pod hit a terminating pod.
LEMMA SeenReleased ==
  ASSUME ClaimsInv, NEW p \in Pods, ReleaseSeen(p), pod[p].st \in Ended,
         UNCHANGED <<seen, request>>, job' = NoJob \/ job' = job, RestType'
  PROVE  ClaimsInv'
<1>0. Shapes /\ pod[p] \in PodStates /\ PodInv(p)
  BY Parts DEF Shapes
<1>1. Unheld(pod[p]) \in PodStates /\ Held(Unheld(pod[p])) /\ Follows(pod[p], Unheld(pod[p]))
  BY <1>0, UnheldPod
<1>2. pod[p].st # "none" /\ Follows(pod[p], pod[p])
  BY DEF Follows, Ended
<1>3. CASE pod' = [pod EXCEPT ![p].fin = FALSE]
  <2>1. pod' = [pod EXCEPT ![p] = Unheld(pod[p])]
    BY <1>0, <1>3 DEF Unheld, Shapes
  <2> QED
    BY <1>1, <1>2, <2>1, PodMoves
<1>4. CASE pod' = pod
  <2>1. JobFits'
    BY <1>4, Parts DEF JobFits, NoJob
  <2> QED
    BY <1>0, <1>4, <2>1, JobMoves, Entries DEF Shapes
<1> QED
  BY <1>3, <1>4 DEF ReleaseSeen

\* The worker goes on with the same pod.
LEMMA WorkerGoesOn ==
  ASSUME ClaimsInv, job.pc # "idle", NEW k \in Kinds, NEW pc, Step(pc, k),
         pc \in {"list", "strip", "delete", "release"}
  PROVE  /\ job.pod \in Pods /\ pod[job.pod].st \in Ended
         /\ job' \in Jobs /\ job'.pod = job.pod
  BY Parts DEF Step, Shapes, Jobs, JobFits

\* The reconciler keeps the invariant.
LEMMA WorkerStep ==
  ASSUME ClaimsInv, Worker
  PROVE  ClaimsInv'
<1>0. /\ Shapes /\ RestType /\ JobFits
      /\ job.kind \in Kinds /\ "pv" \in Kinds /\ "pvc" \in Kinds
  BY Parts DEF Shapes, Jobs, Kinds
<1>1. CASE ForceDeletePod
  <2> DEFINE p == job.pod
  <2>1. p \in Pods /\ pod[p].st \in Ended /\ job' \in Jobs /\ job'.pod = p
    BY <1>0, <1>1, WorkerGoesOn DEF ForceDeletePod
  <2>2. pod[p] \in PodStates /\ Unheld(pod[p]) \in PodStates /\ Held(Unheld(pod[p]))
        /\ Follows(pod[p], Unheld(pod[p]))
    BY <1>0, <2>1, UnheldPod DEF Shapes
  <2>3. pod' = pod \/ pod' = [pod EXCEPT ![p] = Unheld(pod[p])]
    BY <1>0, <1>1, <2>1 DEF ForceDeletePod, ReleaseSeen, Unheld, Shapes
  <2>4. Shapes'
    BY <1>0, <1>1, <2>1, <2>2, <2>3 DEF Shapes, ForceDeletePod
  <2>5. pod'[p].st = pod[p].st
    BY <1>0, <2>1, <2>2, <2>3 DEF Shapes, Unheld, PodStates
  <2>6. JobFits'
    BY <2>1, <2>5 DEF JobFits
  <2>7. RestType'
    BY <1>0, <1>1 DEF RestType, ForceDeletePod
  <2>8. ASSUME NEW q \in Pods
        PROVE  PodInv(q)'
    <3>1. PodInv(q) /\ seen'[q] = seen[q] /\ request'[q] = request[q]
      BY <1>1, Parts DEF ForceDeletePod
    <3>2. pod'[q].st = pod[q].st /\ (pod'[q] = pod[q] \/ Held(pod'[q]))
      BY <1>0, <2>1, <2>2, <2>3, <2>5 DEF Shapes
    <3> QED
      BY <3>1, <3>2 DEF PodInv, Behind, Suits
  <2> QED
    BY <2>4, <2>6, <2>7, <2>8, PartsNext
<1>2. CASE ListPods \/ StripObject \/ DeleteObject
  <2>1. PICK pc \in {"strip", "delete", "release"}, k \in Kinds : Step(pc, k)
    BY <1>0, <1>2 DEF ListPods, StripObject, DeleteObject, AfterDelete
  <2>2. job.pc # "idle" /\ UNCHANGED <<pod, seen, request>>
    BY <1>2 DEF ListPods, StripObject, DeleteObject
  <2>3. job' \in Jobs /\ JobFits'
    BY <2>1, <2>2, WorkerGoesOn DEF JobFits
  <2>4. RestType'
    <3> DEFINE o == obj[job.kind]
    <3>1. UNCHANGED <<due, wasted, faults>>
      BY <1>2 DEF ListPods, StripObject, DeleteObject
    <3>2. o \in Stored /\ Deleted(o) \in Stored /\ Stripped(o) \in Stored
      BY <1>0, ApiTypes DEF RestType, Objects
    <3>3. \/ obj' = obj
          \/ \E w \in {Deleted(o), Stripped(o), None} : obj' = [obj EXCEPT ![job.kind] = w]
      BY <1>0, <1>2 DEF ListPods, StripObject, DeleteObject, RestType, Objects
    <3>4. obj' \in Objects
      BY <1>0, <3>2, <3>3, Entries, ObjectWritten DEF RestType
    <3> QED
      BY <1>0, <3>1, <3>4 DEF RestType
  <2> QED
    BY <2>2, <2>3, <2>4, JobMoves
<1>3. CASE RemoveFinalizer
  <2>1. job.pod \in Pods /\ pod[job.pod].st \in Ended
    BY <1>0, <1>3 DEF RemoveFinalizer, JobFits
  <2>2. RestType'
    BY <1>0, <1>3, <2>1 DEF RemoveFinalizer, RestType
  <2>3. job' = NoJob /\ UNCHANGED <<seen, request>>
    BY <1>3 DEF RemoveFinalizer, EndJob
  <2>4. CASE ReleaseSeen(job.pod)
    BY <2>1, <2>2, <2>3, <2>4, SeenReleased
  <2>5. CASE UNCHANGED pod
    <3>1. JobFits'
      BY <2>3 DEF JobFits, NoJob
    <3> QED
      BY <2>2, <2>3, <2>5, <3>1, JobMoves, Entries
  <2> QED
    BY <1>3, <2>4, <2>5 DEF RemoveFinalizer
<1> QED
  BY <1>1, <1>2, <1>3 DEF Worker
\* Events and the workqueue keep it.
LEMMA QueueStep ==
  ASSUME ClaimsInv, NEW p \in Pods, Refresh(p) \/ Reconcile(p)
  PROVE  ClaimsInv'
<1>0. Shapes /\ RestType /\ JobFits /\ PodInv(p)
  BY Parts
<1>1. CASE Refresh(p)
  <2>1. Shapes' /\ RestType' /\ JobFits'
    BY <1>0, <1>1 DEF Refresh, Shapes, RestType, JobFits
  <2>2. \A q \in Pods : PodInv(q)'
    BY <1>0, <1>1, Parts DEF Refresh, Shapes, PodInv, Behind, Ended
  <2> QED
    BY <2>1, <2>2, PartsNext
<1>2. CASE Reconcile(p)
  <2>1. RestType'
    BY <1>0, <1>2 DEF Reconcile, RestType
  <2>2. CASE seen[p].st = "dying"
    <3>1. pod[p].st \in Ended
      BY <1>0, <2>2 DEF PodInv, Behind, Ended
    <3>2. job' \in Jobs /\ job'.pod = p
      BY <1>2, <2>2 DEF Reconcile, Jobs, Kinds
    <3>3. JobFits'
      BY <1>2, <3>1, <3>2 DEF Reconcile, JobFits
    <3> QED
      BY <1>2, <2>1, <3>2, <3>3, JobMoves DEF Reconcile
  <2>3. CASE seen[p].st # "dying"
    <3>1. job' = NoJob
      BY <1>2, <2>3 DEF Reconcile
    <3>2. JobFits'
      BY <3>1 DEF JobFits, NoJob
    <3> QED
      BY <1>2, <2>1, <3>1, <3>2, Entries, JobMoves DEF Reconcile
  <2> QED
    BY <2>2, <2>3
<1> QED
  BY <1>1, <1>2

\* The cluster and a restart keep it.
LEMMA ClusterStep ==
  ASSUME ClaimsInv,
         \/ \E p \in Pods : Delete(p) \/ Kubelet(p)
         \/ \E k \in Kinds : Protect(k) \/ Unprotect(k)
         \/ Crash
  PROVE  ClaimsInv'
<1>0. Shapes /\ RestType /\ JobFits
  BY Parts
<1>1. ASSUME NEW p \in Pods, Delete(p)
      PROVE  ClaimsInv'
  <2> DEFINE q == [pod[p] EXCEPT !.st = "dying"]
  <2>1. q \in PodStates /\ Held(q) /\ Follows(pod[p], q)
    BY <1>0, <1>1 DEF Shapes, Delete, PodStates, Held, Follows, Ended
  <2>2. pod' = [pod EXCEPT ![p] = q] /\ pod[p].st # "none"
    BY <1>0, <1>1 DEF Shapes, Delete
  <2>3. RestType'
    BY <1>0, <1>1 DEF RestType, Delete
  <2> QED
    BY <1>1, <2>1, <2>2, <2>3, PodMoves DEF Delete
<1>2. ASSUME NEW p \in Pods, Kubelet(p)
      PROVE  ClaimsInv'
  <2> DEFINE q == [pod[p] EXCEPT !.st = "gone"]
  <2>1. q \in PodStates /\ Held(q) /\ Follows(pod[p], q)
    BY <1>0, <1>2 DEF Shapes, Kubelet, PodStates, Held, Follows, Ended
  <2>2. pod' = [pod EXCEPT ![p] = q] /\ pod[p].st # "none"
    BY <1>0, <1>2 DEF Shapes, Kubelet
  <2>3. RestType'
    BY <1>0, <1>2 DEF RestType, Kubelet
  <2> QED
    BY <1>2, <2>1, <2>2, <2>3, PodMoves DEF Kubelet
<1>3. ASSUME NEW k \in Kinds, Protect(k) \/ Unprotect(k)
      PROVE  ClaimsInv'
  <2>1. RestType'
    <3>1. obj \in Objects /\ obj[k] \in Stored
      BY <1>0 DEF RestType, Objects
    <3>2. [obj[k] EXCEPT !.fin = TRUE] \in Stored
      BY <3>1 DEF Stored
    <3>3. obj' = [obj EXCEPT ![k] = None] \/ obj' = [obj EXCEPT ![k] = [obj[k] EXCEPT !.fin = TRUE]]
      BY <1>3, <3>1 DEF Protect, Unprotect, Objects
    <3>4. obj' \in Objects
      BY <3>1, <3>2, <3>3, Entries, ObjectWritten
    <3> QED
      BY <1>0, <1>3, <3>4 DEF RestType, Protect, Unprotect
  <2>2. UNCHANGED <<pod, seen, request, job>>
    BY <1>3 DEF Protect, Unprotect
  <2>3. JobFits' /\ job' \in Jobs
    BY <1>0, <2>2 DEF JobFits, Shapes
  <2> QED
    BY <2>1, <2>2, <2>3, JobMoves
<1>4. CASE Crash
  <2>1. Shapes'
    BY <1>0, <1>4, Entries DEF Crash, EndJob, Shapes
  <2>2. RestType' /\ JobFits'
    BY <1>0, <1>4, ClaimsAssumption DEF Crash, EndJob, RestType, JobFits, NoJob
  <2>3. ASSUME NEW q \in Pods
        PROVE  PodInv(q)'
    <3>1. pod'[q] = pod[q] /\ seen'[q] = pod[q] /\ request'[q] = NoRequest
      BY <1>4 DEF Crash
    <3>2. Held(pod[q]) /\ Behind(pod[q], pod[q]) /\ Suits(NoRequest, pod[q])
      BY Parts DEF PodInv, Behind, Suits, NoRequest, Ended
    <3> QED
      BY <3>1, <3>2 DEF PodInv
  <2> QED
    BY <2>1, <2>2, <2>3, PartsNext
<1> QED
  BY <1>1, <1>2, <1>3, <1>4

\* It holds before any pod is there,
LEMMA ClaimsInitial == Init => ClaimsInv
<1> SUFFICES ASSUME Init
             PROVE  ClaimsInv
  OBVIOUS
<1>1. Shapes
  BY Entries DEF Init, Shapes
<1>2. RestType
  <2>1. obj \in Objects
    BY Entries DEF Init, Objects
  <2>2. faults \in 0 .. MaxFaults /\ due \subseteq Pods
    BY ClaimsAssumption DEF Init
  <2>3. wasted \in BOOLEAN
    BY DEF Init
  <2> QED
    BY <2>1, <2>2, <2>3 DEF RestType
<1>4. JobFits
  BY DEF Init, JobFits, NoJob
<1>3. \A p \in Pods : PodInv(p)
  BY Entries DEF Init, PodInv, Behind, Suits, NoRequest, None, Ended
<1> QED
  BY <1>1, <1>2, <1>3, <1>4, Parts

\* and every step keeps it.
LEMMA ClaimsStep == ClaimsInv /\ [Next]_vars => ClaimsInv'
<1> SUFFICES ASSUME ClaimsInv, [Next]_vars
             PROVE  ClaimsInv'
  OBVIOUS
<1>1. CASE Next
  BY <1>1, RequestStep, QueueStep, WorkerStep, ClusterStep DEF Next, Environment
<1>2. CASE UNCHANGED vars
  <2>1. Shapes' /\ RestType' /\ JobFits'
    BY <1>2, Parts DEF vars, Shapes, RestType, JobFits
  <2>2. \A p \in Pods : PodInv(p)'
    BY <1>2, Parts DEF vars, PodInv
  <2> QED
    BY <2>1, <2>2, PartsNext
<1> QED
  BY <1>1, <1>2

\* A pod has our finalizer until it is deleted, the cache never shows one without,
\* and the reconciler and the webhook clean up after terminating pods only, for any
\* number of pods (pod_webhook.go:114, pod_cleanup_controller.go:119-159).
THEOREM ClaimsInvariant == Spec => []ClaimsInv
  BY ClaimsInitial, ClaimsStep, PTL DEF Spec

---------------------------------------------------------------------------
\* What is left of a volume's claims has somebody who cleans it up

Left == faults = 0 /\ ~wasted /\ \E k \in Kinds : obj[k].st = "live"

Attended == Cleaning \/ \E p \in Pods : pod[p].st = "live" \/ Claiming(p) \/ Awaited(p)

LEMMA AttendedForm == ClaimsAttended <=> (Left => Attended)
  BY DEF ClaimsAttended, Left, Attended

LEMMA AttendedFormNext == ClaimsAttended' <=> (Left' => Attended')
  BY DEF ClaimsAttended, Left, Attended

\* What is there while the faults have not begun.
LEMMA Faultless ==
  ASSUME ClaimsInv, [Next]_vars, faults' = 0
  PROVE  /\ faults = 0 /\ ~Crash /\ \A p \in Pods : ~Touch(p)
         /\ wasted => wasted'
<1>1. faults \in Nat
  BY ClaimsAssumption DEF ClaimsInv, TypeOK
<1>2. faults' = faults \/ faults' = faults + 1
  BY DEF Next, Webhook, Worker, Environment, Create, Ensure, CreateObject, Store, Reject, Touch,
     WebhookLists, WebhookDeletes, WebhookReleases, Refresh, Reconcile, ForceDeletePod, ListPods,
     StripObject, DeleteObject, RemoveFinalizer, Delete, Kubelet, Protect, Unprotect, Crash, vars
<1>3. faults = 0 /\ ~Crash /\ \A p \in Pods : ~Touch(p)
  BY <1>1, <1>2 DEF Crash, Touch
<1>4. wasted => wasted'
  BY <1>3 DEF Next, Webhook, Worker, Environment, Create, Ensure, CreateObject, Store, Reject,
     WebhookLists, WebhookDeletes, WebhookReleases, Refresh, Reconcile, ForceDeletePod, ListPods,
     StripObject, DeleteObject, RemoveFinalizer, Delete, Kubelet, Protect, Unprotect, vars, Refuse
<1> QED
  BY <1>3, <1>4

\* An admission leaves something to be claimed, a pod, or a waste.
LEMMA AdmissionAttended ==
  ASSUME ClaimsInv, AttendInv, NEW p \in Pods, Webhook(p) \/ Create(p) \/ Reject(p),
         faults = 0, wasted => wasted'
  PROVE  ClaimsAttended'
<1>0. /\ request[p] \in Requests /\ request[p].pc \notin {"list", "delete", "release"}
      /\ pod \in [Pods -> PodStates] /\ request \in [Pods -> Requests] /\ obj \in Objects
  BY Parts DEF Shapes, RestType, AttendInv, ReleasedWhenSeen
<1>1. /\ UNCHANGED <<seen, job, due, faults>>
      /\ pod' = pod \/ pod' = [pod EXCEPT ![p] = Admitted]
  BY <1>0 DEF Webhook, Create, Ensure, CreateObject, Store, Reject, WebhookLists, WebhookDeletes,
     WebhookReleases
<1>2. \A q \in Pods \ {p} : request'[q] = request[q] /\ pod'[q] = pod[q]
  <2>1. \A pc, kind : Ask(p, pc, kind) => \A q \in Pods \ {p} : request'[q] = request[q]
    BY <1>0 DEF Ask
  <2>2. Answer(p) => \A q \in Pods \ {p} : request'[q] = request[q]
    BY <1>0 DEF Answer
  <2>3. Proceed(p) => \A q \in Pods \ {p} : request'[q] = request[q]
    BY <2>1 DEF Proceed
  <2> QED
    BY <1>0, <1>1, <2>1, <2>2, <2>3 DEF Webhook, Create, Ensure, CreateObject, Store, Reject,
       WebhookLists, WebhookDeletes, WebhookReleases, Refuse
<1>3. \A pc, kind : Ask(p, pc, kind) => request'[p].pc = pc /\ request'[p].kind = kind
  BY <1>0 DEF Ask, Requests
<1>4. SUFFICES ASSUME Left' PROVE Attended'
  BY AttendedFormNext
<1>5. ~wasted /\ ~wasted' /\ faults = 0
  BY <1>4 DEF Left
<1>6. CASE pod'[p].st = "live"
  BY <1>6 DEF Attended
<1>7. CASE Claiming(p)'
  BY <1>7 DEF Attended
<1>8. CASE UNCHANGED <<obj, pod>> /\ ~Claiming(p)
  <2>1. Attended
    BY <1>1, <1>4, <1>5, <1>8, AttendedForm DEF AttendInv, Left
  <2> QED
    BY <1>1, <1>2, <1>8, <2>1 DEF Attended, Cleaning, Claiming, Awaited
<1>9. pod'[p].st = "live" \/ Claiming(p)' \/ (UNCHANGED <<obj, pod>> /\ ~Claiming(p))
  <2>1. Refuse(p) => request[p].kind = "pv"
    BY <1>0, <1>5 DEF Refuse, Requests, Kinds
  <2>2. CASE Create(p)
    BY <2>2 DEF Create, Claiming, NoRequest
  <2>3. CASE Ensure(p)
    BY <1>0, <1>3, <2>1, <2>3 DEF Ensure, Proceed, Claiming, Requests, Kinds
  <2>4. CASE CreateObject(p)
    BY <1>0, <1>3, <2>1, <2>4 DEF CreateObject, Proceed, Claiming, Requests, Kinds
  <2>5. CASE Store(p)
    BY <1>0, <2>5 DEF Store, Admitted
  <2>6. CASE Reject(p)
    BY <2>1, <2>6 DEF Reject, Claiming
  <2> QED
    BY <1>0, <2>2, <2>3, <2>4, <2>5, <2>6 DEF Webhook, WebhookLists, WebhookDeletes,
       WebhookReleases
<1> QED
  BY <1>6, <1>7, <1>8, <1>9

\* An event makes a pod that terminates due, a reconcile takes it up.
LEMMA QueueAttended ==
  ASSUME ClaimsInv, AttendInv, NEW p \in Pods, Refresh(p) \/ Reconcile(p), faults = 0
  PROVE  ClaimsAttended'
<1>0. seen \in [Pods -> PodStates] /\ PodInv(p) /\ UNCHANGED <<obj, pod, request, wasted, faults>>
  BY Parts DEF Shapes, Refresh, Reconcile
<1>1. SUFFICES ASSUME Left PROVE Attended'
  BY <1>0, AttendedFormNext DEF Left
<1>2. Attended
  BY <1>1, AttendedForm DEF AttendInv
<1>3. \A q \in Pods : (pod[q].st = "live" => pod'[q].st = "live") /\ (Claiming(q) => Claiming(q)')
  BY <1>0 DEF Claiming
<1>4. CASE Refresh(p)
  <2>1. Cleaning => Cleaning'
    BY <1>0, <1>4 DEF Refresh, Cleaning
  <2>2. \A q \in Pods \ {p} : Awaited(q) => Awaited(q)'
    BY <1>0, <1>4 DEF Refresh, Awaited
  <2>3. Awaited(p) => Awaited(p)' \/ Cleaning \/ pod[p].st = "live"
    <3>1. seen'[p] = pod[p] /\ job' = job /\ (Watched(p) => p \in due') /\ due \subseteq due'
      BY <1>0, <1>4 DEF Refresh
    <3>2. CASE pod[p].st \in Ended /\ seen[p].st \notin Ended
      <4>1. pod[p].st = "dying" /\ pod[p].fin
        BY <3>2 DEF AttendInv, ReleasedWhenSeen
      <4>2. job.pc # "idle" => job.pod # p
        BY <3>2 DEF AttendInv, ReleasedWhenSeen
      <4>3. job.pod # p
        BY <4>2, ClaimsAssumption DEF AttendInv, ReleasedWhenSeen, NoJob
      <4> QED
        BY <1>0, <3>1, <4>1, <4>3 DEF Awaited, Watched
    <3>3. CASE p \in due /\ seen[p].st = "dying" /\ pod[p].fin /\ job.pod # p
      <4>1. pod[p].st = "dying"
        BY <1>0, <3>3 DEF PodInv, Behind, Held, Ended
      <4> QED
        BY <1>0, <3>1, <3>3, <4>1 DEF Awaited
    <3> QED
      BY <3>2, <3>3 DEF Awaited
  <2> QED
    BY <1>2, <1>3, <2>1, <2>2, <2>3 DEF Attended
<1>5. CASE Reconcile(p)
  <2>1. CASE seen[p].st = "dying"
    BY <1>5, <2>1 DEF Reconcile, Attended, Cleaning
  <2>2. CASE seen[p].st # "dying"
    <3>1. job.pc = "idle" /\ job' = NoJob /\ due' = due \ {p} /\ seen' = seen
      BY <1>5, <2>2 DEF Reconcile
    <3>2. ~Cleaning
      BY <3>1 DEF Cleaning
    <3>3. \A q \in Pods : Awaited(q) => Awaited(q)'
      BY <1>0, <2>2, <3>1, ClaimsAssumption DEF Awaited, NoJob
    <3> QED
      BY <1>2, <1>3, <3>2, <3>3 DEF Attended
  <2> QED
    BY <2>1, <2>2
<1> QED
  BY <1>4, <1>5

\* Once the PVC is deleted or gone it is the PV's turn, and once that is, nothing is left.
LEMMA AfterDeleted ==
  ASSUME job \in Jobs, AfterDelete, obj["pvc"].st = "live" => job.kind = "pvc",
         \A k \in Kinds : obj'[k].st = "live" => obj[k].st = "live",
         obj'[job.kind].st # "live"
  PROVE  Cleaning' \/ \A k \in Kinds : obj'[k].st # "live"
<1>1. job.kind \in Kinds
  BY DEF Jobs
<1>2. CASE job.kind = "pvc"
  <2>1. job'.pc = "strip" /\ job'.kind = "pv"
    BY <1>2 DEF AfterDelete, Step, Jobs
  <2> QED
    BY <1>2, <2>1 DEF Cleaning
<1>3. CASE job.kind = "pv"
  BY <1>3 DEF Kinds
<1> QED
  BY <1>1, <1>2, <1>3 DEF Kinds

\* The worker, in each of its steps, has what is left still ahead of it, or leaves it to
\* the pod it has found.
LEMMA WorkerAttended ==
  ASSUME ClaimsInv, AttendInv, ClaimsInv', Worker, faults = 0
  PROVE  ClaimsAttended'
<1>0. /\ pod \in [Pods -> PodStates] /\ obj \in Objects /\ job \in Jobs
      /\ UNCHANGED <<seen, request, wasted, faults>>
      /\ job.pod \in Pods /\ seen[job.pod].st \in Ended
  BY Parts DEF Shapes, RestType, JobFits, AttendInv, ReleasedWhenSeen, Worker, ForceDeletePod,
     ListPods, StripObject, DeleteObject, RemoveFinalizer
<1>1. SUFFICES ASSUME Left' PROVE Attended'
  BY AttendedFormNext
<1>2. \A q \in Pods : Claiming(q) => Claiming(q)'
  BY <1>0 DEF Claiming
<1>3. /\ \A q \in Pods : pod'[q].st = pod[q].st
      /\ \A q \in Pods \ {job.pod} : pod'[q] = pod[q]
  BY <1>0 DEF Worker, ForceDeletePod, ReleaseSeen, ListPods, StripObject, DeleteObject,
     RemoveFinalizer, PodStates
<1>4. \A k \in Kinds : obj'[k].st = "live" => obj[k].st = "live"
  BY <1>0 DEF Worker, ForceDeletePod, ListPods, StripObject, DeleteObject, RemoveFinalizer,
     Stripped, Deleted, None, Objects, Stored
<1>5. Left /\ Attended
  BY <1>0, <1>1, <1>4, AttendedForm DEF Left, AttendInv
<1>6. CASE ForceDeletePod
  <2>1. job'.pc = "list"
    BY <1>0, <1>6 DEF ForceDeletePod, Step, Jobs
  <2> QED
    BY <2>1 DEF Attended, Cleaning
<1>7. CASE ListPods
  <2>1. CASE Users = {}
    <3>1. job'.pc = "strip" /\ job'.kind = "pvc"
      BY <1>0, <1>7, <2>1 DEF ListPods, Step, Jobs
    <3> QED
      BY <3>1 DEF Attended, Cleaning
  <2>2. CASE Users # {}
    <3>1. PICK q \in Pods : seen[q].st = "live"
      BY <2>2 DEF Users
    <3>2. PodInv(q) /\ pod[q] \in PodStates
      BY <1>0, Parts
    <3>3. pod[q].st = "live" \/ pod[q].st \in Ended
      BY <3>1, <3>2 DEF PodInv, Behind, PodStates, Ended
    <3>4. pod'[q].st = "live" \/ Awaited(q)'
      BY <1>0, <1>3, <3>1, <3>3 DEF Awaited, Ended
    <3> QED
      BY <3>4 DEF Attended
  <2> QED
    BY <2>1, <2>2
<1>8. CASE StripObject \/ DeleteObject \/ RemoveFinalizer
  <2>1. \A q \in Pods : Awaited(q) => Awaited(q)'
    <3>1. ASSUME NEW q \in Pods, Awaited(q) PROVE Awaited(q)'
      <4>1. CASE pod[q].st \in Ended /\ seen[q].st \notin Ended
        BY <1>0, <1>3, <4>1 DEF Awaited
      <4>2. CASE q \in due /\ seen[q].st = "dying" /\ pod[q].fin /\ job.pod # q
        <5>1. pod'[q] = pod[q] /\ q \in due'
          BY <1>3, <1>8, <4>2 DEF StripObject, DeleteObject, RemoveFinalizer
        <5>2. job'.pod \in {job.pod, Nobody}
          <6>1. \A pc, kind : Step(pc, kind) => job'.pod = job.pod
            BY <1>0 DEF Step, Jobs
          <6>2. AfterDelete => job'.pod = job.pod
            BY <6>1 DEF AfterDelete
          <6>3. EndJob => job'.pod = Nobody
            BY DEF EndJob, NoJob
          <6> QED
            BY <1>8, <6>1, <6>2, <6>3 DEF StripObject, DeleteObject, RemoveFinalizer
        <5> QED
          BY <1>0, <4>2, <5>1, <5>2, ClaimsAssumption DEF Awaited
      <4> QED
        BY <3>1, <4>1, <4>2 DEF Awaited
    <3> QED
      BY <3>1
  <2>2. Cleaning => Cleaning' \/ \A k \in Kinds : obj'[k].st # "live"
    <3> SUFFICES ASSUME Cleaning PROVE Cleaning' \/ \A k \in Kinds : obj'[k].st # "live"
      OBVIOUS
    <3>1. CASE RemoveFinalizer
      BY <3>1 DEF RemoveFinalizer, Cleaning
    <3>2. CASE StripObject
      <4>1. obj["pvc"].st = "live" => job.kind = "pvc"
        BY <3>2 DEF StripObject, Cleaning
      <4>2. CASE obj[job.kind] # None
        <5>1. job'.pc = "delete" /\ job'.kind = job.kind
          BY <1>0, <3>2, <4>2 DEF StripObject, Step, Jobs
        <5> QED
          BY <1>4, <4>1, <5>1 DEF Cleaning, Kinds
      <4>3. CASE obj[job.kind] = None
        <5>1. obj'[job.kind] = None
          BY <1>0, <3>2, <4>3 DEF StripObject, Stripped, None, Objects, Jobs
        <5>2. AfterDelete /\ obj'[job.kind].st # "live"
          BY <3>2, <4>3, <5>1 DEF StripObject, None
        <5> QED
          BY <1>0, <1>4, <4>1, <5>2, AfterDeleted
      <4> QED
        BY <4>2, <4>3
    <3>3. CASE DeleteObject
      <4>1. obj["pvc"].st = "live" => job.kind = "pvc"
        BY <3>3 DEF DeleteObject, Cleaning
      <4>2. obj'[job.kind].st # "live"
        BY <1>0, <3>3 DEF DeleteObject, Deleted, None, Objects, Stored, Jobs
      <4> QED
        BY <1>0, <1>4, <3>3, <4>1, <4>2, AfterDeleted DEF DeleteObject
    <3> QED
      BY <1>8, <3>1, <3>2, <3>3
  <2> QED
    BY <1>1, <1>2, <1>3, <1>5, <2>1, <2>2 DEF Attended, Left
<1> QED
  BY <1>6, <1>7, <1>8 DEF Worker

\* The cluster removes nobody who has something left to clean up.
LEMMA ClusterAttended ==
  ASSUME ClaimsInv, AttendInv, faults = 0,
         \/ \E p \in Pods : Delete(p) \/ Kubelet(p)
         \/ \E k \in Kinds : Protect(k) \/ Unprotect(k)
  PROVE  ClaimsAttended'
<1>0. /\ pod \in [Pods -> PodStates] /\ obj \in Objects
      /\ UNCHANGED <<seen, request, job, due, wasted, faults>>
      /\ \A q \in Pods : PodInv(q)
  BY Parts DEF Shapes, RestType, Delete, Kubelet, Protect, Unprotect
<1>1. \A k \in Kinds : obj'[k].st = "live" => obj[k].st = "live"
  BY <1>0 DEF Delete, Kubelet, Protect, Unprotect, None, Objects, Stored
<1>2. SUFFICES ASSUME Left' PROVE Attended'
  BY AttendedFormNext
<1>3. Attended
  BY <1>0, <1>1, <1>2, AttendedForm DEF Left, AttendInv
<1>4. Cleaning => Cleaning'
  BY <1>0, <1>1 DEF Cleaning, Kinds
<1>5. \A q \in Pods : Claiming(q) => Claiming(q)'
  BY <1>0 DEF Claiming
<1>6. \A q \in Pods : /\ pod[q].st \in Ended => pod'[q].st \in Ended
                      /\ pod'[q].fin = pod[q].fin
                      /\ pod[q].st = "live" => pod'[q].st \in {"live", "dying"}
  BY <1>0 DEF Delete, Kubelet, Protect, Unprotect, PodStates, Ended
<1>7. \A q \in Pods : Awaited(q) => Awaited(q)'
  BY <1>0, <1>6 DEF Awaited
<1>8. ASSUME NEW q \in Pods, pod[q].st = "live"
      PROVE  pod'[q].st = "live" \/ Awaited(q)'
  <2>1. seen[q].st \notin Ended
    BY <1>0, <1>8 DEF PodInv, Behind, Ended
  <2> QED
    BY <1>0, <1>6, <1>8, <2>1 DEF Awaited, Ended
<1> QED
  BY <1>3, <1>4, <1>5, <1>7, <1>8 DEF Attended

\* Only the reconciler releases, and what the cache shows as terminating.
LEMMA JobSeen ==
  ASSUME ClaimsInv, ReleasedWhenSeen, [Next]_vars
  PROVE  /\ job'.pc = "idle" => job' = NoJob
         /\ job'.pc # "idle" => seen'[job'.pod].st \in Ended
<1>0. /\ seen \in [Pods -> PodStates] /\ job \in Jobs
      /\ job.pc # "idle" => job.pod \in Pods /\ pod[job.pod].st \in Ended
  BY Parts DEF Shapes, JobFits
<1>1. CASE UNCHANGED <<seen, job>>
  BY <1>1 DEF ReleasedWhenSeen
<1>2. CASE job' = NoJob
  BY <1>2 DEF NoJob
<1>3. CASE /\ UNCHANGED seen /\ job.pc # "idle"
           /\ \E pc \in {"list", "strip", "delete", "release"} : \E k : Step(pc, k)
  <2>1. job'.pod = job.pod /\ job'.pc # "idle"
    BY <1>0, <1>3 DEF Step, Jobs
  <2> QED
    BY <1>3, <2>1 DEF ReleasedWhenSeen
<1>4. ASSUME NEW p \in Pods, Refresh(p)
      PROVE  job' = job /\ (job.pc # "idle" => seen'[job.pod].st \in Ended)
  BY <1>0, <1>4 DEF Refresh, ReleasedWhenSeen
<1>5. ASSUME NEW p \in Pods, Reconcile(p)
      PROVE  \/ job' = NoJob
             \/ job'.pc # "idle" /\ job'.pod = p /\ seen'[p].st \in Ended
  BY <1>5 DEF Reconcile, Ended
<1>6. Worker => \/ job' = NoJob
                \/ /\ UNCHANGED seen /\ job.pc # "idle"
                   /\ \E pc \in {"list", "strip", "delete", "release"} : \E k : Step(pc, k)
  BY DEF Worker, ForceDeletePod, ListPods, StripObject, DeleteObject, AfterDelete,
     RemoveFinalizer, EndJob
<1>7. (\E p \in Pods : Webhook(p)) \/ Environment \/ UNCHANGED vars =>
        UNCHANGED <<seen, job>> \/ job' = NoJob
  BY DEF Webhook, Environment, Create, Ensure, CreateObject, Store, Reject, Touch, WebhookLists,
     WebhookDeletes, WebhookReleases, Delete, Kubelet, Protect, Unprotect, Crash, EndJob, vars
<1>8. CASE \E p \in Pods : Refresh(p)
  BY <1>4, <1>8 DEF ReleasedWhenSeen
<1>9. CASE \E p \in Pods : Reconcile(p)
  BY <1>5, <1>9 DEF NoJob
<1> QED
  BY <1>1, <1>2, <1>3, <1>6, <1>7, <1>8, <1>9 DEF Next

LEMMA RequestsFaultless ==
  ASSUME ClaimsInv, ReleasedWhenSeen, [Next]_vars, faults' = 0, NEW q \in Pods
  PROVE  request'[q].pc \notin {"list", "delete", "release"}
<1>0. /\ request \in [Pods -> Requests] /\ faults = 0 /\ ~Crash /\ \A p \in Pods : ~Touch(p)
      /\ \A p \in Pods : request[p].pc \notin {"list", "delete", "release"}
  BY Faultless, Parts DEF Shapes, ReleasedWhenSeen
<1>1. ASSUME NEW p \in Pods, Webhook(p) \/ Create(p) \/ Reject(p)
      PROVE  request'[q].pc \notin {"list", "delete", "release"}
  <2>1. \A pc \in {"ensure", "create", "store"} : \A k : Ask(p, pc, k) =>
          request'[q].pc \notin {"list", "delete", "release"}
    BY <1>0 DEF Ask, Requests
  <2>2. Answer(p) => request'[q].pc \notin {"list", "delete", "release"}
    BY <1>0 DEF Answer, NoRequest
  <2> QED
    BY <1>0, <1>1, <2>1, <2>2 DEF Webhook, Create, Ensure, CreateObject, Proceed, Store, Reject,
       Refuse, WebhookLists, WebhookDeletes, WebhookReleases
<1>2. CASE UNCHANGED request
  BY <1>0, <1>2
<1>3. (\E p \in Pods : Refresh(p) \/ Reconcile(p) \/ Delete(p) \/ Kubelet(p)) \/ Worker
      \/ (\E k \in Kinds : Protect(k) \/ Unprotect(k)) \/ UNCHANGED vars => UNCHANGED request
  BY DEF Refresh, Reconcile, Worker, ForceDeletePod, ListPods, StripObject, DeleteObject,
     RemoveFinalizer, Delete, Kubelet, Protect, Unprotect, vars
<1> QED
  BY <1>0, <1>1, <1>2, <1>3 DEF Next, Environment

LEMMA HeldUntilSeen ==
  ASSUME ClaimsInv, ReleasedWhenSeen, [Next]_vars, faults' = 0, NEW q \in Pods,
         pod'[q].st \in Ended, seen'[q].st \notin Ended
  PROVE  pod'[q].st = "dying" /\ pod'[q].fin
<1>0. /\ pod \in [Pods -> PodStates] /\ seen \in [Pods -> PodStates]
      /\ faults = 0 /\ ~Crash /\ \A p \in Pods : ~Touch(p)
      /\ \A p \in Pods : request[p].pc \notin {"list", "delete", "release"}
      /\ PodInv(q) /\ (job.pc # "idle" => job.pod \in Pods)
      /\ pod[q].st \in Ended /\ seen[q].st \notin Ended => pod[q].st = "dying" /\ pod[q].fin
      /\ job.pc # "idle" => seen[job.pod].st \in Ended
  BY Faultless, Parts DEF Shapes, ReleasedWhenSeen, JobFits
<1>1. CASE \E p \in Pods : Refresh(p)
  BY <1>0, <1>1 DEF Refresh
<1>2. CASE Worker
  <2>1. /\ UNCHANGED seen /\ job.pc # "idle"
        /\ pod' = pod \/ pod' = [pod EXCEPT ![job.pod].fin = FALSE]
    BY <1>2 DEF Worker, ForceDeletePod, ListPods, StripObject, DeleteObject, RemoveFinalizer,
       ReleaseSeen
  <2>2. q # job.pod
    BY <1>0, <2>1
  <2>3. pod'[q] = pod[q]
    BY <1>0, <2>1, <2>2
  <2> QED
    BY <1>0, <2>1, <2>3
<1>3. ASSUME NEW p \in Pods, Delete(p) \/ Kubelet(p) \/ Store(p)
      PROVE  pod'[q].st = "dying" /\ pod'[q].fin
  <2>1. CASE p # q
    BY <1>0, <1>3, <2>1 DEF Delete, Kubelet, Store
  <2>2. CASE p = q /\ Delete(p)
    BY <1>0, <2>2 DEF Delete, PodInv, Held, PodStates
  <2>3. CASE p = q /\ Kubelet(p)
    BY <1>0, <2>3 DEF Kubelet, Ended
  <2>4. CASE p = q /\ Store(p)
    BY <1>0, <2>4 DEF Store, Admitted, Ended
  <2> QED
    BY <1>3, <2>1, <2>2, <2>3, <2>4
<1>4. CASE UNCHANGED <<pod, seen>>
  BY <1>0, <1>4
<1>5. \/ \E p \in Pods : Refresh(p) \/ Delete(p) \/ Kubelet(p) \/ Store(p)
      \/ Worker
      \/ UNCHANGED <<pod, seen>>
  BY <1>0 DEF Next, Webhook, Environment, Create, Ensure, CreateObject, Reject, WebhookLists,
     WebhookDeletes, WebhookReleases, Reconcile, Protect, Unprotect, vars
<1> QED
  BY <1>1, <1>2, <1>3, <1>4, <1>5

LEMMA AttendStep == ClaimsInv /\ AttendInv /\ [Next]_vars => AttendInv'
<1> SUFFICES ASSUME ClaimsInv, AttendInv, [Next]_vars PROVE AttendInv'
  OBVIOUS
<1>1. ReleasedWhenSeen'
  BY JobSeen, RequestsFaultless, HeldUntilSeen DEF AttendInv, ReleasedWhenSeen
<1>2. ClaimsAttended'
  <2> SUFFICES ASSUME Left' PROVE ClaimsAttended'
    BY AttendedFormNext
  <2>0. ClaimsInv' /\ faults = 0 /\ ~Crash /\ (\A p \in Pods : ~Touch(p)) /\ (wasted => wasted')
    BY Faultless, ClaimsStep DEF Left
  <2>1. CASE UNCHANGED vars
    BY <2>1 DEF vars, AttendInv, ClaimsAttended, Cleaning, Claiming, Awaited
  <2>2. CASE Next
    BY <2>0, <2>2, AdmissionAttended, QueueAttended, WorkerAttended, ClusterAttended
       DEF Next, Environment
  <2> QED
    BY <2>1, <2>2
<1> QED
  BY <1>1, <1>2 DEF AttendInv

LEMMA AttendInitial == Init => AttendInv
  BY DEF Init, AttendInv, ReleasedWhenSeen, ClaimsAttended, NoJob, NoRequest, None, Ended, Kinds

\* For any number of pods, in whatever order admissions, events and reconciles come: a PV
\* or PVC that is left is never without somebody who will delete it.
THEOREM ClaimsAlwaysAttended == Spec => []ClaimsAttended
<1>1. ClaimsInv /\ AttendInv /\ [Next]_vars => (ClaimsInv /\ AttendInv)'
  BY ClaimsStep, AttendStep
<1>2. Init => ClaimsInv /\ AttendInv
  BY ClaimsInitial, AttendInitial
<1>3. ClaimsInv /\ AttendInv => ClaimsAttended
  BY DEF AttendInv
<1> QED
  BY <1>1, <1>2, <1>3, PTL DEF Spec

---------------------------------------------------------------------------
\* Refinement of ClaimContract

contractVars == <<"live", stages, claims>>

\* One pod moves on, or its admission is dropped.
LEMMA StageMaps ==
  ASSUME NEW p \in Pods, NEW s, UNCHANGED obj,
         \A q \in Pods \ {p} : pod'[q] = pod[q] /\ request'[q] = request[q],
         Stage(p)' = s,
         \/ s = Stage(p)
         \/ <<Stage(p), s>> \in {<<"none", "admitting">>, <<"admitting", "live">>,
                                 <<"live", "dying">>, <<"dying", "released">>,
                                 <<"released", "gone">>, <<"admitting", "none">>}
  PROVE  [Contract!Next]_contractVars
<1>0. \A q \in Pods \ {p} : Stage(q)' = Stage(q)
  BY DEF Stage, Admitting
<1>1. stages' = [stages EXCEPT ![p] = s] /\ UNCHANGED claims
  BY <1>0 DEF stages, claims
<1>2. CASE s = Stage(p)
  BY <1>1, <1>2 DEF contractVars, stages
<1>3. CASE Stage(p) = "admitting" /\ s = "none"
  <2>1. stages[p] = "admitting" /\ stages' = [q \in Pods |-> IF q \in {p} THEN "none" ELSE stages[q]]
    BY <1>1, <1>3 DEF stages
  <2>2. Contract!Drop({p})
    BY <1>1, <2>1 DEF Contract!Drop
  <2> QED
    BY <2>2 DEF Contract!Next
<1>4. CASE <<Stage(p), s>> \in {<<"none", "admitting">>, <<"admitting", "live">>,
                                <<"live", "dying">>, <<"dying", "released">>,
                                <<"released", "gone">>}
  <2>1. stages[p] = Stage(p)
    BY DEF stages
  <2>2. Contract!Move(p, Stage(p), s)
    BY <1>1, <2>1 DEF Contract!Move
  <2>3. Contract!PodMoves
    BY <1>4, <2>2 DEF Contract!PodMoves, Contract!Admit, Contract!Store, Contract!End,
       Contract!Release, Contract!Leave
  <2> QED
    BY <2>3 DEF Contract!Next
<1> QED
  BY <1>2, <1>3, <1>4

\* What is not there has no finalizer.
Absent(o) == o.st = "none" => o = None

AllAbsent == \A k \in Kinds : Absent(obj[k])

LEMMA AbsentKept ==
  ASSUME NEW o \in Stored, Absent(o)
  PROVE  /\ Absent(Fresh) /\ Absent(None) /\ Absent(Deleted(o)) /\ Absent(Stripped(o))
         /\ o.st = "live" => Absent([o EXCEPT !.fin = TRUE])
  BY DEF Absent, Fresh, None, Deleted, Stripped, Stored

\* Every step leaves an object as it is or makes of it one of these.
LEMMA AbsentStep ==
  ASSUME ClaimsInv, AllAbsent, [Next]_vars
  PROVE  AllAbsent'
<1>0. obj \in Objects /\ job \in Jobs /\ request \in [Pods -> Requests]
  BY Parts DEF RestType, Shapes
<1>1. CASE UNCHANGED obj
  BY <1>1 DEF AllAbsent, Absent, None
<1>2. ASSUME NEW k \in Kinds, NEW o, Absent(o), obj' = [obj EXCEPT ![k] = o] PROVE AllAbsent'
  BY <1>0, <1>2 DEF AllAbsent, Absent, Objects, None
<1>3. \A k \in Kinds : obj[k] \in Stored /\ Absent(obj[k])
  BY <1>0 DEF AllAbsent, Objects
<1>4. ASSUME NEW p \in Pods, CreateObject(p) PROVE AllAbsent'
  <2>1. request[p].kind \in Kinds
    BY <1>0 DEF Requests
  <2> QED
    BY <1>1, <1>2, <1>3, <1>4, <2>1, AbsentKept DEF CreateObject
<1>5. ASSUME NEW p \in Pods, WebhookDeletes(p) PROVE AllAbsent'
  <2>1. request[p].kind \in Kinds
    BY <1>0 DEF Requests
  <2> QED
    BY <1>2, <1>3, <1>5, <2>1, AbsentKept DEF WebhookDeletes
<1>6. CASE StripObject \/ DeleteObject
  <2>1. job.kind \in Kinds
    BY <1>0 DEF Jobs
  <2>2. PICK o \in {Deleted(obj[job.kind]), Stripped(obj[job.kind]), None} :
          obj' = [obj EXCEPT ![job.kind] = o]
    BY <1>6 DEF StripObject, DeleteObject
  <2>3. Absent(o)
    BY <1>3, <2>1, <2>2, AbsentKept
  <2> QED
    BY <1>2, <2>1, <2>2, <2>3
<1>7. ASSUME NEW k \in Kinds, Protect(k) \/ Unprotect(k) PROVE AllAbsent'
  <2>1. CASE Protect(k)
    BY <1>2, <1>3, <2>1, AbsentKept DEF Protect
  <2>2. CASE Unprotect(k)
    BY <1>2, <1>3, <2>2, AbsentKept DEF Unprotect
  <2> QED
    BY <1>7, <2>1, <2>2
<1>8. \/ UNCHANGED obj \/ StripObject \/ DeleteObject
      \/ \E p \in Pods : CreateObject(p) \/ WebhookDeletes(p)
      \/ \E k \in Kinds : Protect(k) \/ Unprotect(k)
  BY DEF Next, Webhook, Worker, Environment, Create, Ensure, Store, Reject, Touch, WebhookLists,
     WebhookReleases, Refresh, Reconcile, ForceDeletePod, ListPods, RemoveFinalizer, Delete,
     Kubelet, Crash, vars
<1> QED
  BY <1>1, <1>4, <1>5, <1>6, <1>7, <1>8

Reason(k, o) ==
  \/ o.st = obj[k].st
  \/ obj[k].st = "dying" /\ o.st = "none"
  \/ obj[k].st = "none" /\ o.st = "live" /\ \E p \in Pods : Stage(p) = "admitting"
  \/ /\ obj[k].st = "live" /\ o.st \in {"none", "dying"}
     /\ \E p \in Pods : Stage(p) \in {"dying", "released", "gone"}

\* A step that makes or takes away one object does so for a reason.
LEMMA ClaimMaps ==
  ASSUME ClaimsInv, NEW k \in Kinds, NEW o \in Stored, obj' = [obj EXCEPT ![k] = o],
         \A q \in Pods : Stage(q)' = Stage(q), Reason(k, o)
  PROVE  [Contract!Next]_contractVars
<1> DEFINE c == <<k, "here">>
<1>0. obj \in Objects /\ UNCHANGED stages
  BY Parts DEF RestType, stages
<1>1. c \in Contract!Claims /\ claims[c] = obj[k].st /\ c[2] = "here"
  BY DEF Kinds, Contract!Claims, claims
<1>2. claims' = [claims EXCEPT ![c] = o.st]
  <2>1. \A x \in Kinds \X {"here"} : x[1] \in Kinds /\ (x[1] = k <=> x = c)
    OBVIOUS
  <2>2. \A j \in Kinds : obj'[j] = IF j = k THEN o ELSE obj[j]
    BY <1>0 DEF Objects
  <2>3. \A x \in Kinds \X {"here"} : obj'[x[1]].st = IF x = c THEN o.st ELSE obj[x[1]].st
    BY <2>1, <2>2
  <2> HIDE DEF c
  <2>4. claims' = [x \in Kinds \X {"here"} |-> IF x = c THEN o.st ELSE obj[x[1]].st]
    BY <2>3 DEF claims
  <2> QED
    BY <2>4 DEF claims
<1>3. \A p \in Pods : [q \in Pods |-> "here"][p] = "here" /\ stages[p] = Stage(p)
  BY DEF stages
<1>4. CASE o.st = obj[k].st
  BY <1>0, <1>1, <1>2, <1>4 DEF contractVars, claims
<1>5. CASE obj[k].st = "dying" /\ o.st = "none"
  BY <1>0, <1>1, <1>2, <1>5 DEF Contract!Next, Contract!Vanish
<1>6. CASE obj[k].st = "none" /\ o.st = "live" /\ \E p \in Pods : Stage(p) = "admitting"
  <2>1. Contract!Make(c)
    BY <1>0, <1>1, <1>2, <1>3, <1>6 DEF Contract!Make
  <2> QED
    BY <1>1, <2>1 DEF Contract!Next
<1>7. CASE /\ obj[k].st = "live" /\ o.st \in {"none", "dying"}
           /\ \E p \in Pods : Stage(p) \in {"dying", "released", "gone"}
  <2>1. Contract!Take(c)
    BY <1>0, <1>1, <1>2, <1>3, <1>7 DEF Contract!Take
  <2> QED
    BY <1>1, <2>1 DEF Contract!Next
<1> QED
  BY <1>4, <1>5, <1>6, <1>7 DEF Reason

\* Who deletes does so after a pod that has ended.
LEMMA Reasons ==
  ASSUME ClaimsInv, AllAbsent, NEW k \in Kinds, NEW p \in Pods, pod[p].st \in Ended
  PROVE  /\ Reason(k, Deleted(obj[k])) /\ Deleted(obj[k]) \in Stored
         /\ Reason(k, Stripped(obj[k])) /\ Stripped(obj[k]) \in Stored
         /\ Reason(k, None) /\ None \in Stored
<1>1. obj[k] \in Stored
  BY Parts DEF RestType, Objects
<1>2. Stage(p) \in {"dying", "released", "gone"}
  BY DEF Stage, Ended
<1>3. ASSUME NEW o \in Stored,
             \/ o.st = obj[k].st
             \/ o.st \in {"none", "dying"} /\ obj[k].st = "live"
             \/ o.st = "none" /\ obj[k].st = "dying"
      PROVE  Reason(k, o)
  BY <1>1, <1>2, <1>3 DEF Reason, Stored, None
<1>4. None \in Stored /\ None.st = "none"
  BY Entries DEF None
<1>6. Reason(k, None)
  BY <1>1, <1>3, <1>4 DEF Stored
<1>7. Stripped(obj[k]) \in Stored /\ Reason(k, Stripped(obj[k]))
  <2>1. CASE obj[k].st = "live"
    <3>1. Stripped(obj[k]) \in Stored /\ Stripped(obj[k]).st = obj[k].st
      BY <1>1, <2>1 DEF Stripped, Stored
    <3> QED
      BY <1>3, <3>1
  <2> QED
    BY <1>4, <1>6, <2>1 DEF Stripped
<1>8. Deleted(obj[k]) \in Stored /\ Reason(k, Deleted(obj[k]))
  <2>1. CASE obj[k].fin
    <3>1. Deleted(obj[k]) \in Stored /\ Deleted(obj[k]).st = "dying"
      BY <1>1, <2>1 DEF Deleted, Stored
    <3>2. obj[k].st # "none"
      BY <2>1 DEF AllAbsent, Absent, None
    <3> QED
      BY <1>1, <1>3, <3>1, <3>2 DEF Stored
  <2>2. CASE ~obj[k].fin
    BY <1>4, <1>6, <2>2 DEF Deleted
  <2> QED
    BY <2>1, <2>2
<1> QED
  BY <1>4, <1>6, <1>7, <1>8

\* An admission in any of its steps is dropped, goes on, or makes an object and goes on.
LEMMA AdmissionMaps ==
  ASSUME ClaimsInv, AllAbsent, NEW p \in Pods,
         Create(p) \/ Ensure(p) \/ CreateObject(p) \/ Store(p) \/ Reject(p)
  PROVE  [Contract!Next]_contractVars
<1>0. /\ request[p] \in Requests /\ pod \in [Pods -> PodStates] /\ request \in [Pods -> Requests]
      /\ PodInv(p)
  BY Parts DEF Shapes
<1>1. /\ \A pc, k : Ask(p, pc, k) => request'[p].pc = pc
      /\ Answer(p) => request'[p].pc = "idle"
      /\ Refuse(p) => Answer(p)
  BY <1>0 DEF Ask, Answer, Refuse, Requests, NoRequest
<1>2. Proceed(p) => request'[p].pc \in {"ensure", "store"}
  BY <1>1 DEF Proceed
<1>3. \A q \in Pods \ {p} : request'[q] = request[q] /\ pod'[q] = pod[q]
  <2>1. \A pc, k : Ask(p, pc, k) => \A q \in Pods \ {p} : request'[q] = request[q]
    BY <1>0 DEF Ask
  <2>2. Answer(p) => \A q \in Pods \ {p} : request'[q] = request[q]
    BY <1>0 DEF Answer
  <2>3. Proceed(p) => \A q \in Pods \ {p} : request'[q] = request[q]
    BY <2>1 DEF Proceed
  <2>4. UNCHANGED pod \/ pod' = [pod EXCEPT ![p] = Admitted]
    BY DEF Create, Ensure, CreateObject, Store, Reject
  <2>5. \A q \in Pods \ {p} : pod'[q] = pod[q]
    BY <1>0, <2>4
  <2> QED
    BY <1>1, <2>1, <2>2, <2>3, <2>5 DEF Create, Ensure, CreateObject, Store, Reject
<1>4. pod[p].st = "none"
  BY <1>0 DEF PodInv, Suits, Create, Ensure, CreateObject, Store, Reject
<1>5. Create(p) \/ Stage(p) = "admitting"
  BY <1>4 DEF Ensure, CreateObject, Store, Reject, Stage, Admitting
<1>6. CASE Create(p)
  <2>1. Stage(p) = "none" /\ Stage(p)' = "admitting" /\ UNCHANGED obj
    BY <1>1, <1>4, <1>6 DEF Create, Stage, Admitting, NoRequest
  <2> QED
    BY <1>3, <2>1, StageMaps
<1>7. CASE Store(p)
  <2>1. Stage(p)' = "live" /\ UNCHANGED obj
    BY <1>0, <1>7 DEF Store, Stage, Admitted
  <2>2. Stage(p) = "admitting"
    BY <1>4, <1>7 DEF Store, Stage, Admitting
  <2> QED
    BY <1>3, <2>1, <2>2, StageMaps
<1>8. CASE Stage(p) = "admitting" /\ Answer(p) /\ UNCHANGED <<pod, obj>>
  <2>1. Stage(p)' = "none"
    BY <1>1, <1>4, <1>8 DEF Stage, Admitting
  <2> QED
    BY <1>3, <1>8, <2>1, StageMaps
<1>9. CASE Stage(p) = "admitting" /\ UNCHANGED pod /\ request'[p].pc \in {"ensure", "create", "store"}
  <2>1. Stage(p)' = "admitting" /\ \A q \in Pods : Stage(q)' = Stage(q)
    BY <1>3, <1>4, <1>9 DEF Stage, Admitting
  <2>2. CASE UNCHANGED obj
    BY <1>3, <1>9, <2>1, <2>2, StageMaps
  <2>3. CASE CreateObject(p) /\ obj[request[p].kind] = None
             /\ obj' = [obj EXCEPT ![request[p].kind] = Fresh]
    <3>1. request[p].kind \in Kinds /\ Fresh \in Stored
      BY <1>0, Entries DEF Requests
    <3>2. Reason(request[p].kind, Fresh)
      BY <1>9, <2>3 DEF Reason, None, Fresh
    <3> QED
      BY <2>1, <2>3, <3>1, <3>2, ClaimMaps
  <2>4. UNCHANGED obj \/ (CreateObject(p) /\ obj[request[p].kind] = None
                            /\ obj' = [obj EXCEPT ![request[p].kind] = Fresh])
    BY <1>9 DEF Create, Ensure, CreateObject, Store, Reject
  <2> QED
    BY <2>2, <2>3, <2>4
<1>10. CASE Ensure(p)
  <2>1. UNCHANGED <<pod, obj>> /\ (Answer(p) \/ request'[p].pc \in {"ensure", "create", "store"})
    BY <1>1, <1>2, <1>10 DEF Ensure
  <2>2. Stage(p) = "admitting"
    BY <1>4, <1>10 DEF Ensure, Stage, Admitting
  <2> QED
    BY <1>8, <1>9, <2>1, <2>2
<1>11. CASE CreateObject(p)
  <2>1. UNCHANGED pod /\ ((Answer(p) /\ UNCHANGED obj) \/ request'[p].pc \in {"ensure", "create", "store"})
    BY <1>1, <1>2, <1>11 DEF CreateObject
  <2>2. Stage(p) = "admitting"
    BY <1>4, <1>11 DEF CreateObject, Stage, Admitting
  <2> QED
    BY <1>8, <1>9, <2>1, <2>2
<1>12. CASE Reject(p)
  <2>1. UNCHANGED <<pod, obj>> /\ Answer(p) /\ Stage(p) = "admitting"
    BY <1>1, <1>4, <1>12 DEF Reject, Stage, Admitting
  <2> QED
    BY <1>8, <2>1
<1> QED
  BY <1>6, <1>7, <1>10, <1>11, <1>12

\* The finalizer is taken off a pod that terminates, which is its release, or that is gone.
LEMMA ReleaseMaps ==
  ASSUME ClaimsInv, NEW p \in Pods, pod[p].st \in Ended, pod'[p].st = pod[p].st,
         pod'[p].fin \in {pod[p].fin, FALSE}, UNCHANGED obj,
         \A q \in Pods \ {p} : pod'[q] = pod[q] /\ request'[q] = request[q]
  PROVE  [Contract!Next]_contractVars
<1>0. pod[p] \in PodStates
  BY Parts DEF Shapes
<1>1. Stage(p)' = Stage(p) \/ (Stage(p) = "dying" /\ Stage(p)' = "released")
  BY <1>0 DEF Stage, Ended, PodStates
<1> QED
  BY <1>1, StageMaps

\* The update of a terminating pod.
LEMMA TouchMaps ==
  ASSUME ClaimsInv, AllAbsent, NEW p \in Pods,
         Touch(p) \/ WebhookLists(p) \/ WebhookDeletes(p) \/ WebhookReleases(p)
  PROVE  [Contract!Next]_contractVars
<1>0. /\ request[p] \in Requests /\ pod \in [Pods -> PodStates] /\ request \in [Pods -> Requests]
      /\ PodInv(p)
  BY Parts DEF Shapes
<1>1. pod[p].st \in Ended
  BY <1>0 DEF PodInv, Suits, Touch, WebhookLists, WebhookDeletes, WebhookReleases, Ended
<1>2. \A q \in Pods \ {p} : request'[q] = request[q]
  BY <1>0 DEF Touch, WebhookLists, WebhookDeletes, WebhookReleases, Ask, Answer
<1>3. CASE Touch(p) \/ WebhookLists(p)
  BY <1>1, <1>2, <1>3, ReleaseMaps DEF Touch, WebhookLists
<1>4. CASE WebhookReleases(p)
  <2>1. UNCHANGED obj /\ pod'[p].st = pod[p].st /\ pod'[p].fin = FALSE
        /\ \A q \in Pods \ {p} : pod'[q] = pod[q]
    BY <1>0, <1>4 DEF WebhookReleases, PodStates
  <2> QED
    BY <1>1, <1>2, <2>1, ReleaseMaps
<1>5. CASE WebhookDeletes(p)
  <2>1. request[p].kind \in Kinds /\ UNCHANGED pod
    BY <1>0, <1>5 DEF WebhookDeletes, Requests
  <2>2. \A q \in Pods : Stage(q)' = Stage(q)
    BY <1>1, <1>2, <2>1 DEF Stage, Admitting, Ended
  <2>3. obj' = [obj EXCEPT ![request[p].kind] = Deleted(obj[request[p].kind])]
    BY <1>5 DEF WebhookDeletes
  <2>4. /\ Reason(request[p].kind, Deleted(obj[request[p].kind]))
        /\ Deleted(obj[request[p].kind]) \in Stored
    BY <1>1, <2>1, Reasons
  <2> QED
    BY <2>1, <2>2, <2>3, <2>4, ClaimMaps
<1> QED
  BY <1>3, <1>4, <1>5

\* The reconciler's worker.
LEMMA WorkerMaps ==
  ASSUME ClaimsInv, AllAbsent, Worker
  PROVE  [Contract!Next]_contractVars
<1>0. /\ pod \in [Pods -> PodStates] /\ job \in Jobs /\ UNCHANGED request
      /\ job.pod \in Pods /\ pod[job.pod].st \in Ended
  BY Parts DEF Shapes, JobFits, Worker, ForceDeletePod, ListPods, StripObject, DeleteObject,
     RemoveFinalizer
<1>1. CASE ForceDeletePod \/ ListPods \/ RemoveFinalizer
  <2>1. UNCHANGED obj /\ (UNCHANGED pod \/ pod' = [pod EXCEPT ![job.pod].fin = FALSE])
    BY <1>1 DEF ForceDeletePod, ListPods, RemoveFinalizer, ReleaseSeen
  <2>2. /\ pod'[job.pod].st = pod[job.pod].st /\ pod'[job.pod].fin \in {pod[job.pod].fin, FALSE}
        /\ \A q \in Pods \ {job.pod} : pod'[q] = pod[q]
    BY <1>0, <2>1 DEF PodStates
  <2> QED
    BY <1>0, <2>1, <2>2, ReleaseMaps
<1>2. CASE StripObject \/ DeleteObject
  <2>1. UNCHANGED pod /\ job.kind \in Kinds
    BY <1>0, <1>2 DEF StripObject, DeleteObject, Jobs
  <2>2. \A q \in Pods : Stage(q)' = Stage(q)
    BY <1>0, <2>1 DEF Stage, Admitting
  <2>3. PICK o \in {Deleted(obj[job.kind]), Stripped(obj[job.kind]), None} :
          obj' = [obj EXCEPT ![job.kind] = o]
    BY <1>2 DEF StripObject, DeleteObject
  <2>4. Reason(job.kind, o) /\ o \in Stored
    BY <1>0, <2>1, <2>3, Reasons
  <2> QED
    BY <2>1, <2>2, <2>3, <2>4, ClaimMaps
<1> QED
  BY <1>1, <1>2 DEF Worker

\* The cluster, and a restart that ends all admissions.
LEMMA ClusterMaps ==
  ASSUME ClaimsInv, AllAbsent,
         \/ \E p \in Pods : Delete(p) \/ Kubelet(p)
         \/ \E k \in Kinds : Protect(k) \/ Unprotect(k)
         \/ Crash
  PROVE  [Contract!Next]_contractVars
<1>0. pod \in [Pods -> PodStates] /\ \A p \in Pods : PodInv(p)
  BY Parts DEF Shapes
<1>1. ASSUME NEW p \in Pods, Delete(p) \/ Kubelet(p) PROVE [Contract!Next]_contractVars
  <2>1. UNCHANGED <<obj, request>> /\ \A q \in Pods \ {p} : pod'[q] = pod[q]
    BY <1>0, <1>1 DEF Delete, Kubelet
  <2>2. CASE Delete(p)
    <3>1. Stage(p) = "live" /\ Stage(p)' = "dying"
      BY <1>0, <2>2 DEF Delete, Stage, PodInv, Held, PodStates
    <3> QED
      BY <2>1, <3>1, StageMaps
  <2>3. CASE Kubelet(p)
    <3>1. Stage(p) = "released" /\ Stage(p)' = "gone"
      BY <1>0, <2>3 DEF Kubelet, Stage, PodStates
    <3> QED
      BY <2>1, <3>1, StageMaps
  <2> QED
    BY <1>1, <2>2, <2>3
<1>2. ASSUME NEW k \in Kinds, Protect(k) \/ Unprotect(k) PROVE [Contract!Next]_contractVars
  <2>1. \A q \in Pods : Stage(q)' = Stage(q)
    BY <1>2 DEF Protect, Unprotect, Stage, Admitting
  <2>2. obj[k] \in Stored
    BY Parts DEF RestType, Objects
  <2>3. CASE Protect(k)
    <3>1. obj' = [obj EXCEPT ![k] = [obj[k] EXCEPT !.fin = TRUE]]
      BY <2>3 DEF Protect
    <3>2. [obj[k] EXCEPT !.fin = TRUE] \in Stored /\ [obj[k] EXCEPT !.fin = TRUE].st = obj[k].st
      BY <2>2 DEF Stored
    <3>3. Reason(k, [obj[k] EXCEPT !.fin = TRUE])
      BY <3>2 DEF Reason
    <3> QED
      BY <2>1, <3>1, <3>2, <3>3, ClaimMaps
  <2>4. CASE Unprotect(k)
    <3>1. Reason(k, None) /\ None \in Stored /\ obj' = [obj EXCEPT ![k] = None]
      BY <2>4, Entries DEF Unprotect, Reason, None
    <3> QED
      BY <2>1, <3>1, ClaimMaps
  <2> QED
    BY <1>2, <2>3, <2>4
<1>3. CASE Crash
  <2> DEFINE lost == {p \in Pods : Admitting(p)}
  <2>1. \A p \in lost : Stage(p) = "admitting" /\ pod[p].st = "none"
    <3>1. \A p \in Pods : Admitting(p) => pod[p].st = "none"
      BY <1>0 DEF Admitting, PodInv, Suits
    <3>2. \A p \in Pods : Admitting(p) => Stage(p) = "admitting"
      BY <3>1 DEF Stage
    <3> QED
      BY <3>1, <3>2
  <2>2. \A p \in Pods : Stage(p)' = IF p \in lost THEN "none" ELSE Stage(p)
    BY <1>3, <2>1 DEF Crash, Stage, Admitting, NoRequest
  <2>3. /\ stages' = [p \in Pods |-> IF p \in lost THEN "none" ELSE stages[p]]
        /\ \A p \in lost : stages[p] = "admitting"
    BY <2>1, <2>2 DEF stages
  <2>4. UNCHANGED claims
    BY <1>3 DEF Crash, claims
  <2>5. Contract!Drop(lost) /\ lost \in SUBSET Pods
    BY <2>3, <2>4 DEF Contract!Drop
  <2> QED
    BY <2>5 DEF Contract!Next
<1> QED
  BY <1>1, <1>2, <1>3

\* Every step of the webhook, the reconciler and the cluster is one of the contract's, or
\* nothing to it.
LEMMA StepMaps ==
  ASSUME ClaimsInv, AllAbsent, [Next]_vars
  PROVE  [Contract!Next]_contractVars
<1>1. CASE UNCHANGED <<pod, request, obj>>
  BY <1>1 DEF contractVars, stages, claims, Stage, Admitting
<1>2. (\E p \in Pods : Refresh(p) \/ Reconcile(p)) \/ UNCHANGED vars => UNCHANGED <<pod, request, obj>>
  BY DEF Refresh, Reconcile, vars
<1> QED
  BY <1>1, <1>2, AdmissionMaps, TouchMaps, WorkerMaps, ClusterMaps DEF Next, Webhook, Environment

\* No pod runs at first.
LEMMA InitMaps == Init => Contract!Init /\ AllAbsent
<1> SUFFICES ASSUME Init PROVE Contract!Init /\ AllAbsent
  OBVIOUS
<1>1. stages = [p \in Pods |-> IF p \in {} THEN "live" ELSE "none"]
  BY DEF Init, stages, Stage, Admitting, None, NoRequest
<1>2. claims = [c \in Contract!Claims |->
                  IF \E p \in {} : [q \in Pods |-> "here"][p] = c[2] THEN "live" ELSE "none"]
  BY DEF Init, claims, None, Kinds, Contract!Claims
<1>3. AllAbsent
  BY DEF Init, AllAbsent, Absent
<1>4. \E running \in SUBSET Pods :
        /\ stages = [p \in Pods |-> IF p \in running THEN "live" ELSE "none"]
        /\ claims = [c \in Contract!Claims |->
                       IF \E p \in running : [q \in Pods |-> "here"][p] = c[2]
                       THEN "live" ELSE "none"]
  <2> WITNESS {} \in SUBSET Pods
  <2> QED
    BY <1>1, <1>2
<1> QED
  BY <1>3, <1>4 DEF Contract!Init

\* With any number of pods, concurrent requests, old copies, conflicts and restarts: a pod
\* is released only after its deletion and goes only after its release, a PV or PVC is
\* made only under an admission and deleted only after a pod has ended.
THEOREM ClaimsImplementContract == Spec => KeepsContract
<1>1. Init => ClaimsInv /\ AllAbsent /\ Contract!Init
  BY ClaimsInitial, InitMaps
<1>2. ClaimsInv /\ AllAbsent /\ [Next]_vars =>
        ClaimsInv' /\ AllAbsent' /\ [Contract!Next]_(Contract!contractVars)
  BY ClaimsStep, AbsentStep, StepMaps DEF contractVars, Contract!contractVars
<1> QED
  BY <1>1, <1>2, PTL DEF Spec, KeepsContract, Contract!Spec
=============================================================================
