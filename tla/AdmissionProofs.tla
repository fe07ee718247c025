-------------------------- MODULE AdmissionProofs --------------------------
(***************************************************************************)
(* Proofs about VolumeAdmission, for all specs users may write and any     *)
(* number of objects and edits.                                            *)
(***************************************************************************)
EXTENDS VolumeAdmission, TLAPS

---------------------------------------------------------------------------
\* Types of what the controller makes of a spec

LEMMA NfsNameType == \A r \in Refs : NfsName[r] \in NfsNames
  BY DEF NfsNames

\* Defaults keep a spec a spec, and the parts no default is for.
LEMMA FilledSpec ==
  ASSUME NEW spec \in Specs, SpecComplete(spec)
  PROVE  /\ Filled(spec) \in Specs
         /\ SpecComplete(Filled(spec)) /\ Filled(spec).namespace # ""
         /\ Filled(spec).source = spec.source /\ Filled(spec).mountPath = spec.mountPath
         /\ Filled(spec).nfs = None <=> spec.nfs = None
<1> DEFINE namespace == IF spec.namespace = "" THEN Home ELSE spec.namespace
           interval == OrDefault(spec.interval, 60, spec)
           timeout == OrDefault(spec.timeout, 120, spec)
<1>1. namespace \in Namespaces /\ namespace # ""
  BY SpecsAssumption DEF Specs
<1>2. interval \in Durations /\ timeout \in Durations
  <2>1. spec.interval \in Durations /\ spec.timeout \in Durations
    BY DEF Specs
  <2>2. 60 \in Durations /\ 120 \in Durations
    BY DEF Durations
  <2> QED
    BY <2>1, <2>2, Zenon DEF OrDefault
<1>3. spec.storage \in Storages
  BY DEF SpecComplete, Specs
<1>4. /\ WithMode(spec.storage) \in Storages
      /\ WithMode(spec.storage).capacity = spec.storage.capacity
      /\ WithMode(spec.storage).mode \in Modes
  BY <1>3 DEF SpecComplete, Storages, Modes, WithMode
<1>5. WithMode(spec.storage) # None
  BY <1>4, NoneAssumption
<1>6. /\ WithPath(spec.nfs) \in NfsSpecs \cup {None}
      /\ WithPath(spec.nfs) = None <=> spec.nfs = None
  <2>1. CASE spec.nfs = None
    BY <2>1 DEF WithPath
  <2>2. CASE spec.nfs # None
    <3>1. spec.nfs \in NfsSpecs
      BY <2>2 DEF Specs
    <3>2. WithPath(spec.nfs) \in NfsSpecs
      BY <3>1 DEF NfsSpecs, WithPath
    <3> QED
      BY <2>2, <3>2, NoneAssumption
  <2> QED
    BY <2>1, <2>2
<1>7. Filled(spec) = [spec EXCEPT !.namespace = namespace, !.interval = interval,
                                  !.timeout = timeout, !.storage = WithMode(spec.storage),
                                  !.nfs = WithPath(spec.nfs)]
  BY DEF Filled
<1> HIDE DEF namespace, interval, timeout
<1>8. /\ Filled(spec) \in Specs
      /\ Filled(spec).mountPath = spec.mountPath /\ Filled(spec).source = spec.source
      /\ Filled(spec).namespace = namespace /\ Filled(spec).nfs = WithPath(spec.nfs)
      /\ Filled(spec).storage = WithMode(spec.storage) /\ Filled(spec).class = spec.class
  BY <1>1, <1>2, <1>4, <1>6, <1>7 DEF Specs
<1> QED
  BY <1>1, <1>4, <1>5, <1>6, <1>8 DEF SpecComplete, Modes

\* The reference value and the server named by it are of their types.
LEMMA ReferencedSpec ==
  ASSUME NEW spec \in Specs
  PROVE  /\ Referenced(spec) \in Specs /\ Referenced(spec).ref \in Refs
         /\ \A f \in {"mountPath", "source", "namespace"} : Referenced(spec)[f] = spec[f]
  BY DEF Referenced, Specs, Refs

LEMMA GeneratedSpec ==
  ASSUME NEW spec \in Specs
  PROVE  /\ Generated(spec) \in Specs
         /\ Generated(spec).nfs # None /\ Generated(spec).nfs.name \in NfsNames
<1> DEFINE nfs == [name |-> NfsName[Referenced(spec).ref], namespace |-> Home,
                   url |-> "nfs.ns.svc", path |-> "/"]
<1>1. NfsName[Referenced(spec).ref] \in NfsNames
  BY ReferencedSpec, NfsNameType
<1>2. nfs \in NfsSpecs
  BY <1>1, SpecsAssumption DEF NfsSpecs, Urls
<1>3. Generated(spec) = [Referenced(spec) EXCEPT !.nfs = nfs]
  BY DEF Generated
<1>4. nfs.name \in NfsNames
  BY <1>1
<1> HIDE DEF nfs
<1>5. Generated(spec) \in Specs /\ Generated(spec).nfs = nfs
  BY <1>2, <1>3, ReferencedSpec DEF Specs
<1> QED
  BY <1>2, <1>4, <1>5, NoneAssumption

---------------------------------------------------------------------------
\* The inductive invariant

LEMMA NoSpecType == NoSpec \in Specs
  BY DEF NoSpec, Specs, Durations

LEMMA NoObjectType == NoObject \in Objects
  BY NoSpecType DEF NoObject, Objects

LEMMA InitInv == Init => AdmissionInv
<1> SUFFICES ASSUME Init PROVE AdmissionInv
  OBVIOUS
<1>1. TypeOK
  BY AdmissionAssumption, NoObjectType DEF Init, TypeOK, Labels
<1> QED
  BY <1>1 DEF Init, AdmissionInv, StoredValid, CopyValid, TimerValid, NoObject

\* An update that is accepted leaves an object that could have been created.
LEMMA UpdateValid ==
  ASSUME NEW old, NEW new, ValidateVolumeObjectUpdate(kind, old, new)
  PROVE  ValidateVolumeSpec(kind, new)
  BY DEF ValidateVolumeObjectUpdate

\* A version is followed by a later one.
LEMMA NextVersion ==
  ASSUME NEW old \in Objects
  PROVE  old.rv + 1 \in Nat
<1>1. old.rv \in Nat
  BY DEF Objects
<1> QED
  BY <1>1

\* An accepted update of a copy.
LEMMA StoredInv ==
  ASSUME TypeOK, NEW spec \in Specs, Accepted(spec), Stored(spec), kind' = kind
  PROVE  obj' \in Objects /\ StoredValid'
<1>1. obj \in Objects /\ obj.rv + 1 \in Nat
  BY NextVersion DEF TypeOK
<1>3. obj' \in Objects /\ obj'.spec = spec
  BY <1>1 DEF Stored, Objects
<1>2. ValidateVolumeSpec(kind, spec)
  BY UpdateValid DEF Accepted
<1> QED
  BY <1>2, <1>3 DEF StoredValid

\* A reconcile that returns forgets its copy.
LEMMA ReturnInv ==
  ASSUME TypeOK, NEW again \in BOOLEAN, Return(again)
  PROVE  /\ pc' \in Labels /\ mem' \in Objects /\ queued' \in BOOLEAN
         /\ CopyValid'
<1>1. mem' = NoObject /\ pc' = "idle" /\ queued' \in BOOLEAN
  BY DEF Return, TypeOK
<1> QED
  BY <1>1, NoObjectType DEF Labels, CopyValid, NoObject

\* A write of the object alone leaves copy and timer as they are.
LEMMA ObjectOnly ==
  ASSUME AdmissionInv, obj' \in Objects, StoredValid', queued' \in BOOLEAN,
         objects' \in Nat, edits' \in Nat, UNCHANGED <<kind, servers, pc, mem, timer>>
  PROVE  AdmissionInv'
<1>1. TypeOK'
  BY DEF AdmissionInv, TypeOK
<1>2. CopyValid'
  BY DEF AdmissionInv, CopyValid
<1>3. TimerValid'
  BY DEF AdmissionInv, TimerValid, KeyNamespace
<1> QED
  BY <1>1, <1>2, <1>3 DEF AdmissionInv

LEMMA CreateInv ==
  ASSUME AdmissionInv, NEW s \in UserSpecs, Create(s)
  PROVE  AdmissionInv'
<1>1. s \in Specs
  BY AdmissionAssumption
<1>4. obj \in Objects /\ obj.rv + 1 \in Nat
  BY NextVersion DEF AdmissionInv, TypeOK
<1>5. obj' = [NoObject EXCEPT !.st = "live", !.rv = obj.rv + 1, !.spec = s]
  BY DEF Create
<1>2. obj' \in Objects /\ obj'.spec = s
  BY <1>1, <1>4, <1>5, NoObjectType DEF Objects
<1>3. StoredValid'
  BY <1>2 DEF Create, StoredValid
<1>7. objects' \in Nat /\ edits' \in Nat
  BY DEF Create, AdmissionInv, TypeOK
<1> QED
  BY <1>2, <1>3, <1>7, ObjectOnly DEF Create

LEMMA EditInv ==
  ASSUME AdmissionInv, NEW s \in UserSpecs, Edit(s)
  PROVE  AdmissionInv'
<1>1. s \in Specs /\ obj.spec \in Specs
  BY AdmissionAssumption DEF AdmissionInv, TypeOK, Objects
<1>2. Versions(s) \subseteq Specs
  BY <1>1 DEF Versions, Specs
<1>3. PICK new \in Versions(s) : /\ ValidateVolumeObjectUpdate(kind, obj.spec, new)
                                 /\ obj' = [obj EXCEPT !.spec = new, !.rv = @ + 1]
  BY DEF Edit
<1>4. obj \in Objects /\ obj.rv + 1 \in Nat
  BY NextVersion DEF AdmissionInv, TypeOK
<1>6. obj' \in Objects /\ obj'.spec = new
  BY <1>2, <1>3, <1>4 DEF Objects
<1>5. StoredValid'
  BY <1>3, <1>6, UpdateValid DEF Edit, StoredValid
<1>8. objects' \in Nat /\ edits' \in Nat
  BY DEF Edit, AdmissionInv, TypeOK
<1> QED
  BY <1>5, <1>6, <1>8, ObjectOnly DEF Edit

LEMMA DeleteInv ==
  ASSUME AdmissionInv, Delete
  PROVE  AdmissionInv'
<1>3. obj \in Objects /\ obj.rv + 1 \in Nat
  BY NextVersion DEF AdmissionInv, TypeOK
<1>1. obj' \in Objects
  <2>1. /\ [obj EXCEPT !.st = "deleting", !.rv = @ + 1] \in Objects
        /\ [NoObject EXCEPT !.rv = obj.rv + 1] \in Objects
    BY <1>3, NoObjectType DEF Objects
  <2> QED
    BY <2>1 DEF Delete
<1>2. StoredValid'
  BY <1>3 DEF AdmissionInv, Delete, StoredValid, NoObject, Objects
<1> QED
  BY <1>1, <1>2, ObjectOnly DEF Delete, boundVars, AdmissionInv, TypeOK

LEMMA FetchInv ==
  ASSUME AdmissionInv, Fetch
  PROVE  AdmissionInv'
<1>1. CASE obj.st = "gone" /\ UNCHANGED <<pc, mem>>
  BY <1>1, ObjectOnly DEF Fetch, boundVars, AdmissionInv, TypeOK, StoredValid, Objects
<1>2. CASE obj.st # "gone" /\ mem' = obj /\ pc' \in {"release", "fill", "finalizer"}
  <2>1. TypeOK'
    BY <1>2 DEF AdmissionInv, TypeOK, Fetch, boundVars, Labels
  <2>2. CopyValid'
    BY <1>2 DEF AdmissionInv, TypeOK, Fetch, CopyValid, StoredValid, ValidateVolumeSpec, Objects
  <2>3. StoredValid' /\ TimerValid'
    BY DEF AdmissionInv, Fetch, StoredValid, TimerValid, KeyNamespace
  <2> QED
    BY <2>1, <2>2, <2>3 DEF AdmissionInv
<1> QED
  BY <1>1, <1>2 DEF Fetch

LEMMA EnsureFinalizerInv ==
  ASSUME AdmissionInv, EnsureFinalizer
  PROVE  AdmissionInv'
<1>1. CASE Accepted(mem.spec) /\ mem' = obj' /\ queued' = TRUE /\ pc' = "fill"
           /\ obj' = [obj EXCEPT !.fin = TRUE, !.spec = mem.spec, !.rv = @ + 1]
  <2>5. obj \in Objects /\ mem.spec \in Specs /\ obj.rv + 1 \in Nat
    BY NextVersion DEF AdmissionInv, TypeOK, Objects
  <2>1. /\ obj' \in Objects /\ obj'.spec = mem.spec /\ obj'.st = obj.st /\ obj.st # "gone"
        /\ ValidateVolumeSpec(kind, mem.spec)
    BY <1>1, <2>5, UpdateValid DEF Objects, Accepted
  <2>2. TypeOK'
    BY <1>1, <2>1 DEF AdmissionInv, TypeOK, EnsureFinalizer, boundVars, Labels
  <2>3. StoredValid' /\ TimerValid'
    BY <2>1 DEF AdmissionInv, EnsureFinalizer, StoredValid, TimerValid, KeyNamespace
  <2>4. CopyValid'
    BY <1>1, <2>1, <2>2 DEF TypeOK, EnsureFinalizer, CopyValid, ValidateVolumeSpec, Objects
  <2> QED
    BY <2>2, <2>3, <2>4 DEF AdmissionInv
<1>2. CASE Return(TRUE) /\ UNCHANGED obj
  BY <1>2, ReturnInv DEF AdmissionInv, TypeOK, EnsureFinalizer, boundVars, StoredValid,
     TimerValid, KeyNamespace
<1> QED
  BY <1>1, <1>2 DEF EnsureFinalizer

\* A step that returns and leaves object and timer alone.
LEMMA ReturnOnly ==
  ASSUME AdmissionInv, NEW again \in BOOLEAN, Return(again),
         obj' \in Objects, StoredValid', servers' \subseteq NfsNames,
         timer' \in Timers \cup {None}, TimerValid', UNCHANGED <<kind, objects, edits>>
  PROVE  AdmissionInv'
<1>1. /\ pc' \in Labels /\ mem' \in Objects /\ queued' \in BOOLEAN /\ CopyValid'
  BY ReturnInv DEF AdmissionInv
<1>2. TypeOK'
  BY <1>1 DEF AdmissionInv, TypeOK
<1> QED
  BY <1>1, <1>2 DEF AdmissionInv

LEMMA TimerKept ==
  ASSUME AdmissionInv, UNCHANGED <<kind, timer>>
  PROVE  timer' \in Timers \cup {None} /\ TimerValid'
  BY DEF AdmissionInv, TypeOK, TimerValid, KeyNamespace

LEMMA ObjectKept ==
  ASSUME AdmissionInv, UNCHANGED <<kind, obj>>
  PROVE  obj' \in Objects /\ StoredValid'
  BY DEF AdmissionInv, TypeOK, StoredValid

LEMMA FillAndValidateInv ==
  ASSUME AdmissionInv, FillAndValidate
  PROVE  AdmissionInv'
<1>1. CASE SpecComplete(mem.spec)
  <2>1. /\ pc' = (IF mem.spec.nfs = None THEN "generate" ELSE "server")
        /\ mem' = [mem EXCEPT !.spec = Filled(mem.spec)]
        /\ UNCHANGED queued
    BY <1>1 DEF FillAndValidate, Return
  <2>2. mem \in Objects /\ mem.spec \in Specs /\ mem.st # "gone"
    BY DEF AdmissionInv, TypeOK, CopyValid, FillAndValidate, Objects
  <2>3. /\ Filled(mem.spec) \in Specs
        /\ SpecComplete(Filled(mem.spec)) /\ Filled(mem.spec).namespace # ""
        /\ Filled(mem.spec).source = mem.spec.source
        /\ Filled(mem.spec).mountPath = mem.spec.mountPath
        /\ Filled(mem.spec).nfs = None <=> mem.spec.nfs = None
    BY <1>1, <2>2, FilledSpec
  <2>4. mem' \in Objects /\ mem'.spec = Filled(mem.spec) /\ mem'.st = mem.st
    BY <2>1, <2>2, <2>3 DEF Objects
  <2>5. TypeOK'
    BY <2>1, <2>4 DEF AdmissionInv, TypeOK, FillAndValidate, boundVars, Labels
  <2>6. CopyValid'
    BY <2>1, <2>2, <2>3, <2>4 DEF AdmissionInv, CopyValid, FillAndValidate
  <2> QED
    BY <2>5, <2>6, TimerKept, ObjectKept DEF AdmissionInv, FillAndValidate
<1>2. CASE ~SpecComplete(mem.spec)
  BY <1>2, ReturnOnly, TimerKept, ObjectKept
     DEF FillAndValidate, AdmissionInv, TypeOK, boundVars
<1> QED
  BY <1>1, <1>2

LEMMA GenerateInv ==
  ASSUME AdmissionInv, GenerateNfsServer
  PROVE  AdmissionInv'
<1> DEFINE spec == Generated(mem.spec)
<1>1. /\ spec \in Specs /\ spec.nfs.name \in NfsNames
  BY GeneratedSpec DEF AdmissionInv, TypeOK, Objects
<1>2. obj' \in Objects /\ StoredValid'
  <2>1. CASE Accepted(spec) /\ Stored(spec)
    BY <1>1, <2>1, StoredInv DEF AdmissionInv, GenerateNfsServer
  <2>2. CASE UNCHANGED obj
    BY <2>2, ObjectKept DEF GenerateNfsServer
  <2> QED
    BY <2>1, <2>2 DEF GenerateNfsServer
<1>3. servers' \subseteq NfsNames
  BY <1>1 DEF GenerateNfsServer, AdmissionInv, TypeOK
<1> QED
  BY <1>2, <1>3, ReturnOnly, TimerKept DEF GenerateNfsServer, boundVars

LEMMA CheckServerInv ==
  ASSUME AdmissionInv, CheckServer
  PROVE  AdmissionInv'
<1>1. CASE Return(TRUE)
  BY <1>1, ReturnOnly, TimerKept, ObjectKept
     DEF CheckServer, AdmissionInv, TypeOK, boundVars
<1>2. CASE /\ pc' = IF mem.spec.ref = "" THEN "reference" ELSE "resources"
           /\ mem' = IF Managed(mem.spec.nfs) /\ ~mem.address
                     THEN [mem EXCEPT !.address = TRUE, !.spec = WithUrl(mem.spec)]
                     ELSE mem
           /\ UNCHANGED queued
  <2>1. /\ mem \in Objects /\ mem.spec \in Specs /\ mem.spec.nfs \in NfsSpecs /\ mem.st # "gone"
        /\ SpecComplete(mem.spec) /\ mem.spec.namespace # ""
        /\ validateSourceSpec(kind, mem.spec.source) /\ mem.spec.mountPath # ""
    BY DEF AdmissionInv, TypeOK, CopyValid, CheckServer, Objects, Specs
  <2> DEFINE nfs == [mem.spec.nfs EXCEPT !.url = "nfs.ns.svc"]
             spec == [mem.spec EXCEPT !.nfs = nfs]
             copy == [mem EXCEPT !.address = TRUE, !.spec = spec]
  <2>2. nfs \in NfsSpecs /\ nfs # None
    BY <2>1, NoneAssumption DEF NfsSpecs, Urls
  <2>3. /\ spec \in Specs /\ spec.nfs = nfs /\ spec.ref = mem.spec.ref
        /\ spec.storage = mem.spec.storage /\ spec.class = mem.spec.class
        /\ \A f \in {"namespace", "source", "mountPath"} : spec[f] = mem.spec[f]
    <3> HIDE DEF nfs
    <3> QED
      BY <2>1, <2>2 DEF Specs
  <2>4. SpecComplete(spec)
    BY <2>1, <2>2, <2>3 DEF SpecComplete
  <2>5. copy \in Objects /\ copy.spec = spec /\ copy.st = mem.st
    <3> HIDE DEF spec
    <3> QED
      BY <2>1, <2>3 DEF Objects
  <2>6. mem' \in {mem, copy}
    BY <1>2 DEF WithUrl
  <2>7. /\ mem' \in Objects /\ mem'.st # "gone" /\ mem'.spec.nfs # None
        /\ SpecComplete(mem'.spec) /\ mem'.spec.namespace # "" /\ mem'.spec.ref = mem.spec.ref
        /\ validateSourceSpec(kind, mem'.spec.source) /\ mem'.spec.mountPath # ""
    <3> HIDE DEF copy, spec, nfs
    <3>1. CASE mem' = mem
      BY <2>1, <3>1, NoneAssumption
    <3>2. CASE mem' = copy
      BY <2>1, <2>2, <2>3, <2>4, <2>5, <3>2
    <3> QED
      BY <2>6, <3>1, <3>2
  <2>8. TypeOK'
    BY <1>2, <2>7 DEF AdmissionInv, TypeOK, CheckServer, boundVars, Labels
  <2>9. CopyValid'
    BY <1>2, <2>7 DEF CopyValid, CheckServer
  <2> QED
    BY <2>8, <2>9, TimerKept, ObjectKept DEF AdmissionInv, CheckServer
<1> QED
  BY <1>1, <1>2 DEF CheckServer

LEMMA AssignReferenceInv ==
  ASSUME AdmissionInv, AssignReference
  PROVE  AdmissionInv'
<1> DEFINE spec == Referenced(mem.spec)
<1>1. spec \in Specs
  BY ReferencedSpec DEF AdmissionInv, TypeOK, Objects
<1>2. obj' \in Objects /\ StoredValid'
  <2>1. CASE Accepted(spec) /\ Stored(spec)
    BY <1>1, <2>1, StoredInv DEF AdmissionInv, AssignReference
  <2>2. CASE UNCHANGED obj
    BY <2>2, ObjectKept DEF AssignReference
  <2> QED
    BY <2>1, <2>2 DEF AssignReference
<1> QED
  BY <1>2, ReturnOnly, TimerKept DEF AssignReference, boundVars, AdmissionInv, TypeOK

LEMMA ProvisionInv ==
  ASSUME AdmissionInv, Provision
  PROVE  AdmissionInv'
<1>1. CASE UNCHANGED <<obj, timer>> /\ Return(TRUE)
  BY <1>1, ReturnOnly, TimerKept, ObjectKept DEF Provision, boundVars, AdmissionInv, TypeOK
<1>2. CASE /\ obj' = IF mem.ready THEN obj
                     ELSE [obj EXCEPT !.ready = TRUE, !.address = TRUE, !.rv = @ + 1]
           /\ timer' = Started(mem.spec)
           /\ Return(~mem.ready)
  <2>1. obj \in Objects /\ obj.rv + 1 \in Nat
    BY NextVersion DEF AdmissionInv, TypeOK
  <2>2. obj' \in Objects /\ obj'.st = obj.st /\ obj'.spec = obj.spec
    BY <1>2, <2>1 DEF Objects
  <2>3. StoredValid'
    BY <2>2 DEF AdmissionInv, StoredValid, Provision
  <2>4. /\ mem.spec \in Specs /\ mem.spec.namespace # "" /\ mem.ready \in BOOLEAN
        /\ validateSourceSpec(kind, mem.spec.source)
    BY DEF AdmissionInv, TypeOK, CopyValid, Provision, Objects
  <2>5. KeyNamespace(mem.spec) \in Namespaces
    BY <2>4, SpecsAssumption DEF KeyNamespace, Specs
  <2>6. timer' \in Timers \cup {None} /\ TimerValid'
    <3>1. CASE timer' = timer
      BY <3>1, TimerKept DEF Provision
    <3>2. CASE timer' = None
      BY <3>2 DEF TimerValid
    <3>3. CASE /\ timer' = [namespace |-> KeyNamespace(mem.spec), spec |-> mem.spec]
               /\ hasValidSource(mem.spec) /\ mem.spec.interval \in Int
      <4>1. timer' \in Timers
        BY <2>4, <2>5, <3>3 DEF Timers
      <4>2. TimerValid'
        BY <2>4, <3>3 DEF TimerValid, KeyNamespace, Provision
      <4> QED
        BY <4>1, <4>2
    <3> QED
      BY <1>2, <3>1, <3>2, <3>3 DEF Started
  <2> QED
    BY <1>2, <2>2, <2>3, <2>4, <2>6, ReturnOnly DEF Provision, boundVars, AdmissionInv, TypeOK
<1> QED
  BY <1>1, <1>2 DEF Provision

LEMMA ReleaseInv ==
  ASSUME AdmissionInv, Release
  PROVE  AdmissionInv'
<1>1. obj \in Objects /\ obj.rv + 1 \in Nat
  BY NextVersion DEF AdmissionInv, TypeOK
<1>2. obj' \in Objects /\ StoredValid'
  <2>1. CASE UNCHANGED obj
    BY <2>1, ObjectKept DEF Release
  <2>2. CASE obj' = [NoObject EXCEPT !.rv = obj.rv + 1]
    BY <1>1, <2>2, NoObjectType DEF StoredValid, NoObject, Objects
  <2> QED
    BY <2>1, <2>2 DEF Release
<1>3. timer' \in Timers \cup {None} /\ TimerValid'
  <2>1. CASE timer' = timer
    BY <2>1, TimerKept DEF Release
  <2>2. CASE timer' = None
    BY <2>2 DEF TimerValid
  <2> QED
    BY <2>1, <2>2 DEF Release
<1>4. servers' \subseteq NfsNames
  BY AdmissionAssumption DEF Release
<1> QED
  BY <1>2, <1>3, <1>4, ReturnOnly DEF Release, boundVars

LEMMA LookupInv ==
  ASSUME AdmissionInv, Lookup
  PROVE  AdmissionInv'
  BY DEF AdmissionInv, TypeOK, StoredValid, CopyValid, TimerValid, Lookup, boundVars

LEMMA NextInv == AdmissionInv /\ [Next]_vars => AdmissionInv'
<1> SUFFICES ASSUME AdmissionInv, [Next]_vars PROVE AdmissionInv'
  OBVIOUS
<1>1. CASE Next
  <2>1. CASE Controller
    BY <2>1, FetchInv, EnsureFinalizerInv, FillAndValidateInv, GenerateInv, CheckServerInv,
       AssignReferenceInv, ProvisionInv, ReleaseInv DEF Controller
  <2> QED
    BY <1>1, <2>1, CreateInv, EditInv, DeleteInv, LookupInv DEF Next
<1>2. CASE UNCHANGED vars
  BY <1>2 DEF vars, AdmissionInv, TypeOK, StoredValid, CopyValid, TimerValid, KeyNamespace
<1> QED
  BY <1>1, <1>2

---------------------------------------------------------------------------
\* The theorems

\* In every instance what is stored can be written back and every copy and timer is of
\* a spec that was admitted: ValidateVolumeObject and ValidateVolumeObjectUpdate guard
\* the controller's own writes as well as the users'.
THEOREM AdmissionInvariant == Spec => []AdmissionInv
<1>1. Init => AdmissionInv
  BY InitInv
<1>2. AdmissionInv /\ [Next]_vars => AdmissionInv'
  BY NextInv
<1> QED
  BY <1>1, <1>2, PTL DEF Spec

\* Every credential a request of a valid source is built from was validated.
LEMMA CredentialsValid ==
  ASSUME NEW source, source # None, Given(source) # {}, validateSourceSpec(kind, source)
  PROVE  /\ \A c \in CredentialsOf(source) : ReferencesValid(kind, c)
         /\ TypeOf(source) = "ssh" => \E c \in CredentialsOf(source) : Provided(c)
<1>1. CASE source.ssh # None
  <2>1. TypeOf(source) = "ssh" /\ CredentialsOf(source) = {source.ssh.key, source.ssh.password}
    BY <1>1 DEF TypeOf, CredentialsOf
  <2> QED
    BY <1>1, <2>1 DEF validateSourceSpec, validateSSHSource
<1>2. CASE source.ssh = None /\ source.http # None
  BY <1>2 DEF TypeOf, CredentialsOf
<1>3. CASE source.ssh = None /\ source.http = None /\ source.git # None
  <2>1. TypeOf(source) = "git" /\ CredentialsOf(source) = {source.git.key, source.git.password}
    BY <1>3 DEF TypeOf, CredentialsOf
  <2> QED
    BY <1>3, <2>1 DEF validateSourceSpec, validateGitSource
<1>4. CASE source.ssh = None /\ source.http = None /\ source.git = None
  <2>1. source.s3 # None
    BY <1>4 DEF Given, SourceTypes
  <2>2. TypeOf(source) = "s3" /\ CredentialsOf(source) = {source.s3.access, source.s3.secret}
    BY <1>4 DEF TypeOf, CredentialsOf
  <2> QED
    BY <2>1, <2>2 DEF validateSourceSpec, validateS3Source
<1> QED
  BY <1>1, <1>2, <1>3, <1>4

\* Whatever users write, only an absent Secret keeps a request from being built
\* (validateSourceSpec against buildSyncRequestCommon).
THEOREM RequestsAlwaysBuild == Spec => []RequestsBuild
<1>1. AdmissionInv => RequestsBuild
  <2> SUFFICES ASSUME AdmissionInv, timer # None
               PROVE  Buildable(timer.spec.source, timer.namespace,
                                SecretsOf(timer.spec.source, timer.namespace))
    BY DEF RequestsBuild
  <2>1. /\ timer.spec.source # None /\ Given(timer.spec.source) # {}
        /\ validateSourceSpec(kind, timer.spec.source)
    BY DEF AdmissionInv, TimerValid, hasValidSource
  <2>2. TypeOf(timer.spec.source) = "ssh" =>
          \E c \in CredentialsOf(timer.spec.source) : Provided(c)
    BY <2>1, CredentialsValid
  <2> QED
    BY <2>1, <2>2 DEF Buildable
<1> QED
  BY <1>1, AdmissionInvariant, PTL

\* Whatever users write, the Secrets read are the volume's namespace's or those it
\* names (validateSecretKeySelector against the fallbacks of the request builders).
THEOREM SecretsAsDeclared == Spec => []SecretsWhereDeclared
<1>1. AdmissionInv => SecretsWhereDeclared
  <2> SUFFICES ASSUME AdmissionInv, timer # None,
                      NEW read \in SecretsOf(timer.spec.source, timer.namespace)
               PROVE  IF kind = "sv" THEN read[1] = Home
                      ELSE \E c \in CredentialsOf(timer.spec.source) :
                             c.secret # None /\ read = <<c.secret.namespace, c.secret.name>>
    BY DEF SecretsWhereDeclared
  <2>1. /\ timer.spec.source # None /\ Given(timer.spec.source) # {}
        /\ validateSourceSpec(kind, timer.spec.source)
        /\ timer.namespace = KeyNamespace(timer.spec) /\ kind \in VolumeKinds
    BY DEF AdmissionInv, TypeOK, TimerValid, hasValidSource
  <2>2. PICK c \in CredentialsOf(timer.spec.source) :
          /\ c.secret # None
          /\ read = <<IF c.secret.namespace = "" THEN timer.namespace ELSE c.secret.namespace,
                      c.secret.name>>
    BY DEF SecretsOf
  <2>3. validateSecretKeySelector(kind, c.secret)
    BY <2>1, <2>2, CredentialsValid DEF ReferencesValid
  <2>4. CASE kind = "sv"
    BY <2>1, <2>2, <2>3, <2>4 DEF validateSecretKeySelector, KeyNamespace
  <2>5. CASE kind = "csv"
    BY <2>2, <2>3, <2>5 DEF validateSecretKeySelector
  <2> QED
    BY <2>1, <2>4, <2>5 DEF VolumeKinds
<1> QED
  BY <1>1, AdmissionInvariant, PTL

---------------------------------------------------------------------------
\* What an update leaves as it is

Kept(old, new) ==
  /\ old.ref \in {new.ref, ""}
  /\ compareStorageSpecsWithDefaults(old.storage, new.storage)
  /\ compareNfsServerSpecsWithDefaults(old.nfs, new.nfs)

LEMMA KeptReflexive ==
  ASSUME NEW spec \in Specs
  PROVE  Kept(spec, spec)
  BY DEF Kept, compareStorageSpecsWithDefaults, compareNfsServerSpecsWithDefaults

LEMMA KeptByUpdate ==
  ASSUME NEW old, NEW new, ValidateVolumeObjectUpdate(kind, old, new)
  PROVE  Kept(old, new)
  BY DEF Kept, ValidateVolumeObjectUpdate

LEMMA KeptTransitive ==
  ASSUME NEW a \in Specs, NEW b \in Specs, NEW c \in Specs, Kept(a, b), Kept(b, c)
  PROVE  Kept(a, c)
<1>1. compareStorageSpecsWithDefaults(a.storage, c.storage)
  BY DEF Kept, compareStorageSpecsWithDefaults
<1>2. compareNfsServerSpecsWithDefaults(a.nfs, c.nfs)
  BY DEF Kept, compareNfsServerSpecsWithDefaults
<1> QED
  BY <1>1, <1>2 DEF Kept

\* What makes a storage or a server sound is not changed by an update.
LEMMA StorageStays ==
  ASSUME NEW old, NEW new, StorageSound(old), compareStorageSpecsWithDefaults(old, new)
  PROVE  StorageSound(new) /\ new.capacity = old.capacity
  BY DEF StorageSound, compareStorageSpecsWithDefaults, Modes

LEMMA ExternalStays ==
  ASSUME NEW old, NEW new, new # None, old.name = new.name, old.url \in {new.url, ""},
         IsExternalNfsServer(old)
  PROVE  IsExternalNfsServer(new)
  BY DEF IsExternalNfsServer

LEMMA ServerStays ==
  ASSUME NEW old, NEW new, old # None, compareNfsServerSpecsWithDefaults(old, new)
  PROVE  /\ new # None /\ new.name = old.name /\ old.url \in {new.url, ""}
         /\ IsExternalNfsServer(old) => IsExternalNfsServer(new)
  BY ExternalStays DEF compareNfsServerSpecsWithDefaults

LEMMA KeptReady ==
  ASSUME ReadyComplete, Kept(obj.spec, obj'.spec), obj'.ready = obj.ready,
         servers \subseteq servers'
  PROVE  ReadyComplete'
<1> SUFFICES ASSUME obj.ready, StorageSound(obj.spec.storage), ServerSound(obj.spec.nfs),
                    obj.spec.storage.capacity \in Quantities, obj.spec.ref \notin {"", "unfit"}
             PROVE  ReadyComplete'
  BY DEF ReadyComplete
<1>1. StorageSound(obj'.spec.storage) /\ obj'.spec.storage.capacity \in Quantities
  <2>1. compareStorageSpecsWithDefaults(obj.spec.storage, obj'.spec.storage)
    BY DEF Kept
  <2>2. /\ StorageSound(obj'.spec.storage)
        /\ obj'.spec.storage.capacity = obj.spec.storage.capacity
    BY <2>1, StorageStays
  <2> QED
    BY <2>2
<1>2. obj'.spec.nfs # None /\ (IsExternalNfsServer(obj'.spec.nfs) \/ obj'.spec.nfs.name \in servers')
  BY ServerStays DEF ServerSound, Kept
<1>3. obj'.spec.ref \notin {"", "unfit"}
  BY DEF Kept
<1> QED
  BY <1>1, <1>2, <1>3 DEF ReadyComplete, StorageSound, ServerSound

\* So what the reconcile has checked still holds of a volume that was updated since.
LEMMA KeptChecks ==
  ASSUME TypeOK, TypeOK', ChecksHold, Kept(obj.spec, obj'.spec), UNCHANGED <<pc, mem, servers>>
  PROVE  ChecksHold'
<1>1. mem.spec \in Specs /\ obj.spec \in Specs /\ obj'.spec \in Specs
  BY DEF TypeOK, Objects
<1>2. CASE pc = "fill"
  BY <1>1, <1>2, KeptTransitive DEF ChecksHold, Kept
<1>3. CASE pc \in {"generate", "server", "reference", "resources"}
  <2>1. mem.spec.ref \in {obj'.spec.ref, ""}
    BY <1>3 DEF ChecksHold, Kept
  <2>2. /\ StorageSound(obj'.spec.storage)
        /\ mem.spec.storage.capacity = obj'.spec.storage.capacity
    <3>1. /\ compareStorageSpecsWithDefaults(obj.spec.storage, obj'.spec.storage)
          /\ StorageSound(obj.spec.storage)
          /\ mem.spec.storage.capacity = obj.spec.storage.capacity
      BY <1>3 DEF ChecksHold, Kept
    <3> QED
      BY <3>1, StorageStays
  <2>3. pc = "server" => /\ obj'.spec.nfs # None /\ mem.spec.nfs.name = obj'.spec.nfs.name
                         /\ mem.spec.nfs.url \in {obj'.spec.nfs.url, ""}
    BY DEF ChecksHold, Kept, compareNfsServerSpecsWithDefaults
  <2>4. pc \in {"reference", "resources"} =>
          /\ obj'.spec.nfs # None
          /\ \/ mem.spec.nfs.url = "" \/ IsExternalNfsServer(obj'.spec.nfs)
             \/ obj'.spec.nfs.name \in servers'
    <3> SUFFICES ASSUME pc \in {"reference", "resources"}
                 PROVE  /\ obj'.spec.nfs # None
                        /\ \/ mem.spec.nfs.url = "" \/ IsExternalNfsServer(obj'.spec.nfs)
                           \/ obj'.spec.nfs.name \in servers'
      OBVIOUS
    <3>1. /\ compareNfsServerSpecsWithDefaults(obj.spec.nfs, obj'.spec.nfs)
          /\ obj.spec.nfs # None
          /\ \/ mem.spec.nfs.url = "" \/ IsExternalNfsServer(obj.spec.nfs)
             \/ obj.spec.nfs.name \in servers
      BY DEF ChecksHold, Kept, ServerSound
    <3> QED
      BY <3>1, ServerStays
  <2> QED
    BY <1>3, <2>1, <2>2, <2>3, <2>4 DEF ChecksHold, StorageSound, ServerSound
<1> QED
  BY <1>2, <1>3 DEF ChecksHold

\* The whole invariant, and what of it is about an idle worker.
LEMMA IdleCopy ==
  ASSUME pc' = "idle"
  PROVE  CopyCurrent' /\ ChecksHold'
  BY DEF CopyCurrent, ChecksHold

\* A newer version leaves a copy of an older one behind.
LEMMA OlderCopy ==
  ASSUME TypeOK, CopyCurrent, UNCHANGED <<pc, mem>>, obj'.rv = obj.rv + 1
  PROVE  CopyCurrent'
<1>1. mem.rv \in Nat /\ obj.rv \in Nat
  BY DEF TypeOK, Objects
<1> QED
  BY <1>1 DEF CopyCurrent

\* Users store a version that follows the one there is.
LEMMA KeptCopy ==
  ASSUME AdmissionInv, CopyInv, TypeOK', UNCHANGED <<servers, pc, mem>>,
         obj'.rv = obj.rv + 1, Kept(obj.spec, obj'.spec), obj.st # "gone", obj'.st # "gone",
         obj'.fin = obj.fin, obj'.ready = obj.ready, obj'.st = "deleting" => obj.fin
  PROVE  CopyInv'
<1>1. CopyCurrent' /\ ChecksHold' /\ ReadyComplete'
  BY OlderCopy, KeptChecks, KeptReady DEF AdmissionInv, CopyInv
<1>2. HeldMeanwhile'
  BY DEF CopyInv, HeldMeanwhile
<1> QED
  BY <1>1, <1>2 DEF CopyInv

\* A reconcile returns, having stored such a version or nothing.
LEMMA ReturnCopy ==
  ASSUME CopyInv, pc' = "idle", Kept(obj.spec, obj'.spec), servers \subseteq servers',
         obj'.st = obj.st, obj'.fin = obj.fin, obj'.ready = obj.ready
  PROVE  CopyInv'
<1>1. ReadyComplete'
  BY KeptReady DEF CopyInv
<1>2. HeldMeanwhile'
  BY DEF CopyInv, HeldMeanwhile
<1> QED
  BY <1>1, <1>2, IdleCopy DEF CopyInv

\* What an accepted update stores is such a version.
LEMMA StoredKept ==
  ASSUME TypeOK, NEW spec \in Specs, Accepted(spec), Stored(spec)
  PROVE  /\ Kept(obj.spec, obj'.spec) /\ obj'.spec = spec
         /\ obj'.st = obj.st /\ obj'.fin = obj.fin /\ obj'.ready = obj.ready
<1>1. obj \in Objects
  BY DEF TypeOK
<1>2. /\ obj'.spec = spec
      /\ obj'.st = obj.st /\ obj'.fin = obj.fin /\ obj'.ready = obj.ready
  BY <1>1 DEF Stored, Objects
<1> QED
  BY <1>2, KeptByUpdate DEF Accepted

LEMMA CreateCopy ==
  ASSUME AdmissionInv, CopyInv, NEW s \in UserSpecs, Create(s)
  PROVE  CopyInv'
<1>1. obj' = [NoObject EXCEPT !.st = "live", !.rv = obj.rv + 1, !.spec = s]
  BY DEF Create
<1>2. obj'.rv = obj.rv + 1 /\ obj'.st = "live" /\ obj'.ready = FALSE
  BY <1>1 DEF NoObject
<1>3. pc \in {"idle", "finalizer"}
  BY DEF Create, CopyInv, HeldMeanwhile
<1>4. CopyCurrent'
  BY <1>2, OlderCopy DEF AdmissionInv, CopyInv, Create
<1>5. HeldMeanwhile' /\ ChecksHold' /\ ReadyComplete'
  BY <1>2, <1>3 DEF HeldMeanwhile, ChecksHold, ReadyComplete, Create
<1> QED
  BY <1>4, <1>5 DEF CopyInv

LEMMA EditCopy ==
  ASSUME AdmissionInv, CopyInv, AdmissionInv', NEW s \in UserSpecs, Edit(s)
  PROVE  CopyInv'
<1>1. PICK new \in Versions(s) : /\ ValidateVolumeObjectUpdate(kind, obj.spec, new)
                                 /\ obj' = [obj EXCEPT !.spec = new, !.rv = @ + 1]
  BY DEF Edit
<1>2. obj \in Objects
  BY DEF AdmissionInv, TypeOK
<1>3. /\ obj'.spec = new /\ obj'.rv = obj.rv + 1
      /\ obj'.st = obj.st /\ obj'.fin = obj.fin /\ obj'.ready = obj.ready
  BY <1>1, <1>2 DEF Objects
<1>4. Kept(obj.spec, obj'.spec)
  BY <1>1, <1>3, KeptByUpdate
<1> QED
  BY <1>3, <1>4, KeptCopy DEF AdmissionInv, Edit, CopyInv, HeldMeanwhile

LEMMA DeleteCopy ==
  ASSUME AdmissionInv, CopyInv, AdmissionInv', Delete
  PROVE  CopyInv'
<1>1. obj \in Objects
  BY DEF AdmissionInv, TypeOK
<1>2. CASE obj.fin
  <2>1. /\ obj'.spec = obj.spec /\ obj'.rv = obj.rv + 1
        /\ obj'.st = "deleting" /\ obj'.fin = obj.fin /\ obj'.ready = obj.ready
    BY <1>1, <1>2 DEF Objects, Delete
  <2>2. Kept(obj.spec, obj'.spec)
    BY <1>1, <2>1, KeptReflexive DEF Objects
  <2> QED
    BY <1>2, <2>1, <2>2, KeptCopy DEF AdmissionInv, Delete
<1>3. CASE ~obj.fin
  <2>1. obj'.rv = obj.rv + 1 /\ obj'.st = "gone" /\ obj'.ready = FALSE
    BY <1>3 DEF Delete, NoObject
  <2>2. pc \in {"idle", "finalizer"}
    BY <1>3 DEF CopyInv, HeldMeanwhile
  <2>3. CopyCurrent'
    BY <2>1, OlderCopy DEF AdmissionInv, CopyInv, Delete
  <2>4. HeldMeanwhile' /\ ChecksHold' /\ ReadyComplete'
    BY <2>1, <2>2 DEF HeldMeanwhile, ChecksHold, ReadyComplete, Delete
  <2> QED
    BY <2>3, <2>4 DEF CopyInv
<1> QED
  BY <1>2, <1>3

LEMMA FetchCopy ==
  ASSUME AdmissionInv, CopyInv, Fetch
  PROVE  CopyInv'
<1>1. obj \in Objects /\ obj.spec \in Specs /\ obj.rv \in Nat
  BY DEF AdmissionInv, TypeOK, Objects
<1>2. ReadyComplete'
  BY DEF Fetch, CopyInv, ReadyComplete, StorageSound, ServerSound
<1>3. CASE obj.st = "gone" /\ UNCHANGED <<pc, mem>>
  BY <1>2, <1>3, IdleCopy DEF Fetch, CopyInv, HeldMeanwhile
<1>4. CASE /\ obj.st # "gone" /\ mem' = obj
           /\ pc' = IF obj.st = "deleting" THEN "release"
                    ELSE IF obj.fin THEN "fill" ELSE "finalizer"
  <2>1. CopyCurrent'
    BY <1>1, <1>4 DEF Fetch, CopyCurrent
  <2>2. Kept(obj.spec, obj.spec)
    BY <1>1, KeptReflexive
  <2>3. HeldMeanwhile' /\ ChecksHold'
    BY <1>4, <2>2 DEF Fetch, CopyInv, HeldMeanwhile, ChecksHold, Kept
  <2> QED
    BY <1>2, <2>1, <2>3 DEF CopyInv
<1> QED
  BY <1>3, <1>4 DEF Fetch

LEMMA EnsureFinalizerCopy ==
  ASSUME AdmissionInv, CopyInv, EnsureFinalizer
  PROVE  CopyInv'
<1>1. obj \in Objects /\ obj.spec \in Specs /\ obj.rv \in Nat
  BY DEF AdmissionInv, TypeOK, Objects
<1>2. Kept(obj.spec, obj.spec)
  BY <1>1, KeptReflexive
<1>3. CASE Return(TRUE) /\ UNCHANGED obj
  BY <1>2, <1>3, ReturnCopy DEF EnsureFinalizer, Return
<1>4. CASE /\ Accepted(mem.spec) /\ mem' = obj' /\ pc' = "fill"
           /\ obj' = [obj EXCEPT !.fin = TRUE, !.spec = mem.spec, !.rv = @ + 1]
  <2>1. mem.spec = obj.spec /\ obj.st # "gone"
    BY <1>4 DEF EnsureFinalizer, Accepted, CopyInv, CopyCurrent
  <2>2. /\ obj'.spec = obj.spec /\ obj'.rv = obj.rv + 1 /\ obj'.fin = TRUE
        /\ obj'.st = obj.st /\ obj'.ready = obj.ready
    BY <1>1, <1>4, <2>1 DEF Objects
  <2>3. CopyCurrent'
    BY <1>1, <1>4, <2>1, <2>2 DEF CopyCurrent
  <2>4. HeldMeanwhile' /\ ChecksHold'
    BY <1>2, <1>4, <2>1, <2>2 DEF CopyInv, HeldMeanwhile, ChecksHold, Kept
  <2>5. ReadyComplete'
    BY <1>2, <2>2, KeptReady DEF CopyInv, EnsureFinalizer
  <2> QED
    BY <2>3, <2>4, <2>5 DEF CopyInv
<1> QED
  BY <1>3, <1>4 DEF EnsureFinalizer

\* Defaults and the server's URL touch nothing that was checked.
LEMMA FilledParts ==
  ASSUME NEW spec \in Specs, SpecComplete(spec)
  PROVE  /\ Filled(spec).ref = spec.ref /\ Filled(spec).storage.capacity = spec.storage.capacity
         /\ spec.nfs # None => /\ Filled(spec).nfs.name = spec.nfs.name
                               /\ Filled(spec).nfs.url = spec.nfs.url
                               /\ \/ Filled(spec).nfs.path = spec.nfs.path
                                  \/ spec.nfs.path = "" /\ Filled(spec).nfs.path = "/"
                               /\ Filled(spec).nfs.namespace = spec.nfs.namespace
<1>1. /\ Filled(spec).ref = spec.ref /\ Filled(spec).storage = WithMode(spec.storage)
      /\ Filled(spec).nfs = WithPath(spec.nfs)
  BY DEF Filled, Specs
<1>2. spec.storage \in Storages
  BY DEF SpecComplete, Specs
<1>3. WithMode(spec.storage).capacity = spec.storage.capacity
  BY <1>2 DEF WithMode, Storages
<1>4. ASSUME spec.nfs # None
      PROVE  /\ WithPath(spec.nfs).name = spec.nfs.name /\ WithPath(spec.nfs).url = spec.nfs.url
             /\ \/ WithPath(spec.nfs).path = spec.nfs.path
                \/ spec.nfs.path = "" /\ WithPath(spec.nfs).path = "/"
             /\ WithPath(spec.nfs).namespace = spec.nfs.namespace
  <2>1. spec.nfs \in NfsSpecs
    BY <1>4 DEF Specs
  <2> QED
    BY <1>4, <2>1 DEF WithPath, NfsSpecs
<1> QED
  BY <1>1, <1>3, <1>4

LEMMA FilledKeeps ==
  ASSUME NEW spec \in Specs
  PROVE  Filled(spec).class = spec.class /\ (Filled(spec).nfs = None <=> spec.nfs = None)
<1>1. Filled(spec).class = spec.class /\ Filled(spec).nfs = WithPath(spec.nfs)
  BY DEF Filled, Specs
<1>2. WithPath(spec.nfs) = None <=> spec.nfs = None
  <2>1. CASE spec.nfs # None
    <3>1. spec.nfs \in NfsSpecs /\ WithPath(spec.nfs) \in NfsSpecs
      BY <2>1 DEF WithPath, Specs, NfsSpecs
    <3> QED
      BY <2>1, <3>1, NoneAssumption
  <2> QED
    BY <2>1 DEF WithPath
<1> QED
  BY <1>1, <1>2

LEMMA WithUrlParts ==
  ASSUME NEW spec \in Specs, spec.nfs # None
  PROVE  /\ \A f \in {"ref", "storage", "source", "interval", "timeout", "mountPath", "class",
                      "namespace"} : WithUrl(spec)[f] = spec[f]
         /\ \A f \in {"name", "namespace", "path"} : WithUrl(spec).nfs[f] = spec.nfs[f]
         /\ WithUrl(spec).nfs.url = "nfs.ns.svc"
<1> DEFINE nfs == [spec.nfs EXCEPT !.url = "nfs.ns.svc"]
<1>1. spec.nfs \in NfsSpecs
  BY DEF Specs
<1>2. nfs.url = "nfs.ns.svc" /\ \A f \in {"name", "namespace", "path"} : nfs[f] = spec.nfs[f]
  BY <1>1 DEF NfsSpecs
<1>3. WithUrl(spec) = [spec EXCEPT !.nfs = nfs]
  BY DEF WithUrl
<1> HIDE DEF nfs
<1> QED
  BY <1>2, <1>3 DEF Specs

LEMMA FillAndValidateCopy ==
  ASSUME AdmissionInv, CopyInv, FillAndValidate
  PROVE  CopyInv'
<1>1. obj.spec \in Specs /\ mem \in Objects /\ mem.spec \in Specs
  BY DEF AdmissionInv, TypeOK, Objects
<1>2. CASE ~SpecComplete(mem.spec)
  <2>1. UNCHANGED <<obj, servers>> /\ pc' = "idle"
    BY <1>2 DEF FillAndValidate, Return
  <2>2. Kept(obj.spec, obj'.spec)
    BY <1>1, <2>1, KeptReflexive
  <2> QED
    BY <2>1, <2>2, ReturnCopy
<1>3. CASE SpecComplete(mem.spec)
  <2>1. /\ pc = "fill" /\ pc' = (IF mem.spec.nfs = None THEN "generate" ELSE "server")
        /\ mem' = [mem EXCEPT !.spec = Filled(mem.spec)] /\ UNCHANGED <<obj, servers>>
    BY <1>3 DEF FillAndValidate, Return
  <2>2. mem'.spec = Filled(mem.spec) /\ mem'.rv = mem.rv
    BY <1>1, <2>1 DEF Objects
  <2>3. CopyCurrent'
    BY <2>1, <2>2 DEF CopyInv, CopyCurrent
  <2>4. HeldMeanwhile' /\ ReadyComplete'
    BY <2>1 DEF CopyInv, HeldMeanwhile, ReadyComplete, StorageSound, ServerSound
  <2>5. StorageSound(obj.spec.storage) /\ mem.spec.storage.capacity = obj.spec.storage.capacity
    <3>1. StorageSound(mem.spec.storage)
      BY <1>3 DEF SpecComplete, StorageSound
    <3>2. compareStorageSpecsWithDefaults(mem.spec.storage, obj.spec.storage)
      BY <2>1 DEF CopyInv, ChecksHold
    <3> QED
      BY <3>1, <3>2, StorageStays
  <2>6. mem.spec.nfs # None => /\ obj.spec.nfs # None /\ obj.spec.nfs.name = mem.spec.nfs.name
                               /\ mem.spec.nfs.url \in {obj.spec.nfs.url, ""}
    BY <2>1 DEF CopyInv, ChecksHold, compareNfsServerSpecsWithDefaults
  <2>7. mem.spec.ref \in {obj.spec.ref, ""}
    BY <2>1 DEF CopyInv, ChecksHold
  <2>8. /\ mem'.spec.ref = mem.spec.ref
        /\ mem'.spec.storage.capacity = mem.spec.storage.capacity
        /\ mem.spec.nfs # None => /\ mem'.spec.nfs.name = mem.spec.nfs.name
                                  /\ mem'.spec.nfs.url = mem.spec.nfs.url
    BY <1>1, <1>3, <2>2, FilledParts
  <2>9. ChecksHold'
    BY <2>1, <2>5, <2>6, <2>7, <2>8 DEF ChecksHold, StorageSound
  <2> QED
    BY <2>3, <2>4, <2>9 DEF CopyInv
<1> QED
  BY <1>2, <1>3

\* A reconcile that ends by storing the spec it made, or nothing.
LEMMA StoreOrReturnCopy ==
  ASSUME AdmissionInv, CopyInv, NEW spec \in Specs,
         (Accepted(spec) /\ Stored(spec)) \/ UNCHANGED obj,
         servers \subseteq servers', pc' = "idle"
  PROVE  CopyInv'
<1>1. CASE Accepted(spec) /\ Stored(spec)
  BY <1>1, StoredKept, ReturnCopy DEF AdmissionInv
<1>2. CASE UNCHANGED obj
  <2>1. Kept(obj.spec, obj'.spec)
    BY <1>2, KeptReflexive DEF AdmissionInv, TypeOK, Objects
  <2> QED
    BY <1>2, <2>1, ReturnCopy
<1> QED
  BY <1>1, <1>2

LEMMA GenerateCopy ==
  ASSUME AdmissionInv, CopyInv, GenerateNfsServer
  PROVE  CopyInv'
<1>1. Generated(mem.spec) \in Specs
  BY GeneratedSpec DEF AdmissionInv, TypeOK, Objects
<1>2. servers \subseteq servers'
  BY DEF GenerateNfsServer
<1> QED
  BY <1>1, <1>2, StoreOrReturnCopy DEF GenerateNfsServer, Return

LEMMA AssignReferenceCopy ==
  ASSUME AdmissionInv, CopyInv, AssignReference
  PROVE  CopyInv'
<1>1. Referenced(mem.spec) \in Specs
  BY ReferencedSpec DEF AdmissionInv, TypeOK, Objects
<1> QED
  BY <1>1, StoreOrReturnCopy DEF AssignReference, Return

LEMMA CheckServerCopy ==
  ASSUME AdmissionInv, CopyInv, CheckServer
  PROVE  CopyInv'
<1>1. CASE Return(TRUE)
  BY <1>1, StoreOrReturnCopy DEF CheckServer, Return, AdmissionInv, TypeOK, Objects
<1>2. CASE /\ Managed(mem.spec.nfs) => mem.spec.nfs.name \in servers
           /\ pc' = IF mem.spec.ref = "" THEN "reference" ELSE "resources"
           /\ mem' = IF Managed(mem.spec.nfs) /\ ~mem.address
                     THEN [mem EXCEPT !.address = TRUE, !.spec = WithUrl(mem.spec)]
                     ELSE mem
  <2>1. /\ pc = "server" /\ UNCHANGED <<obj, servers>>
        /\ mem \in Objects /\ mem.spec \in Specs /\ mem.spec.nfs # None
    BY DEF AdmissionInv, TypeOK, CopyValid, CheckServer, Objects
  <2>2. /\ mem'.rv = mem.rv /\ mem'.spec \in {mem.spec, WithUrl(mem.spec)}
        /\ ~Managed(mem.spec.nfs) => mem'.spec = mem.spec
    BY <1>2, <2>1 DEF Objects
  <2>3. /\ mem'.spec.ref = mem.spec.ref /\ mem'.spec.storage = mem.spec.storage
    BY <2>1, <2>2, WithUrlParts
  <2>4. CopyCurrent'
    BY <1>2, <2>1, <2>2 DEF CopyInv, CopyCurrent
  <2>5. HeldMeanwhile' /\ ReadyComplete'
    BY <1>2, <2>1 DEF CopyInv, HeldMeanwhile, ReadyComplete, StorageSound, ServerSound
  <2>6. /\ obj.spec.nfs # None /\ mem.spec.nfs.name = obj.spec.nfs.name
        /\ mem.spec.nfs.url \in {obj.spec.nfs.url, ""}
    BY <2>1 DEF CopyInv, ChecksHold
  <2>7. mem'.spec.nfs.url = "" \/ ServerSound(obj.spec.nfs)
    <3>1. CASE Managed(mem.spec.nfs)
      BY <1>2, <2>6, <3>1 DEF ServerSound
    <3>2. CASE IsExternalNfsServer(mem.spec.nfs)
      BY <2>6, <3>2, ExternalStays DEF ServerSound
    <3>3. CASE ~Managed(mem.spec.nfs) /\ ~IsExternalNfsServer(mem.spec.nfs)
      BY <2>1, <2>2, <3>3 DEF Managed, IsExternalNfsServer
    <3> QED
      BY <3>1, <3>2, <3>3
  <2>8. ChecksHold'
    BY <1>2, <2>1, <2>3, <2>6, <2>7 DEF CopyInv, ChecksHold, StorageSound, ServerSound
  <2> QED
    BY <2>4, <2>5, <2>8 DEF CopyInv
<1> QED
  BY <1>1, <1>2 DEF CheckServer

LEMMA ProvisionCopy ==
  ASSUME AdmissionInv, CopyInv, Provision
  PROVE  CopyInv'
<1>1. CASE UNCHANGED obj
  BY <1>1, StoreOrReturnCopy DEF Provision, Return, AdmissionInv, TypeOK, Objects
<1>2. CASE /\ Provisionable(mem.spec)
           /\ obj' = [obj EXCEPT !.ready = TRUE, !.address = TRUE, !.rv = obj.rv + 1]
  <2>1. obj \in Objects /\ pc = "resources" /\ UNCHANGED servers /\ pc' = "idle"
    BY DEF AdmissionInv, TypeOK, Provision, Return
  <2>2. obj'.spec = obj.spec /\ obj'.st = obj.st /\ obj'.fin = obj.fin
    BY <1>2, <2>1 DEF Objects
  <2>3. HeldMeanwhile'
    BY <2>1, <2>2 DEF CopyInv, HeldMeanwhile
  <2>4. /\ StorageSound(obj.spec.storage) /\ obj.spec.storage.capacity \in Quantities
        /\ ServerSound(obj.spec.nfs) /\ obj.spec.ref \notin {"", "unfit"}
    BY <1>2, <2>1 DEF AdmissionInv, CopyValid, CopyInv, ChecksHold, Provisionable
  <2>5. ReadyComplete'
    BY <2>1, <2>2, <2>4 DEF ReadyComplete, StorageSound, ServerSound
  <2> QED
    BY <2>1, <2>3, <2>5, IdleCopy DEF CopyInv
<1> QED
  BY <1>1, <1>2 DEF Provision

\* A stored spec is always taken back as it is.
LEMMA StoredTakenBack ==
  ASSUME AdmissionInv, obj.st # "gone"
  PROVE  ValidateVolumeObjectUpdate(kind, obj.spec, obj.spec)
<1>1. Kept(obj.spec, obj.spec) /\ ValidateVolumeSpec(kind, obj.spec)
  BY KeptReflexive DEF AdmissionInv, TypeOK, Objects, StoredValid
<1> QED
  BY <1>1 DEF Kept, ValidateVolumeObjectUpdate

LEMMA ReleaseCopy ==
  ASSUME AdmissionInv, CopyInv, Release
  PROVE  CopyInv'
<1>1. ValidateVolumeObjectUpdate(kind, obj.spec, obj.spec)
  BY StoredTakenBack DEF Release, CopyInv, HeldMeanwhile
<1>2. obj'.st = "gone" /\ obj'.ready = FALSE /\ pc' = "idle"
  BY <1>1 DEF Release, Return, NoObject
<1> QED
  BY <1>2, IdleCopy DEF CopyInv, HeldMeanwhile, ReadyComplete

LEMMA NextCopy ==
  AdmissionInv /\ CopyInv /\ AdmissionInv' /\ [Next]_vars => CopyInv'
<1> SUFFICES ASSUME AdmissionInv, CopyInv, AdmissionInv', [Next]_vars PROVE CopyInv'
  OBVIOUS
<1>1. CASE Controller
  BY <1>1, FetchCopy, EnsureFinalizerCopy, FillAndValidateCopy, GenerateCopy, CheckServerCopy,
     AssignReferenceCopy, ProvisionCopy, ReleaseCopy DEF Controller
<1>2. CASE Lookup \/ UNCHANGED vars
  <2>1. UNCHANGED <<obj, servers, pc, mem>>
    BY <1>2 DEF Lookup, vars
  <2> QED
    BY <2>1 DEF CopyInv, CopyCurrent, HeldMeanwhile, ChecksHold, ReadyComplete, StorageSound,
       ServerSound
<1> QED
  BY <1>1, <1>2, CreateCopy, EditCopy, DeleteCopy DEF Next

\* Whatever users store while a reconcile works on its copy, what the copy was checked
\* for holds of the volume (ValidateVolumeObjectUpdate's immutable fields).
THEOREM CopyInvariant == Spec => []CopyInv
<1>1. Init => CopyInv
  BY DEF Init, CopyInv, CopyCurrent, HeldMeanwhile, ChecksHold, ReadyComplete, NoObject
<1> QED
  BY <1>1, NextCopy, AdmissionInvariant, PTL DEF Spec

\* However long a volume has been Ready, and whatever was written since, it has storage
\* of a size, a server to be had and a reference value fit for a Service.
THEOREM ReadySound == Spec => []ReadyIsSound
<1>1. ReadyComplete => ReadyIsSound
  BY DEF ReadyComplete, ReadyIsSound, Sound, StorageSound, ServerSound
<1>2. CopyInv => ReadyIsSound
  BY <1>1 DEF CopyInv
<1> QED
  BY <1>2, CopyInvariant, PTL

---------------------------------------------------------------------------
\* What the webhook makes of the controller's writes

\* With the defaults in, the durations of a spec that was admitted are asked to fit.
LEMMA DefaultsFit ==
  ASSUME NEW old \in Specs, validateSyncConfig(old), NEW new, new.source = old.source,
         new.interval = OrDefault(old.interval, 60, old),
         new.timeout = OrDefault(old.timeout, 120, old)
  PROVE  validateSyncConfig(new) <=> SyncFits(old)
<1>1. Unset \notin Int
  BY SpecsAssumption
<1>2. CASE old.source = None
  BY <1>2 DEF validateSyncConfig, SyncFits, OrDefault
<1>3. CASE old.source # None
  <2>1. new.interval # Unset /\ new.timeout # Unset
    BY <1>1, <1>3 DEF OrDefault
  <2>2. validateSyncConfig(new) <=> /\ {new.interval, new.timeout} \subseteq Int
                                    /\ new.timeout < new.interval
    BY <1>3, <2>1 DEF validateSyncConfig
  <2> QED
    BY <1>3, <2>2 DEF SyncFits, OrDefault
<1> QED
  BY <1>2, <1>3

\* A spec with its defaults in, and more of what was empty, is taken back if they fit
\* and the server is still the one that was named.
LEMMA WriteJudged ==
  ASSUME NEW old \in Specs, ValidateVolumeSpec(kind, old), SpecComplete(old),
         NEW new \in Specs, old.ref \in {new.ref, ""},
         \A f \in {"mountPath", "class", "namespace", "storage", "source", "interval",
                   "timeout"} : new[f] = Filled(old)[f]
  PROVE  ValidateVolumeObjectUpdate(kind, old, new) <=>
           SyncFits(old) /\ compareNfsServerSpecsWithDefaults(old.nfs, new.nfs)
<1>1. /\ new.mountPath = old.mountPath /\ new.class = old.class /\ new.source = old.source
      /\ new.interval = OrDefault(old.interval, 60, old)
      /\ new.timeout = OrDefault(old.timeout, 120, old)
      /\ new.storage = WithMode(old.storage)
      /\ old.namespace \in {new.namespace, ""}
  BY DEF Filled, Specs
<1>2. compareStorageSpecsWithDefaults(old.storage, new.storage)
  <2>1. old.storage \in Storages
    BY DEF SpecComplete, Specs
  <2>2. new.storage \in Storages
    BY <1>1, <2>1 DEF WithMode, Storages, Modes
  <2> QED
    BY <1>1, <2>1, <2>2, NoneAssumption DEF WithMode, Storages, compareStorageSpecsWithDefaults
<1>3. ValidateVolumeSpec(kind, new) <=> SyncFits(old)
  BY <1>1, DefaultsFit DEF ValidateVolumeSpec
<1> QED
  BY <1>1, <1>2, <1>3 DEF ValidateVolumeObjectUpdate

LEMMA GenerateJudged ==
  ASSUME NEW old \in Specs, ValidateVolumeSpec(kind, old), SpecComplete(old), old.nfs = None
  PROVE  ValidateVolumeObjectUpdate(kind, old, Generated(Filled(old))) <=> SyncFits(old)
<1> DEFINE filled == Filled(old)
           new == Generated(filled)
<1>1. filled \in Specs /\ filled.ref = old.ref
  BY FilledSpec, FilledParts
<1>2. new \in Specs
  BY <1>1, GeneratedSpec
<1>3. /\ new.ref = Referenced(filled).ref
      /\ \A f \in {"mountPath", "class", "namespace", "storage", "source", "interval",
                   "timeout"} : new[f] = filled[f]
  BY <1>1 DEF Generated, Referenced, Specs
<1>4. filled.ref \in {new.ref, ""}
  BY <1>1, <1>3 DEF Referenced, Specs
<1>5. compareNfsServerSpecsWithDefaults(old.nfs, new.nfs)
  BY DEF compareNfsServerSpecsWithDefaults
<1> QED
  BY <1>1, <1>2, <1>3, <1>4, <1>5, WriteJudged

LEMMA ReferenceJudged ==
  ASSUME NEW old \in Specs, ValidateVolumeSpec(kind, old), SpecComplete(old), old.nfs # None,
         NEW copy \in {Filled(old), WithUrl(Filled(old))}
  PROVE  ValidateVolumeObjectUpdate(kind, old, Referenced(copy)) <=>
           SyncFits(old) /\ old.nfs.url \in {copy.nfs.url, ""}
<1> DEFINE filled == Filled(old)
           new == Referenced(copy)
<1>1. filled \in Specs /\ filled.nfs # None /\ filled.ref = old.ref
  BY FilledSpec, FilledParts
<1>2. /\ \A f \in {"ref", "mountPath", "class", "namespace", "storage", "source", "interval",
                   "timeout"} : copy[f] = filled[f]
      /\ \A f \in {"name", "namespace", "path"} : copy.nfs[f] = filled.nfs[f]
  BY <1>1, WithUrlParts
<1>3. copy \in Specs /\ copy.nfs # None
  <2>1. [filled.nfs EXCEPT !.url = "nfs.ns.svc"] \in NfsSpecs
    BY <1>1 DEF Specs, NfsSpecs, Urls
  <2>2. WithUrl(filled) \in Specs /\ WithUrl(filled).nfs \in NfsSpecs
    BY <1>1, <2>1 DEF WithUrl, Specs
  <2> QED
    BY <1>1, <2>2, NoneAssumption
<1>4. /\ new.nfs = copy.nfs
      /\ \A f \in {"mountPath", "class", "namespace", "storage", "source", "interval",
                   "timeout"} : new[f] = copy[f]
  BY <1>3 DEF Referenced, Specs
<1>5. new \in Specs /\ old.ref \in {new.ref, ""}
  <2>1. copy.ref \in {new.ref, ""}
    BY <1>3 DEF Referenced, Specs
  <2> QED
    BY <1>1, <1>2, <1>3, <2>1, ReferencedSpec
<1>6. compareNfsServerSpecsWithDefaults(old.nfs, new.nfs) <=> old.nfs.url \in {copy.nfs.url, ""}
  <2>1. /\ copy.nfs.name = old.nfs.name /\ copy.nfs.namespace = old.nfs.namespace
        /\ old.nfs.path = copy.nfs.path \/ (old.nfs.path = "" /\ copy.nfs.path = "/")
    BY <1>2, FilledParts
  <2> QED
    BY <1>3, <1>4, <2>1 DEF compareNfsServerSpecsWithDefaults
<1> QED
  BY <1>2, <1>4, <1>5, <1>6, WriteJudged

\* The webhook refuses no write of a copy that is current but for the two reasons the
\* property names, and never the removal of the finalizer.
THEOREM ControllerWritesAccepted == Spec => []WritesAccepted
<1>1. AdmissionInv /\ CopyInv => WritesAccepted
  <2> SUFFICES ASSUME AdmissionInv, CopyInv PROVE WritesAccepted
    OBVIOUS
  <2>1. obj.spec \in Specs
    BY DEF AdmissionInv, TypeOK, Objects
  <2>2. pc = "finalizer" /\ mem.rv = obj.rv => Accepted(mem.spec)
    BY StoredTakenBack DEF CopyInv, CopyCurrent, Accepted
  <2>3. pc = "release" => ValidateVolumeObjectUpdate(kind, obj.spec, obj.spec)
    BY StoredTakenBack DEF CopyInv, HeldMeanwhile
  <2>4. ASSUME pc \in {"generate", "reference"}, mem.rv = obj.rv
        PROVE  /\ obj.st # "gone" /\ ValidateVolumeSpec(kind, obj.spec)
               /\ SpecComplete(obj.spec) /\ (obj.spec.nfs = None <=> pc = "generate")
               /\ pc = "generate" => mem.spec = Filled(obj.spec)
               /\ mem.spec \in {Filled(obj.spec), WithUrl(Filled(obj.spec))}
    <3>1. obj.st # "gone" /\ ValidateVolumeSpec(kind, obj.spec)
      BY <2>4 DEF AdmissionInv, StoredValid, CopyInv, CopyCurrent
    <3>2. mem.spec.nfs = None <=> pc = "generate"
      BY <2>4 DEF AdmissionInv, CopyValid
    <3>3. mem.spec \in {Filled(obj.spec), WithUrl(Filled(obj.spec))}
      BY <2>4 DEF CopyInv, CopyCurrent
    <3>4. obj.spec.nfs = None <=> mem.spec.nfs = None
      <4>1. CASE pc = "generate"
        BY <2>1, <2>4, <4>1, FilledKeeps DEF CopyInv, CopyCurrent
      <4>2. CASE pc = "reference"
        BY <3>2, <4>2 DEF CopyInv, ChecksHold
      <4> QED
        BY <2>4, <4>1, <4>2
    <3>5. pc = "generate" => mem.spec = Filled(obj.spec)
      BY <2>4 DEF CopyInv, CopyCurrent
    <3>6. SpecComplete(mem.spec) /\ mem.spec.storage.capacity = obj.spec.storage.capacity
          /\ StorageSound(obj.spec.storage)
      BY <2>4 DEF AdmissionInv, CopyValid, CopyInv, ChecksHold
    <3>7. obj.spec.nfs = None => obj.spec.class
      BY <2>1, <3>2, <3>4, <3>5, <3>6, FilledKeeps DEF SpecComplete
    <3>8. SpecComplete(obj.spec)
      BY <3>1, <3>6, <3>7 DEF SpecComplete, StorageSound, ValidateVolumeSpec
    <3> QED
      BY <3>1, <3>2, <3>3, <3>4, <3>5, <3>8
  <2>5. pc = "generate" /\ mem.rv = obj.rv =>
          (Accepted(Generated(mem.spec)) <=> SyncFits(obj.spec))
    BY <2>1, <2>4, GenerateJudged DEF Accepted
  <2>6. pc = "reference" /\ mem.rv = obj.rv =>
          (Accepted(Referenced(mem.spec)) <=>
             SyncFits(obj.spec) /\ obj.spec.nfs.url \in {mem.spec.nfs.url, ""})
    <3> SUFFICES ASSUME pc = "reference", mem.rv = obj.rv
                 PROVE  Accepted(Referenced(mem.spec)) <=>
                          SyncFits(obj.spec) /\ obj.spec.nfs.url \in {mem.spec.nfs.url, ""}
      OBVIOUS
    <3>1. /\ obj.st # "gone" /\ ValidateVolumeSpec(kind, obj.spec) /\ SpecComplete(obj.spec)
          /\ obj.spec.nfs # None /\ mem.spec \in {Filled(obj.spec), WithUrl(Filled(obj.spec))}
      BY <2>4
    <3>2. ValidateVolumeObjectUpdate(kind, obj.spec, Referenced(mem.spec)) <=>
            SyncFits(obj.spec) /\ obj.spec.nfs.url \in {mem.spec.nfs.url, ""}
      BY <2>1, <3>1, ReferenceJudged
    <3> QED
      BY <3>1, <3>2 DEF Accepted
  <2> QED
    BY <2>2, <2>3, <2>5, <2>6 DEF WritesAccepted
<1> QED
  BY <1>1, AdmissionInvariant, CopyInvariant, PTL
=============================================================================
