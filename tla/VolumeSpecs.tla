---------------------------- MODULE VolumeSpecs ----------------------------
(***************************************************************************)
(* What a volume's spec may hold, what the validating webhook admits       *)
(* (internal/webhook/validation/common.go), what the controller fills in   *)
(* (FillAndValidateSpec) and what a sync request is built from             *)
(* (sync_controller.go): pure operators, no state.                         *)
(*                                                                         *)
(* A text matters only by what is asked of it: whether it is empty ("" or  *)
(* FALSE), what it parses to, whether it is the same as before.            *)
(***************************************************************************)
EXTENDS Integers

CONSTANTS
  None,         \* a nil pointer
  Unset,        \* an empty duration
  Malformed,    \* a duration time.ParseDuration refuses, "1d" for one
  Paths,        \* mount paths
  Capacities,   \* storage capacities
  Quantities,   \* those resource.ParseQuantity accepts
  Namespaces,   \* names of namespaces
  Home,         \* that of a SharedVolume, or shared-volume-controller
  SecretNames   \* names of Secrets

ASSUME SpecsAssumption ==
  /\ Quantities \subseteq Capacities /\ Home \in Namespaces
  /\ "" \notin Paths \cup Capacities \cup Namespaces \cup SecretNames
  /\ {Unset, Malformed} \cap Int = {} /\ Unset # Malformed

VolumeKinds == {"sv", "csv"}
Modes       == {"ReadOnly", "ReadWrite"}
SourceTypes == {"ssh", "http", "git", "s3"}
Durations   == Int \cup {Unset, Malformed}

\* Reference values: a user's own, one no Service may be named by, a random one.
Refs == {"own", "unfit", "random"}

\* The server names that are "nfs-" and a reference value.
NfsName == [own |-> "nfs-own", unfit |-> "nfs-unfit", random |-> "nfs-random"]

NfsNames == {NfsName[r] : r \in Refs} \cup {"plain", "host.name"}
Dotted   == {"host.name", "nfs.ns.svc"}   \* names and URLs with a dot
Urls     == {"plain", "host.name", "nfs.ns.svc"}

Selectors   == [name: SecretNames \cup {""}, key: BOOLEAN, namespace: Namespaces \cup {""}]
Credentials == [value: BOOLEAN, secret: Selectors \cup {None}]

SshSources  == [host: BOOLEAN, path: BOOLEAN, key: Credentials, password: Credentials]
HttpSources == [url: BOOLEAN]
GitSources  == [url: BOOLEAN, user: BOOLEAN, key: Credentials, password: Credentials]
S3Sources   == [endpoint: BOOLEAN, bucket: BOOLEAN, region: BOOLEAN,
                access: Credentials, secret: Credentials]

Sources  == [ssh: SshSources \cup {None}, http: HttpSources \cup {None},
             git: GitSources \cup {None}, s3: S3Sources \cup {None}]
Storages == [capacity: Capacities \cup {""}, mode: Modes \cup {"", "Other"}]
NfsSpecs == [name: NfsNames \cup {""}, namespace: Namespaces \cup {""},
             url: Urls \cup {""}, path: Paths \cup {"", "/"}]

Specs == [mountPath: Paths \cup {""}, storage: Storages \cup {None}, class: BOOLEAN,
          namespace: Namespaces \cup {""}, ref: Refs \cup {""},
          nfs: NfsSpecs \cup {None}, source: Sources \cup {None},
          interval: Durations, timeout: Durations]

ASSUME NoneAssumption ==
  /\ None \notin Selectors /\ None \notin Storages /\ None \notin NfsSpecs
  /\ None \notin Sources /\ None \notin SshSources /\ None \notin HttpSources
  /\ None \notin GitSources /\ None \notin S3Sources

---------------------------------------------------------------------------
\* The validating webhook

\* A namespaced volume's Secrets are its namespace's, a cluster-scoped one names it.
validateSecretKeySelector(kind, sel) ==
  sel.name # "" /\ sel.key /\ (kind = "csv" <=> sel.namespace # "")

Provided(cred) == cred.value \/ cred.secret # None

\* Given by value or by reference, not both.
ReferencesValid(kind, cred) ==
  /\ ~ (cred.value /\ cred.secret # None)
  /\ cred.secret # None => validateSecretKeySelector(kind, cred.secret)

\* Mutant: an SSH source needs no way to authenticate.
SshWithoutMethod(kind, ssh) ==
  /\ ssh.host /\ ssh.path
  /\ ReferencesValid(kind, ssh.key) /\ ReferencesValid(kind, ssh.password)
  /\ ~ (Provided(ssh.key) /\ Provided(ssh.password))

validateSSHSource(kind, ssh) ==
  /\ ssh.host /\ ssh.path
  /\ ReferencesValid(kind, ssh.key) /\ ReferencesValid(kind, ssh.password)
  /\ Provided(ssh.key) <=> ~ Provided(ssh.password)

validateGitSource(kind, git) ==
  /\ git.url
  /\ ReferencesValid(kind, git.key) /\ ReferencesValid(kind, git.password)
  /\ ~ (Provided(git.key) /\ Provided(git.password))
  /\ Provided(git.password) => git.user

validateS3Source(kind, s3) ==
  /\ s3.endpoint /\ s3.bucket /\ s3.region
  /\ ReferencesValid(kind, s3.access) /\ ReferencesValid(kind, s3.secret)
  /\ Provided(s3.access) /\ Provided(s3.secret)

Given(source) == {t \in SourceTypes : source[t] # None}

\* At most one type; source: {} names none and passes.
validateSourceSpec(kind, source) ==
  source # None =>
    /\ \A t, u \in Given(source) : t = u
    /\ source.ssh # None => validateSSHSource(kind, source.ssh)
    /\ source.http # None => source.http.url
    /\ source.git # None => validateGitSource(kind, source.git)
    /\ source.s3 # None => validateS3Source(kind, source.s3)

\* Neither duration is looked at unless both are given.
validateSyncConfig(spec) ==
  IF spec.source = None
  THEN spec.interval = Unset /\ spec.timeout = Unset
  ELSE \/ spec.interval = Unset \/ spec.timeout = Unset
       \/ /\ {spec.interval, spec.timeout} \subseteq Int
          /\ spec.timeout < spec.interval

\* No field of nfsServer, storage or referenceValue is asked for anything.
ValidateVolumeSpec(kind, spec) ==
  /\ spec.mountPath # ""
  /\ validateSourceSpec(kind, spec.source)
  /\ validateSyncConfig(spec)

\* Mutant: only the access mode is compared.
StorageResizable(old, new) ==
  \/ old = None /\ new = None
  \/ /\ old # None /\ new # None
     /\ old.mode = new.mode \/ (old.mode = "" /\ new.mode = "ReadOnly")

compareStorageSpecsWithDefaults(old, new) ==
  \/ old = None /\ new = None
  \/ /\ old # None /\ new # None
     /\ old.capacity = new.capacity
     /\ old.mode = new.mode \/ (old.mode = "" /\ new.mode = "ReadOnly")

compareNfsServerSpecsWithDefaults(old, new) ==
  old # None =>
    /\ new # None
    /\ old.name = new.name /\ old.namespace = new.namespace
    /\ old.url \in {new.url, ""}
    /\ old.path = new.path \/ (old.path = "" /\ new.path = "/")

\* Mutant: a field that is set when it was empty counts as changed.
ImmutableFromCreation(kind, old, new) ==
  /\ ValidateVolumeSpec(kind, new)
  /\ \A f \in {"mountPath", "class", "namespace", "ref"} : old[f] = new[f]
  /\ compareStorageSpecsWithDefaults(old.storage, new.storage)
  /\ compareNfsServerSpecsWithDefaults(old.nfs, new.nfs)

\* Mutant: what may change is not validated again.
UpdateUnvalidated(kind, old, new) ==
  /\ \A f \in {"mountPath", "namespace", "ref"} : old[f] \in {new[f], ""}
  /\ old.class => new.class
  /\ compareStorageSpecsWithDefaults(old.storage, new.storage)
  /\ compareNfsServerSpecsWithDefaults(old.nfs, new.nfs)

\* Once set a field stays, but for source, syncInterval and syncTimeout.
ValidateVolumeObjectUpdate(kind, old, new) ==
  /\ ValidateVolumeSpec(kind, new)
  /\ \A f \in {"mountPath", "namespace", "ref"} : old[f] \in {new[f], ""}
  /\ old.class => new.class
  /\ compareStorageSpecsWithDefaults(old.storage, new.storage)
  /\ compareNfsServerSpecsWithDefaults(old.nfs, new.nfs)

---------------------------------------------------------------------------
\* The controller

\* FillAndValidateSpec: the errors it returns.  The server is generated if nil.
SpecComplete(spec) ==
  /\ spec.mountPath # ""
  /\ spec.storage # None
  /\ spec.storage.capacity # "" /\ spec.storage.mode \in Modes \cup {""}
  /\ spec.nfs = None => spec.class

\* FillAndValidateSpec: the defaults, which stay in memory until the next Update.
WithMode(storage) ==
  IF storage.mode = "" THEN [storage EXCEPT !.mode = "ReadOnly"] ELSE storage

WithPath(nfs) ==
  IF nfs # None /\ nfs.path = "" THEN [nfs EXCEPT !.path = "/"] ELSE nfs

OrDefault(duration, default, spec) ==
  IF spec.source # None /\ duration = Unset THEN default ELSE duration

Filled(spec) ==
  [spec EXCEPT
    !.namespace = IF @ = "" THEN Home ELSE @,
    !.interval  = OrDefault(@, 60, spec),
    !.timeout   = OrDefault(@, 120, spec),
    !.storage   = WithMode(@),
    !.nfs       = WithPath(@)]

\* The volume names a server by URL, not an NfsServer object.
IsExternalNfsServer(nfs) ==
  /\ nfs # None /\ nfs.url # ""
  /\ \/ nfs.name \in {"", nfs.url} \cup Dotted
     \/ nfs.url \in Dotted /\ nfs.name \notin {NfsName[r] : r \in Refs}

\* GenerateAndCreateNfsServer: the reference value, and the server named by it.
Referenced(spec) == [spec EXCEPT !.ref = IF @ = "" THEN "random" ELSE @]

Generated(spec) ==
  [Referenced(spec) EXCEPT
    !.nfs = [name |-> NfsName[Referenced(spec).ref], namespace |-> Home,
             url |-> "nfs.ns.svc", path |-> "/"]]

---------------------------------------------------------------------------
\* Sync requests

hasValidSource(spec) == spec.source # None /\ Given(spec.source) # {}

\* The type a request is built for: the first that is given.
TypeOf(source) ==
  IF source.ssh # None THEN "ssh"
  ELSE IF source.http # None THEN "http"
  ELSE IF source.git # None THEN "git" ELSE "s3"

CredentialsOf(source) ==
  LET type == TypeOf(source) IN
  CASE type = "http" -> {}
    [] type = "s3"   -> {source.s3.access, source.s3.secret}
    [] OTHER         -> {source[type].key, source[type].password}

\* Mutant: a Secret is always looked for in the volume's own namespace.
SecretsAtHome(source, namespace) ==
  {<<namespace, c.secret.name>> :
     c \in {d \in CredentialsOf(source) : ~d.value /\ d.secret # None}}

\* The Secrets read, by namespace and name: those of credentials without a value.
SecretsOf(source, namespace) ==
  {<<IF c.secret.namespace = "" THEN namespace ELSE c.secret.namespace, c.secret.name>> :
     c \in {d \in CredentialsOf(source) : ~d.value /\ d.secret # None}}

\* buildSyncRequestCommon succeeds when these Secrets hold the keys.
Buildable(source, namespace, secrets) ==
  /\ Given(source) # {}
  /\ SecretsOf(source, namespace) \subseteq secrets
  /\ TypeOf(source) = "ssh" => \E c \in CredentialsOf(source) : Provided(c)
=============================================================================
