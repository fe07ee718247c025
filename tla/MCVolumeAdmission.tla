------------------------- MODULE MCVolumeAdmission -------------------------
(***************************************************************************)
(* Specs to check VolumeAdmission with: a plain one and, around it, one    *)
(* for each thing the webhook, the controller or a sync request looks at.  *)
(***************************************************************************)
EXTENDS VolumeAdmission

Storage(capacity, mode) == [capacity |-> capacity, mode |-> mode]
Nfs(name, url)  == [name |-> name, namespace |-> "", url |-> url, path |-> ""]
Secret(ns)      == [name |-> "secret", key |-> TRUE, namespace |-> ns]
Value           == [value |-> TRUE, secret |-> None]
NotGiven        == [value |-> FALSE, secret |-> None]
From(ns)        == [value |-> FALSE, secret |-> Secret(ns)]

NoType == [ssh |-> None, http |-> None, git |-> None, s3 |-> None]
Http   == [NoType EXCEPT !.http = [url |-> TRUE]]
Ssh(key, password) ==
  [NoType EXCEPT !.ssh = [host |-> TRUE, path |-> TRUE, key |-> key, password |-> password]]
Git(user, key, password) ==
  [NoType EXCEPT !.git = [url |-> TRUE, user |-> user, key |-> key, password |-> password]]
S3(access, secret) ==
  [NoType EXCEPT !.s3 = [endpoint |-> TRUE, bucket |-> TRUE, region |-> TRUE,
                         access |-> access, secret |-> secret]]

Plain == [mountPath |-> "/data", storage |-> Storage("1Gi", ""), class |-> TRUE,
          namespace |-> "", ref |-> "", nfs |-> None, source |-> None,
          interval |-> Unset, timeout |-> Unset]

Synced(source, interval, timeout) ==
  [Plain EXCEPT !.source = source, !.interval = interval, !.timeout = timeout]

Storages1 == {None, Storage("1Gi", "Other"), Storage("much", "ReadOnly"), Storage("", "")}

BySource ==
  {NoType, [Http EXCEPT !.git = Git(TRUE, NotGiven, NotGiven).git],
   Ssh(Value, NotGiven), Ssh(NotGiven, NotGiven), Ssh(From(""), NotGiven),
   Ssh(NotGiven, From("far")), Git(TRUE, NotGiven, From("")), Git(FALSE, NotGiven, Value),
   S3(Value, From("far")), S3(From(""), NotGiven)}

ByDurations ==
  {<<Unset, Unset>>, <<300, Unset>>, <<Unset, 30>>, <<30, 60>>, <<Malformed, Unset>>,
   <<Unset, Malformed>>, <<300, 30>>}

ByServer ==
  {Nfs("", "host.name"), Nfs("plain", ""), Nfs("nfs-own", "host.name"), Nfs("plain", "host.name")}

SomeSpecs ==
  {Plain, [Plain EXCEPT !.mountPath = ""], [Plain EXCEPT !.class = FALSE],
   [Plain EXCEPT !.ref = "unfit"], [Plain EXCEPT !.namespace = "far"]}
  \cup {[Plain EXCEPT !.storage = s] : s \in Storages1}
  \cup {Synced(s, 300, 30) : s \in BySource}
  \cup {Synced(Http, d[1], d[2]) : d \in ByDurations}
  \cup {[Synced(Http, d[1], d[2]) EXCEPT !.nfs = n, !.ref = r] :
          d \in {<<300, 30>>, <<Malformed, Unset>>, <<Unset, Unset>>},
          n \in ByServer, r \in {"", "own"}}
  \cup {[Plain EXCEPT !.nfs = Nfs("", "host.name"), !.ref = "own", !.storage = s] :
          s \in {Storage("1Gi", ""), Storage("much", "")}}
=============================================================================
