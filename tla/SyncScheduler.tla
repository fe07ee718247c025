--------------------------- MODULE SyncScheduler ---------------------------
(***************************************************************************)
(* The SyncController (internal/controller/sync_controller.go): one timer  *)
(* per volume whose run looks the volume up, triggers a sync and arms the  *)
(* next timer.  A timer and the ones armed by its runs are a chain here.   *)
(*                                                                         *)
(* The map syncTimers is shared, under a mutex, by the reconcilers of the  *)
(* volumes, the recovery that starts syncs anew when the process starts,   *)
(* and the runs; each critical section is a step.  The behaviours begin    *)
(* when the process starts, with whatever volumes the cluster has.         *)
(***************************************************************************)
EXTENDS Naturals

CONSTANTS
  Volumes,         \* names of volumes (namespace/name)
  Namesakes,       \* those whose name a volume of the other kind has too
  Sources,         \* what a volume may be synced from
  NoSource,        \* no source configured
  SharedStored,    \* the intervals that users store, by kind of volume:
  ClusterStored,   \* subsets of Intervals; with {}, none of the kind has a source
  Chains,          \* bound: chains alive at a time
  NoChain,         \* no timer in the map
  Recovery,        \* the OneTimeRecoveryRunnable
  Recovers,        \* has it still to run? FALSE: the process has been up for a while
  MaxEdits,        \* bound: edits of the source
  MaxFlaps         \* bound: changes of phase between Ready and not

\* What is in spec.syncInterval: nothing, a duration, or a text that is none, such as the
\* "1d" of the type's comment, which the webhook admits with the timeout empty.
Intervals == {"unset", "set", "malformed"}

ASSUME SyncAssumption ==
  /\ Namesakes \subseteq Volumes
  /\ NoSource \notin Sources /\ NoChain \notin Chains /\ Recovery \notin Volumes
  /\ SharedStored \subseteq Intervals /\ ClusterStored \subseteq Intervals
  /\ Recovers \in BOOLEAN
  /\ MaxEdits \in Nat /\ MaxFlaps \in Nat

VARIABLES
  obj,      \* the volumes as the process sees them
  due,      \* volumes in the workqueue
  call,     \* where each reconciler and the recovery is in Start and Stop
  listed,   \* volumes the recovery has listed and not yet started
  stage,    \* what the recovery lists next
  timers,   \* syncTimers: the chain whose timer is registered
  chain,    \* the chains
  synced,   \* what a run of the volume has synced from that is not over yet
  edits, flaps

vars == <<obj, due, call, listed, stage, timers, chain, synced, edits, flaps>>
clusterVars == <<obj, due, edits, flaps>>
recoveryVars == <<listed, stage>>

Callers == Volumes \cup {Recovery}

\* The part of a volume that a copy given to Start carries.
Specs == [source: Sources \cup {NoSource}, interval: Intervals, ready: BOOLEAN]

VolumeKinds == {"sv", "csv"}   \* SharedVolume, ClusterSharedVolume

\* The webhook takes no interval where there is nothing to sync from.
Stored(kind, source) ==
  IF source = NoSource THEN {"unset"}
  ELSE IF kind = "sv" THEN SharedStored ELSE ClusterStored

Objects == [kind: VolumeKinds, st: {"live", "deleting", "gone"}, spec: Specs]

NoSpec == [source |-> NoSource, interval |-> "unset", ready |-> FALSE]

Idle == [pc |-> "idle", vol |-> NoSource, spec |-> NoSpec]

Free == [st |-> "free", vol |-> NoSource, source |-> NoSource]

---------------------------------------------------------------------------
\* The map of timers

\* Mutant: the timer is stopped, its entry stays.
StoppedKeepsEntry(v) ==
  /\ chain' = [k \in Chains |-> IF timers[v] = k /\ chain[k].st = "pending"
                                THEN Free ELSE chain[k]]
  /\ UNCHANGED timers

\* stopSyncTimer: a timer that has fired cannot be stopped, its run goes on.
Stopped(v) ==
  /\ chain' = [k \in Chains |-> IF timers[v] = k /\ chain[k].st = "pending"
                                THEN Free ELSE chain[k]]
  /\ timers' = [timers EXCEPT ![v] = NoChain]

Goto(p, label) == call' = [call EXCEPT ![p].pc = label]

Done(p) == call' = [call EXCEPT ![p] = Idle]

---------------------------------------------------------------------------
\* Callers of Start and Stop

\* time.ParseDuration of the interval.
Parses(spec) == spec.interval = "set"

\* StartSyncForSharedVolume, StartSyncForClusterSharedVolume: only the first asks
\* for phase Ready; the second parses the interval before it stops anything.
Start(p) ==
  LET v == call[p].vol
      spec == call[p].spec
      unwanted == spec.source = NoSource \/ (obj[v].kind = "sv" /\ ~spec.ready)
  IN
  /\ call[p].pc = "start"
  /\ \/ unwanted /\ Stopped(v) /\ Done(p)
     \/ /\ ~unwanted /\ ~Parses(spec) /\ Done(p)
        /\ IF obj[v].kind = "csv" THEN UNCHANGED <<timers, chain>> ELSE Stopped(v)
     \/ ~unwanted /\ Parses(spec) /\ Stopped(v) /\ Goto(p, "check")
  /\ UNCHANGED <<clusterVars, recoveryVars, synced>>

\* startSyncCommon: look whether another caller has started it meanwhile,
AlreadyRunning(p) ==
  /\ call[p].pc = "check"
  /\ IF timers[call[p].vol] # NoChain THEN Done(p) ELSE Goto(p, "clear")
  /\ UNCHANGED <<clusterVars, recoveryVars, timers, chain, synced>>

\* stop again what may have been,
SafetyStop(p) ==
  /\ call[p].pc = "clear"
  /\ Stopped(call[p].vol)
  /\ Goto(p, "arm")
  /\ UNCHANGED <<clusterVars, recoveryVars, synced>>

FreeChains == {k \in Chains : chain[k] = Free}

\* and arm the first timer of a new chain.
Arm(p) ==
  LET v == call[p].vol IN
  /\ call[p].pc = "arm"
  /\ FreeChains # {}
  /\ LET k == CHOOSE c \in FreeChains : TRUE IN
       /\ chain' = [chain EXCEPT ![k] = [st |-> "pending", vol |-> v,
                                         source |-> call[p].spec.source]]
       /\ timers' = [timers EXCEPT ![v] = k]
  /\ Done(p)
  /\ UNCHANGED <<clusterVars, recoveryVars, synced>>

Stop(p) ==
  /\ call[p].pc = "stop"
  /\ Stopped(call[p].vol)
  /\ IF obj[call[p].vol].st = "deleting" THEN Goto(p, "release") ELSE Done(p)
  /\ UNCHANGED <<clusterVars, recoveryVars, synced>>

\* FillAndValidateSpec gives the reconciler's copy the default interval if it has none.
Filled(spec) ==
  IF spec.source # NoSource /\ spec.interval = "unset"
  THEN [spec EXCEPT !.interval = "set"]
  ELSE spec

Call(p, v, label, spec) ==
  call' = [call EXCEPT ![p] = [pc |-> label, vol |-> v, spec |-> spec]]

\* Mutant: a volume that is not found is reconciled all the same.
ReconcileNotFound(v) ==
  /\ due[v] /\ call[v] = Idle
  /\ due' = [due EXCEPT ![v] = FALSE]
  /\ \/ obj[v].st # "deleting" /\ Call(v, v, "start", Filled(obj[v].spec))
     \/ obj[v].st = "deleting" /\ Call(v, v, "stop", obj[v].spec)
  /\ UNCHANGED <<obj, edits, flaps, recoveryVars, timers, chain, synced>>

\* What a reconcile asks of the SyncController: a Ready volume, its NFS server up, is
\* started with the copy the reconcile works on; of another, the callbacks may stop
\* it, start it, or not be run.
Reconcile(v) ==
  /\ due[v] /\ call[v] = Idle
  /\ due' = [due EXCEPT ![v] = FALSE]
  /\ \/ obj[v].st = "live" /\ Call(v, v, "start", Filled(obj[v].spec))
     \/ obj[v].st = "live" /\ ~obj[v].spec.ready /\ Call(v, v, "stop", obj[v].spec)
     \/ (obj[v].st = "gone" \/ ~obj[v].spec.ready) /\ obj[v].st # "deleting"
        /\ UNCHANGED call
     \/ obj[v].st = "deleting" /\ Call(v, v, "stop", obj[v].spec)
  /\ UNCHANGED <<obj, edits, flaps, recoveryVars, timers, chain, synced>>

\* The finalizer of a volume is released after its cleanup has stopped the sync; the
\* delete event enqueues it once more.
Release(v) ==
  /\ call[v].pc = "release"
  /\ obj' = [obj EXCEPT ![v].st = "gone"]
  /\ due' = [due EXCEPT ![v] = TRUE]
  /\ Done(v)
  /\ UNCHANGED <<edits, flaps, recoveryVars, timers, chain, synced>>

\* RecoverSyncOperations lists the SharedVolumes, starts them from that list, then
\* does the same for ClusterSharedVolumes.
OfStage == [svs |-> "sv", csvs |-> "csv"]
NextStage == [svs |-> "csvs", csvs |-> "done"]

RecoveryList ==
  /\ stage # "done" /\ listed = {} /\ call[Recovery] = Idle
  /\ stage' = NextStage[stage]
  /\ listed' = {<<v, obj[v].spec>> : v \in
                 {w \in Volumes : /\ obj[w].kind = OfStage[stage]
                                  /\ obj[w].st # "gone" /\ obj[w].spec.ready
                                  /\ obj[w].spec.source # NoSource}}
  /\ UNCHANGED <<clusterVars, call, timers, chain, synced>>

RecoveryStart ==
  /\ call[Recovery] = Idle
  /\ \E e \in listed :
       /\ listed' = listed \ {e}
       /\ Call(Recovery, e[1], "start", e[2])
  /\ UNCHANGED <<clusterVars, stage, timers, chain, synced>>

---------------------------------------------------------------------------
\* Runs of timers: scheduledSyncCommon

MoveChain(k, from, to) ==
  /\ chain[k].st = from
  /\ chain' = [chain EXCEPT ![k].st = to]

Fire(k) ==
  /\ MoveChain(k, "pending", "lookup")
  /\ UNCHANGED <<clusterVars, call, recoveryVars, timers, synced>>

\* The volume is looked up by name, as a SharedVolume and then as a ClusterSharedVolume.
Found(v) == obj[v].st # "gone" \/ v \in Namesakes

\* Mutant: the run goes on whether the volume is there or not (as scheduledSync does).
LookupIgnored(k) ==
  /\ MoveChain(k, "lookup", "sync")
  /\ UNCHANGED <<clusterVars, call, recoveryVars, timers, synced>>

\* Mutant: it is looked up among the SharedVolumes only.
LookupShared(k) ==
  /\ MoveChain(k, "lookup",
               IF Found(chain[k].vol) /\ obj[chain[k].vol].kind = "sv" THEN "sync" ELSE "drop")
  /\ UNCHANGED <<clusterVars, call, recoveryVars, timers, synced>>

Lookup(k) ==
  /\ MoveChain(k, "lookup", IF Found(chain[k].vol) THEN "sync" ELSE "drop")
  /\ UNCHANGED <<clusterVars, call, recoveryVars, timers, synced>>

\* Mutant: the run of a volume that is gone returns without stopSyncTimer.
DropKeepsEntry(k) ==
  /\ chain[k].st = "drop"
  /\ chain' = [chain EXCEPT ![k] = Free]
  /\ UNCHANGED <<clusterVars, call, recoveryVars, timers, synced>>

\* A volume that is gone: stopSyncTimer, and no next timer.
Drop(k) ==
  LET v == chain[k].vol IN
  /\ chain[k].st = "drop"
  /\ chain' = [c \in Chains |->
       IF c = k \/ (timers[v] = c /\ chain[c].st = "pending") THEN Free ELSE chain[c]]
  /\ timers' = [timers EXCEPT ![v] = NoChain]
  /\ UNCHANGED <<clusterVars, call, recoveryVars, synced>>

\* Mutant: a run whose request fails does not arm the next timer.
TriggerEndsOnError(k) ==
  /\ \/ /\ MoveChain(k, "sync", "rearm")
        /\ synced' = [synced EXCEPT ![chain[k].vol] = chain[k].source]
     \/ /\ chain[k].st = "sync" /\ chain' = [chain EXCEPT ![k] = Free]
        /\ UNCHANGED synced
  /\ UNCHANGED <<clusterVars, call, recoveryVars, timers>>

\* The request to the syncer, from the configuration the chain was started with;
\* its errors are logged.
Trigger(k) ==
  /\ MoveChain(k, "sync", "rearm")
  /\ synced' = [synced EXCEPT ![chain[k].vol] = chain[k].source]
  /\ UNCHANGED <<clusterVars, call, recoveryVars, timers>>

\* The deferred function: the next timer, registered whatever the map holds now.
Rearm(k) ==
  /\ MoveChain(k, "rearm", "pending")
  /\ timers' = [timers EXCEPT ![chain[k].vol] = k]
  /\ synced' = [synced EXCEPT ![chain[k].vol] = NoSource]
  /\ UNCHANGED <<clusterVars, call, recoveryVars>>

---------------------------------------------------------------------------
\* Users and the status of volumes; every change enqueues the volume.

Change(v, o) == obj' = [obj EXCEPT ![v] = o] /\ due' = [due EXCEPT ![v] = TRUE]

UserEdit(v) ==
  /\ obj[v].st = "live" /\ edits < MaxEdits
  /\ edits' = edits + 1
  /\ \E s \in Sources \cup {NoSource} : \E i \in Stored(obj[v].kind, s) :
       /\ s # obj[v].spec.source \/ i # obj[v].spec.interval
       /\ Change(v, [obj[v] EXCEPT !.spec.source = s, !.spec.interval = i])
  /\ UNCHANGED <<flaps, call, recoveryVars, timers, chain, synced>>

UserDelete(v) ==
  /\ obj[v].st = "live"
  /\ Change(v, [obj[v] EXCEPT !.st = "deleting"])
  /\ UNCHANGED <<edits, flaps, call, recoveryVars, timers, chain, synced>>

PhaseChange(v) ==
  /\ obj[v].st = "live" /\ flaps < MaxFlaps
  /\ flaps' = flaps + 1
  /\ Change(v, [obj[v] EXCEPT !.spec.ready = ~@])
  /\ UNCHANGED <<edits, call, recoveryVars, timers, chain, synced>>

---------------------------------------------------------------------------

Admitted(o) == o.spec.interval \in Stored(o.kind, o.spec.source)

Init ==
  /\ obj \in [Volumes -> {o \in Objects : o.st = "live" /\ Admitted(o)}]
  /\ due = [v \in Volumes |-> TRUE]
  /\ call = [p \in Callers |-> Idle]
  /\ listed = {} /\ stage = IF Recovers THEN "svs" ELSE "done"
  /\ timers = [v \in Volumes |-> NoChain]
  /\ chain = [k \in Chains |-> Free]
  /\ synced = [v \in Volumes |-> NoSource]
  /\ edits = 0 /\ flaps = 0

Caller(p) == Start(p) \/ AlreadyRunning(p) \/ SafetyStop(p) \/ Arm(p) \/ Stop(p)

Reconciler(v) == Reconcile(v) \/ Release(v) \/ Caller(v)

Recoverer == RecoveryList \/ RecoveryStart \/ Caller(Recovery)

Run(k) == Fire(k) \/ Lookup(k) \/ Drop(k) \/ Trigger(k) \/ Rearm(k)

Environment(v) == UserEdit(v) \/ UserDelete(v) \/ PhaseChange(v)

Next == \/ \E v \in Volumes : Reconciler(v) \/ Environment(v)
        \/ Recoverer
        \/ \E k \in Chains : Run(k)

Spec == Init /\ [][Next]_vars

\* Goroutines keep running and timers that are not stopped fire.
LiveSpec ==
  /\ Spec
  /\ \A v \in Volumes : WF_vars(Reconciler(v))
  /\ WF_vars(Recoverer)
  /\ \A k \in Chains : WF_vars(Run(k))

---------------------------------------------------------------------------
\* Properties

\* Every variable has its type.
SyncTypeOK ==
  /\ obj \in [Volumes -> Objects]
  /\ due \in [Volumes -> BOOLEAN]
  /\ call \in [Callers -> [pc: {"idle", "start", "check", "clear", "arm", "stop", "release"},
                           vol: Volumes \cup {NoSource}, spec: Specs]]
  /\ listed \subseteq Volumes \X Specs
  /\ stage \in {"svs", "csvs", "done"}
  /\ timers \in [Volumes -> Chains \cup {NoChain}]
  /\ chain \in [Chains -> [st: {"free", "pending", "lookup", "drop", "sync", "rearm"},
                           vol: Volumes \cup {NoSource}, source: Sources \cup {NoSource}]]
  /\ synced \in [Volumes -> Sources \cup {NoSource}]
  /\ edits \in 0 .. MaxEdits /\ flaps \in 0 .. MaxFlaps

\* What is registered in syncTimers is a timer of that volume that is pending or whose
\* run is under way: startSyncCommon returns early on an entry, so a dead one would
\* keep a volume from ever being synced again.
RegisteredAlive ==
  \A v \in Volumes : timers[v] # NoChain =>
    chain[timers[v]].st # "free" /\ chain[timers[v]].vol = v

\* What callers and chains are at work on.
AtWork ==
  /\ \A p \in Callers : call[p].pc # "idle" =>
       call[p].vol \in Volumes /\ (p \in Volumes => call[p].vol = p)
  /\ \A p \in Callers : call[p].pc \in {"check", "clear", "arm"} =>
       call[p].spec.source \in Sources
  /\ \A k \in Chains : chain[k].st # "free" =>
       chain[k].vol \in Volumes /\ chain[k].source \in Sources

\* The inductive form of RegisteredAlive.
SyncInv == SyncTypeOK /\ AtWork /\ RegisteredAlive

ChainOf(k, v) == chain[k].st # "free" /\ chain[k].vol = v

\* Once a volume is gone its chains end for good, those too that a run in flight or the
\* recovery brought back after cleanup stopped them ("If volume doesn't exist, stop
\* sync operations and don't reschedule").
GoneStops ==
  \A v \in Volumes : obj[v].st = "gone" ~> [](\A k \in Chains : ~ChainOf(k, v))

\* Nobody is left who would start a volume.
Quiet(v) ==
  /\ obj[v].st = "gone"
  /\ \A e \in listed : e[1] # v
  /\ call[Recovery].vol # v \/ call[Recovery].pc = "idle"

\* It stays so: from when a volume is gone and the recovery through with it, no chain
\* of it begins any more, not by its namesakes either, whose run may keep old ones going
\* (startSyncCommon is reached from a reconcile of the volume and the recovery's list).
GoneStaysStopped ==
  [][\A v \in Volumes : Quiet(v) =>
       Quiet(v)' /\ \A k \in Chains : ChainOf(k, v)' => ChainOf(k, v)]_vars

\* It is to be synced, and at an interval that can be told.
Wanted(v) ==
  /\ obj[v].st = "live" /\ obj[v].spec.ready
  /\ obj[v].spec.source # NoSource /\ obj[v].spec.interval # "malformed"

Starting == {"start", "check", "clear", "arm"}

\* Somebody is at work on it.
Attended(v) ==
  \/ due[v]
  \/ call[v].pc \in Starting
  \/ call[Recovery].vol = v /\ call[Recovery].pc \in {"check", "clear", "arm"}
  \/ \E k \in Chains : ChainOf(k, v)

\* At no moment is a volume that is to be synced left alone: neither the early return
\* of startSyncCommon, nor a stop of one caller between the steps of another, nor a run
\* that ends takes away the last one at work on it, nor a start that fails for the
\* interval a ClusterSharedVolume had or has.  Where that of a SharedVolume is left to the
\* default or malformed for a while, it is not so: the recovery stops such a volume.
SyncAttended ==
  SharedStored \subseteq {"set"} => \A v \in Volumes : Wanted(v) => Attended(v)

\* A change makes its volume due, so that a caller not followed by another reconcile has
\* the volume as it is; the recovery starts nothing but what Start lets through; and only
\* runs of volumes that are gone are dropped.
CallsCurrent ==
  /\ \A v \in Volumes : ~due[v] =>
       /\ call[v].pc \in Starting => call[v].spec = Filled(obj[v].spec)
       /\ call[v].pc \in {"stop", "release"} => ~Wanted(v)
  /\ \A v \in Volumes : /\ call[v].pc = "release" => obj[v].st = "deleting"
                        /\ obj[v].st = "gone" => call[v] = Idle
                        /\ Admitted(obj[v])

Startable(v, spec) ==
  /\ spec.ready /\ spec.source # NoSource
  /\ obj[v].kind = "sv" => spec.interval \in SharedStored

RecoveryFit ==
  /\ \A e \in listed : Startable(e[1], e[2])
  /\ call[Recovery].pc \in Starting => Startable(call[Recovery].vol, call[Recovery].spec)
  /\ call[Recovery].pc \notin {"stop", "release"}

DropsGone == \A k \in Chains : chain[k].st = "drop" => obj[chain[k].vol].st = "gone"

\* The inductive form of SyncAttended.
AttendInv == CallsCurrent /\ RecoveryFit /\ DropsGone /\ SyncAttended

\* A Ready volume with a source is synced again and again, whatever order the
\* reconciler, the recovery and the runs come in; "resume sync operations after pod
\* restart" (RecoverSyncOperations).
KeepsSyncing ==
  \A v \in Volumes : Wanted(v) ~> (synced[v] # NoSource \/ ~Wanted(v))

\* The reconcile of the configuration a volume has now is over.
Settled(v, s) ==
  Wanted(v) /\ obj[v].spec.source = s /\ ~due[v] /\ call[v] = Idle

\* "Always stop existing sync operations first to ensure configuration changes are
\* picked up" (StartSyncForSharedVolume): once the new configuration is started, syncs
\* from the old one end.
OldConfigurationEnds ==
  \A v \in Volumes, s \in Sources :
    Settled(v, s) ~> \/ ~Settled(v, s)
                     \/ \A k \in Chains : ChainOf(k, v) => chain[k].source = s
===========================================================================
