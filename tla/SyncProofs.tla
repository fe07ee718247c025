---------------------------- MODULE SyncProofs ----------------------------
(***************************************************************************)
(* Proofs about SyncScheduler, for any number of volumes and chains, any   *)
(* sources and whatever intervals are stored: RegisteredAlive,             *)
(* SyncAttended and GoneStaysStopped, each from its inductive invariant.   *)
(***************************************************************************)
EXTENDS SyncScheduler, TLAPS

ChainStates == {"free", "pending", "lookup", "drop", "sync", "rearm"}

ChainType == [st: ChainStates, vol: Volumes \cup {NoSource}, source: Sources \cup {NoSource}]

CallType == [pc: {"idle", "start", "check", "clear", "arm", "stop", "release"},
             vol: Volumes \cup {NoSource}, spec: Specs]

\* What of the invariant is about the map and the chains.
MapInv ==
  /\ timers \in [Volumes -> Chains \cup {NoChain}]
  /\ chain \in [Chains -> ChainType]
  /\ \A k \in Chains : chain[k].st # "free" =>
       chain[k].vol \in Volumes /\ chain[k].source \in Sources
  /\ RegisteredAlive

\* What of it is about the callers.
CallInv ==
  /\ call \in [Callers -> CallType]
  /\ \A p \in Callers :
       /\ call[p].pc # "idle" => /\ call[p].vol \in Volumes
                                 /\ p \in Volumes => call[p].vol = p
       /\ call[p].pc \in {"check", "clear", "arm"} => call[p].spec.source \in Sources

\* And the rest, which only types constrain.
RestType ==
  /\ obj \in [Volumes -> Objects]
  /\ due \in [Volumes -> BOOLEAN]
  /\ listed \subseteq Volumes \X Specs
  /\ stage \in {"svs", "csvs", "done"}
  /\ synced \in [Volumes -> Sources \cup {NoSource}]
  /\ edits \in 0 .. MaxEdits /\ flaps \in 0 .. MaxFlaps

\* The three parts are the invariant.
LEMMA Parts == SyncInv <=> MapInv /\ CallInv /\ RestType
  BY DEF SyncInv, SyncTypeOK, AtWork, MapInv, CallInv, RestType, ChainType, CallType,
         ChainStates

\* And so they are of the next state.
LEMMA PartsNext == MapInv' /\ CallInv' /\ RestType' => SyncInv'
  BY DEF SyncInv, SyncTypeOK, AtWork, MapInv, CallInv, RestType, ChainType, CallType,
         ChainStates

\* The empty entries have their types.
LEMMA Empties == Idle \in CallType /\ Free \in ChainType /\ NoSpec \in Specs
  BY DEF Idle, Free, NoSpec, CallType, ChainType, ChainStates, Specs, Intervals

\* stopSyncTimer takes no timer of another volume away.
LEMMA StoppedMap ==
  ASSUME MapInv, NEW v \in Volumes, Stopped(v)
  PROVE  MapInv'
<1>1. timers' \in [Volumes -> Chains \cup {NoChain}]
  BY DEF MapInv, Stopped
<1>2. chain' \in [Chains -> ChainType]
  BY Empties DEF MapInv, Stopped
<1>3. \A k \in Chains : chain'[k] = chain[k] \/ chain'[k] = Free
  BY DEF Stopped
<1>4. \A k \in Chains : chain'[k].st # "free" =>
        chain'[k].vol \in Volumes /\ chain'[k].source \in Sources
  BY <1>3 DEF MapInv, Free
<1>5. ASSUME NEW w \in Volumes, timers'[w] # NoChain
      PROVE  chain'[timers'[w]].st # "free" /\ chain'[timers'[w]].vol = w
  <2>1. w # v /\ timers'[w] = timers[w]
    BY <1>5 DEF Stopped, MapInv
  <2>2. timers[w] \in Chains /\ chain[timers[w]].st # "free" /\ chain[timers[w]].vol = w
    BY <1>5, <2>1 DEF MapInv, RegisteredAlive
  <2>3. timers[v] # timers[w]
    BY <2>1, <2>2, SyncAssumption DEF MapInv, RegisteredAlive
  <2>4. chain'[timers[w]] = chain[timers[w]]
    BY <2>2, <2>3 DEF Stopped
  <2>5. QED
    BY <2>1, <2>2, <2>4
<1>6. QED
  BY <1>1, <1>2, <1>4, <1>5 DEF MapInv, RegisteredAlive

\* A run that goes on stays alive.
LEMMA MovedMap ==
  ASSUME MapInv, NEW k \in Chains, NEW from \in ChainStates \ {"free"},
         NEW to \in ChainStates \ {"free"}, MoveChain(k, from, to), UNCHANGED timers
  PROVE  MapInv'
<1>1. chain' \in [Chains -> ChainType]
  BY DEF MapInv, MoveChain, ChainType
<1>2. \A c \in Chains : /\ chain'[c].vol = chain[c].vol /\ chain'[c].source = chain[c].source
                        /\ chain'[c].st = IF c = k THEN to ELSE chain[c].st
  BY DEF MapInv, MoveChain, ChainType
<1>3. chain[k].st # "free"
  BY DEF MoveChain
<1>4. \A c \in Chains : chain'[c].st # "free" <=> chain[c].st # "free"
  BY <1>2, <1>3
<1>5. \A c \in Chains : chain'[c].st # "free" =>
        chain'[c].vol \in Volumes /\ chain'[c].source \in Sources
  BY <1>2, <1>4 DEF MapInv
<1>6. RegisteredAlive'
  BY <1>2, <1>4 DEF RegisteredAlive, MapInv
<1>7. QED
  BY <1>1, <1>5, <1>6 DEF MapInv

\* Moving on within Start leaves the call what it is for.
LEMMA GotoCall ==
  ASSUME CallInv, NEW p \in Callers, call[p].pc # "idle",
         NEW label \in {"check", "clear", "arm", "release"}, Goto(p, label),
         label # "release" => call[p].spec.source \in Sources
  PROVE  CallInv'
<1>1. call' \in [Callers -> CallType]
  BY DEF CallInv, Goto, CallType
<1>2. \A q \in Callers : /\ call'[q].vol = call[q].vol /\ call'[q].spec = call[q].spec
                         /\ call'[q].pc = IF q = p THEN label ELSE call[q].pc
  BY DEF CallInv, Goto, CallType
<1>3. QED
  BY <1>1, <1>2 DEF CallInv

\* Return from it.
LEMMA DoneCall ==
  ASSUME CallInv, NEW p \in Callers, Done(p)
  PROVE  CallInv'
<1>1. call' \in [Callers -> CallType]
  BY Empties DEF CallInv, Done
<1>2. \A q \in Callers : call'[q] = IF q = p THEN Idle ELSE call[q]
  BY DEF CallInv, Done
<1>3. QED
  BY <1>1, <1>2 DEF CallInv, Idle

\* A call is for a volume, by its own reconciler or by the recovery.
LEMMA NewCall ==
  ASSUME CallInv, NEW p \in Callers, NEW v \in Volumes, p \in Volumes => v = p,
         NEW label \in {"start", "stop"}, NEW spec \in Specs, Call(p, v, label, spec)
  PROVE  CallInv'
<1>1. call' \in [Callers -> CallType]
  BY DEF CallInv, Call, CallType
<1>2. \A q \in Callers : call'[q] = IF q = p THEN [pc |-> label, vol |-> v, spec |-> spec]
                                              ELSE call[q]
  BY DEF CallInv, Call
<1>3. QED
  BY <1>1, <1>2 DEF CallInv

\* Start and Stop of a caller keep the invariant (StartSyncForSharedVolume,
\* StartSyncForClusterSharedVolume, startSyncCommon, stopSyncTimer).
LEMMA CallerStep ==
  ASSUME SyncInv, NEW p \in Callers, Caller(p)
  PROVE  SyncInv'
<1>0. MapInv /\ CallInv /\ RestType
  BY Parts
<1>1. call[p].pc # "idle" /\ call[p].vol \in Volumes /\ call[p].spec \in Specs
  BY <1>0 DEF Caller, Start, AlreadyRunning, SafetyStop, Arm, Stop, CallInv, CallType
<1>2. RestType'
  BY <1>0 DEF Caller, Start, AlreadyRunning, SafetyStop, Arm, Stop, RestType, clusterVars,
              recoveryVars
<1>3. CASE Start(p)
  <2>1. MapInv'
    <3>1. Stopped(call[p].vol) \/ UNCHANGED <<timers, chain>>
      BY <1>3 DEF Start
    <3>2. CASE UNCHANGED <<timers, chain>>
      BY <1>0, <3>2 DEF MapInv, RegisteredAlive
    <3>3. QED
      BY <1>0, <1>1, <3>1, <3>2, StoppedMap
  <2>2. CallInv'
    <3>1. Done(p) \/ (call[p].spec.source # NoSource /\ Goto(p, "check"))
      BY <1>3 DEF Start
    <3>2. call[p].spec.source # NoSource => call[p].spec.source \in Sources
      BY <1>1 DEF Specs
    <3>3. QED
      BY <1>0, <1>1, <3>1, <3>2, DoneCall, GotoCall
  <2>3. QED
    BY <1>2, <2>1, <2>2, PartsNext
<1>4. CASE AlreadyRunning(p)
  <2>1. MapInv'
    BY <1>0, <1>4 DEF AlreadyRunning, MapInv, RegisteredAlive
  <2>2. Done(p) \/ Goto(p, "clear")
    BY <1>4 DEF AlreadyRunning
  <2>3. call[p].spec.source \in Sources
    BY <1>0, <1>4 DEF AlreadyRunning, CallInv
  <2>4. CallInv'
    BY <1>0, <1>1, <2>2, <2>3, DoneCall, GotoCall
  <2>5. QED
    BY <1>2, <2>1, <2>4, PartsNext
<1>5. CASE SafetyStop(p)
  <2>1. MapInv'
    BY <1>0, <1>1, <1>5, StoppedMap DEF SafetyStop
  <2>2. call[p].spec.source \in Sources /\ Goto(p, "arm")
    BY <1>0, <1>5 DEF SafetyStop, CallInv
  <2>3. CallInv'
    BY <1>0, <1>1, <2>2, GotoCall
  <2>4. QED
    BY <1>2, <2>1, <2>3, PartsNext
<1>6. CASE Arm(p)
  <2>1. CallInv'
    BY <1>0, <1>6, DoneCall DEF Arm
  <2>2. MapInv'
    <3> DEFINE v == call[p].vol
               new == [st |-> "pending", vol |-> v, source |-> call[p].spec.source]
    <3>1. PICK k \in FreeChains : /\ chain' = [chain EXCEPT ![k] = new]
                                  /\ timers' = [timers EXCEPT ![v] = k]
      BY <1>6 DEF Arm
    <3>2. k \in Chains /\ chain[k].st = "free"
      BY <3>1 DEF FreeChains, Free
    <3>3. v \in Volumes /\ call[p].spec.source \in Sources
      BY <1>0, <1>1, <1>6 DEF Arm, CallInv
    <3>4. new \in ChainType
      BY <3>3 DEF ChainType, ChainStates
    <3>5. chain' \in [Chains -> ChainType] /\ timers' \in [Volumes -> Chains \cup {NoChain}]
      BY <1>0, <3>1, <3>2, <3>4 DEF MapInv
    <3>6. \A c \in Chains : chain'[c] = IF c = k THEN new ELSE chain[c]
      BY <1>0, <3>1, <3>2 DEF MapInv
    <3>7. \A c \in Chains : chain'[c].st # "free" =>
            chain'[c].vol \in Volumes /\ chain'[c].source \in Sources
      BY <1>0, <3>3, <3>6 DEF MapInv
    <3>8. ASSUME NEW w \in Volumes, timers'[w] # NoChain
          PROVE  chain'[timers'[w]].st # "free" /\ chain'[timers'[w]].vol = w
      <4>1. CASE w = v
        BY <1>0, <3>1, <3>2, <3>3, <3>6, <4>1 DEF MapInv
      <4>2. CASE w # v
        <5>1. timers'[w] = timers[w] /\ timers[w] \in Chains
          BY <1>0, <3>1, <3>8, <4>2 DEF MapInv
        <5>2. chain[timers[w]].st # "free" /\ chain[timers[w]].vol = w
          BY <1>0, <3>8, <5>1 DEF MapInv, RegisteredAlive
        <5>3. QED
          BY <3>2, <3>6, <5>1, <5>2
      <4>3. QED
        BY <4>1, <4>2
    <3>9. QED
      BY <3>5, <3>7, <3>8 DEF MapInv, RegisteredAlive
  <2>3. QED
    BY <1>2, <2>1, <2>2, PartsNext
<1>7. CASE Stop(p)
  <2>1. MapInv'
    BY <1>0, <1>1, <1>7, StoppedMap DEF Stop
  <2>2. Goto(p, "release") \/ Done(p)
    BY <1>7 DEF Stop
  <2>3. CallInv'
    BY <1>0, <1>1, <2>2, DoneCall, GotoCall
  <2>4. QED
    BY <1>2, <2>1, <2>3, PartsNext
<1>8. QED
  BY <1>3, <1>4, <1>5, <1>6, <1>7 DEF Caller

\* The reconcilers make calls for their volumes (ReconcileNfsServerComplete,
\* CleanupResourcesInNamespace).
LEMMA ReconcilerCalls ==
  ASSUME SyncInv, NEW v \in Volumes, Reconcile(v) \/ Release(v)
  PROVE  SyncInv'
<1>0. MapInv /\ CallInv /\ RestType /\ v \in Callers
  BY Parts DEF Callers
<1>1. MapInv'
  BY <1>0 DEF Reconcile, Release, MapInv, RegisteredAlive
<1>2. obj[v] \in Objects
  BY <1>0 DEF RestType
<1>3. obj[v].spec \in Specs
  BY <1>2 DEF Objects
<1>4. Filled(obj[v].spec) \in Specs
  BY <1>3 DEF Filled, Specs, Intervals
<1>5. CASE Reconcile(v)
  <2>1. CallInv'
    <3>1. \/ UNCHANGED call
          \/ Call(v, v, "start", Filled(obj[v].spec))
          \/ Call(v, v, "stop", obj[v].spec)
      BY <1>5 DEF Reconcile
    <3>2. CASE UNCHANGED call
      BY <1>0, <3>2 DEF CallInv
    <3>3. QED
      BY <1>0, <1>3, <1>4, <3>1, <3>2, NewCall
  <2>2. RestType'
    BY <1>0, <1>5 DEF Reconcile, RestType, recoveryVars
  <2>3. QED
    BY <1>1, <2>1, <2>2, PartsNext
<1>6. CASE Release(v)
  <2>1. CallInv'
    BY <1>0, <1>6, DoneCall DEF Release
  <2>2. RestType'
    BY <1>0, <1>6 DEF Release, RestType, recoveryVars, Objects
  <2>3. QED
    BY <1>1, <2>1, <2>2, PartsNext
<1>7. QED
  BY <1>5, <1>6

\* The recovery makes them for the volumes it has listed (RecoverSyncOperations).
LEMMA RecoveryCalls ==
  ASSUME SyncInv, RecoveryList \/ RecoveryStart
  PROVE  SyncInv'
<1>0. MapInv /\ CallInv /\ RestType /\ Recovery \in Callers
  BY Parts DEF Callers
<1>1. MapInv'
  BY <1>0 DEF RecoveryList, RecoveryStart, MapInv, RegisteredAlive
<1>2. CASE RecoveryList
  <2>1. CallInv'
    BY <1>0, <1>2 DEF RecoveryList, CallInv
  <2>3. \A w \in Volumes : obj[w].spec \in Specs
    BY <1>0 DEF RestType, Objects
  <2>4. listed' \subseteq Volumes \X Specs
    BY <1>2, <2>3 DEF RecoveryList
  <2>5. stage' \in {"svs", "csvs", "done"}
    BY <1>0, <1>2 DEF RecoveryList, RestType, NextStage
  <2>6. RestType'
    BY <1>0, <1>2, <2>4, <2>5 DEF RecoveryList, RestType, clusterVars
  <2>7. QED
    BY <1>1, <2>1, <2>6, PartsNext
<1>3. CASE RecoveryStart
  <2>1. PICK e \in listed : listed' = listed \ {e} /\ Call(Recovery, e[1], "start", e[2])
    BY <1>3 DEF RecoveryStart
  <2>2. e[1] \in Volumes /\ e[2] \in Specs
    BY <1>0, <2>1 DEF RestType
  <2>3. CallInv'
    BY <1>0, <2>1, <2>2, NewCall, SyncAssumption
  <2>4. RestType'
    BY <1>0, <1>3, <2>1 DEF RecoveryStart, RestType, clusterVars
  <2>5. QED
    BY <1>1, <2>3, <2>4, PartsNext
<1>4. QED
  BY <1>2, <1>3

\* Runs of timers keep the invariant (scheduledSyncCommon): one that ends takes its
\* entry with it, one that goes on registers itself.
LEMMA RunStep ==
  ASSUME SyncInv, NEW k \in Chains, Run(k)
  PROVE  SyncInv'
<1>0. MapInv /\ CallInv /\ RestType
  BY Parts
<1>1. CallInv'
  BY <1>0 DEF Run, Fire, Lookup, Drop, Trigger, Rearm, CallInv
<1>2. chain[k].st # "free" /\ chain[k].vol \in Volumes /\ chain[k].source \in Sources
  BY <1>0 DEF Run, Fire, Lookup, Drop, Trigger, Rearm, MoveChain, MapInv
<1>3. RestType'
  BY <1>0, <1>2 DEF Run, Fire, Lookup, Drop, Trigger, Rearm, RestType, clusterVars, recoveryVars
<1>4. CASE Fire(k) \/ Lookup(k) \/ Trigger(k)
  <2>1. \E from, to \in ChainStates \ {"free"} : MoveChain(k, from, to)
    BY <1>4 DEF Fire, Lookup, Trigger, ChainStates
  <2>2. UNCHANGED timers
    BY <1>4 DEF Fire, Lookup, Trigger
  <2>3. MapInv'
    BY <1>0, <2>1, <2>2, MovedMap
  <2>4. QED
    BY <1>1, <1>3, <2>3, PartsNext
<1>5. CASE Drop(k)
  <2> DEFINE v == chain[k].vol
  <2>1. \A c \in Chains : chain'[c] = Free \/ (c # k /\ chain'[c] = chain[c])
    BY <1>5 DEF Drop
  <2>2. timers' = [timers EXCEPT ![v] = NoChain]
    BY <1>5 DEF Drop
  <2>3. chain' \in [Chains -> ChainType] /\ timers' \in [Volumes -> Chains \cup {NoChain}]
    BY <1>0, <1>5, <2>2, Empties DEF Drop, MapInv
  <2>4. \A c \in Chains : chain'[c].st # "free" =>
          chain'[c].vol \in Volumes /\ chain'[c].source \in Sources
    BY <1>0, <2>1 DEF MapInv, Free
  <2>5. ASSUME NEW w \in Volumes, timers'[w] # NoChain
        PROVE  chain'[timers'[w]].st # "free" /\ chain'[timers'[w]].vol = w
    <3>1. w # v /\ timers'[w] = timers[w]
      BY <1>0, <2>2, <2>5 DEF MapInv
    <3>2. timers[w] \in Chains /\ chain[timers[w]].st # "free" /\ chain[timers[w]].vol = w
      BY <1>0, <2>5, <3>1 DEF MapInv, RegisteredAlive
    <3>3. timers[w] # k /\ timers[w] # timers[v]
      BY <1>0, <1>2, <3>1, <3>2, SyncAssumption DEF MapInv, RegisteredAlive
    <3>4. chain'[timers[w]] = chain[timers[w]]
      BY <1>5, <3>2, <3>3 DEF Drop
    <3>5. QED
      BY <3>1, <3>2, <3>4
  <2>6. MapInv'
    BY <2>3, <2>4, <2>5 DEF MapInv, RegisteredAlive
  <2>7. QED
    BY <1>1, <1>3, <2>6, PartsNext
<1>6. CASE Rearm(k)
  <2> DEFINE v == chain[k].vol
  <2>1. timers' = [timers EXCEPT ![v] = k] /\ MoveChain(k, "rearm", "pending")
    BY <1>6 DEF Rearm
  <2>2. chain' \in [Chains -> ChainType] /\ timers' \in [Volumes -> Chains \cup {NoChain}]
    BY <1>0, <2>1 DEF MapInv, MoveChain, ChainType, ChainStates
  <2>3. \A c \in Chains : /\ chain'[c].vol = chain[c].vol /\ chain'[c].source = chain[c].source
                          /\ chain'[c].st # "free" <=> chain[c].st # "free"
    BY <1>0, <1>2, <2>1 DEF MapInv, MoveChain, ChainType
  <2>4. \A c \in Chains : chain'[c].st # "free" =>
          chain'[c].vol \in Volumes /\ chain'[c].source \in Sources
    BY <1>0, <2>3 DEF MapInv
  <2>5. ASSUME NEW w \in Volumes, timers'[w] # NoChain
        PROVE  chain'[timers'[w]].st # "free" /\ chain'[timers'[w]].vol = w
    <3>1. CASE w = v
      BY <1>0, <1>2, <2>1, <2>3, <3>1 DEF MapInv
    <3>2. CASE w # v
      BY <1>0, <2>1, <2>3, <2>5, <3>2 DEF MapInv, RegisteredAlive
    <3>3. QED
      BY <3>1, <3>2
  <2>6. MapInv'
    BY <2>2, <2>4, <2>5 DEF MapInv, RegisteredAlive
  <2>7. QED
    BY <1>1, <1>3, <2>6, PartsNext
<1>7. QED
  BY <1>4, <1>5, <1>6 DEF Run

\* Edits, deletion and changes of phase only enqueue the volume.
LEMMA EnvironmentStep ==
  ASSUME SyncInv, NEW v \in Volumes, Environment(v)
  PROVE  SyncInv'
<1>0. MapInv /\ CallInv /\ RestType
  BY Parts
<1>1. MapInv' /\ CallInv'
  BY <1>0 DEF Environment, UserEdit, UserDelete, PhaseChange, MapInv, RegisteredAlive, CallInv
<1>2. due' \in [Volumes -> BOOLEAN]
  BY <1>0 DEF Environment, UserEdit, UserDelete, PhaseChange, Change, RestType
<1>3. obj' \in [Volumes -> Objects]
  <2>1. \A o : o \in Objects /\ Change(v, o) => obj' \in [Volumes -> Objects]
    BY <1>0 DEF Change, RestType
  <2>2. obj[v] \in Objects
    BY <1>0 DEF RestType
  <2>3. CASE UserEdit(v)
    <3>1. PICK s \in Sources \cup {NoSource}, i \in Intervals :
            Change(v, [obj[v] EXCEPT !.spec.source = s, !.spec.interval = i])
      BY <2>3, SyncAssumption DEF UserEdit, Stored, Intervals
    <3>2. [obj[v] EXCEPT !.spec.source = s, !.spec.interval = i] \in Objects
      BY <2>2, <3>1 DEF Objects, Specs
    <3>3. QED
      BY <2>1, <3>1, <3>2
  <2>4. CASE UserDelete(v)
    BY <2>1, <2>2, <2>4 DEF UserDelete, Objects
  <2>5. CASE PhaseChange(v)
    <3>1. [obj[v] EXCEPT !.spec.ready = ~@] \in Objects
      BY <2>2 DEF Objects, Specs
    <3>2. QED
      BY <2>1, <2>5, <3>1 DEF PhaseChange
  <2>6. QED
    BY <2>3, <2>4, <2>5 DEF Environment
<1>4. edits' \in 0 .. MaxEdits /\ flaps' \in 0 .. MaxFlaps
  <2>1. edits \in Nat /\ flaps \in Nat /\ edits <= MaxEdits /\ flaps <= MaxFlaps
    BY <1>0, SyncAssumption DEF RestType
  <2>2. \/ edits < MaxEdits /\ edits' = edits + 1 /\ flaps' = flaps
        \/ edits' = edits /\ flaps' = flaps
        \/ flaps < MaxFlaps /\ flaps' = flaps + 1 /\ edits' = edits
    BY DEF Environment, UserEdit, UserDelete, PhaseChange
  <2>3. QED
    BY <2>1, <2>2, SyncAssumption
<1>5. RestType'
  BY <1>0, <1>2, <1>3, <1>4
     DEF RestType, Environment, UserEdit, UserDelete, PhaseChange, recoveryVars
<1>6. QED
  BY <1>1, <1>5, PartsNext

\* A process that starts has no timer.
LEMMA SyncInitial == Init => SyncInv
<1> SUFFICES ASSUME Init PROVE SyncInv
  OBVIOUS
<1>1. MapInv
  BY Empties DEF Init, MapInv, RegisteredAlive, Free
<1>2. CallInv
  BY Empties DEF Init, CallInv, Idle
<1>3. obj \in [Volumes -> Objects]
  BY SyncAssumption DEF Init, Objects, Specs
<1>4. RestType
  BY <1>3, SyncAssumption DEF Init, RestType
<1>5. QED
  BY <1>1, <1>2, <1>4, Parts

\* Every step keeps the invariant.
LEMMA SyncStep == SyncInv /\ [Next]_vars => SyncInv'
<1> SUFFICES ASSUME SyncInv, [Next]_vars PROVE SyncInv'
  OBVIOUS
<1>1. CASE UNCHANGED vars
  BY <1>1 DEF vars, SyncInv, SyncTypeOK, AtWork, RegisteredAlive
<1>2. ASSUME NEW v \in Volumes, Reconciler(v) \/ Environment(v)
      PROVE  SyncInv'
  <2>1. v \in Callers
    BY DEF Callers
  <2>2. QED
    BY <1>2, <2>1, CallerStep, ReconcilerCalls, EnvironmentStep DEF Reconciler
<1>3. ASSUME Recoverer
      PROVE  SyncInv'
  <2>1. CASE Caller(Recovery)
    BY <2>1, CallerStep DEF Callers
  <2>2. CASE RecoveryList \/ RecoveryStart
    BY <2>2, RecoveryCalls
  <2>3. QED
    BY <1>3, <2>1, <2>2 DEF Recoverer
<1>4. QED
  BY <1>1, <1>2, <1>3, RunStep DEF Next

\* The SyncController keeps its map and its chains in order, however its callers, the
\* recovery and the runs interleave.
THEOREM SyncInvariant == Spec => []SyncInv
<1>1. QED
  BY SyncInitial, SyncStep, PTL DEF Spec

\* What is registered in syncTimers is alive: startSyncCommon never returns early
\* because of a timer that will not fire again.
THEOREM RegistrationsAlive == Spec => []RegisteredAlive
<1>1. SyncInv => RegisteredAlive
  BY DEF SyncInv
<1>2. QED
  BY <1>1, SyncInvariant, PTL

---------------------------------------------------------------------------
\* Nobody who is to be synced is left alone

\* stopSyncTimer ends no chain of another volume.
LEMMA StoppedOthers ==
  ASSUME MapInv, NEW v \in Volumes, NEW w \in Volumes \ {v}, Stopped(v),
         NEW k \in Chains, ChainOf(k, w)
  PROVE  ChainOf(k, w)'
<1>1. timers[v] # k
  BY SyncAssumption DEF MapInv, RegisteredAlive, ChainOf
<1>2. chain'[k] = chain[k]
  BY <1>1 DEF Stopped
<1> QED
  BY <1>2 DEF ChainOf

\* Where a step of Start or Stop leaves its caller and the others.
LEMMA CallerMoves ==
  ASSUME SyncInv, NEW p \in Callers, Caller(p)
  PROVE  /\ UNCHANGED <<clusterVars, recoveryVars>>
         /\ \A q \in Callers \ {p} : call'[q] = call[q]
         /\ \/ call'[p] = Idle
            \/ /\ call'[p].vol = call[p].vol /\ call'[p].spec = call[p].spec
               /\ \/ call[p].pc \in Starting /\ call'[p].pc \in Starting
                  \/ /\ call[p].pc = "stop" /\ call'[p].pc = "release"
                     /\ obj[call[p].vol].st = "deleting"
<1>1. call \in [Callers -> CallType]
  BY DEF SyncInv, SyncTypeOK, CallType
<1>2. UNCHANGED <<clusterVars, recoveryVars>>
  BY DEF Caller, Start, AlreadyRunning, SafetyStop, Arm, Stop
<1>3. \/ Done(p)
      \/ call[p].pc \in Starting /\ \E label \in Starting : Goto(p, label)
      \/ call[p].pc = "stop" /\ Goto(p, "release") /\ obj[call[p].vol].st = "deleting"
  BY DEF Caller, Start, AlreadyRunning, SafetyStop, Arm, Stop, Starting
<1>4. Done(p) => call'[p] = Idle /\ \A q \in Callers \ {p} : call'[q] = call[q]
  BY <1>1 DEF Done
<1>5. \A label : Goto(p, label) => /\ call'[p].vol = call[p].vol /\ call'[p].spec = call[p].spec
                                   /\ call'[p].pc = label
                                   /\ \A q \in Callers \ {p} : call'[q] = call[q]
  BY <1>1 DEF Goto, CallType
<1> QED
  BY <1>2, <1>3, <1>4, <1>5

LEMMA CallerAttend ==
  ASSUME SyncInv, AttendInv, NEW p \in Callers, Caller(p)
  PROVE  AttendInv'
<1>0. /\ MapInv /\ CallInv /\ call[p].pc # "idle" /\ call[p].vol \in Volumes
      /\ p # Recovery => p \in Volumes /\ call[p].vol = p
      /\ \A v \in Volumes : v # Recovery /\ v \in Callers
      /\ Recovery \in Callers
  <2>1. MapInv /\ CallInv /\ call[p].pc # "idle"
    BY Parts DEF Caller, Start, AlreadyRunning, SafetyStop, Arm, Stop
  <2> QED
    BY <2>1, SyncAssumption DEF CallInv, Callers
<1>1. /\ UNCHANGED <<clusterVars, recoveryVars>>
      /\ \A q \in Callers \ {p} : call'[q] = call[q]
      /\ \/ call'[p] = Idle
         \/ /\ call'[p].vol = call[p].vol /\ call'[p].spec = call[p].spec
            /\ \/ call[p].pc \in Starting /\ call'[p].pc \in Starting
               \/ /\ call[p].pc = "stop" /\ call'[p].pc = "release"
                  /\ obj[call[p].vol].st = "deleting"
  BY CallerMoves
<1>2. CallsCurrent'
  <2>1. UNCHANGED <<obj, due>> /\ \A v \in Volumes : Wanted(v)' <=> Wanted(v)
    BY <1>1 DEF clusterVars, Wanted
  <2>2. ASSUME NEW v \in Volumes, ~due[v]
        PROVE  /\ call'[v].pc \in Starting => call'[v].spec = Filled(obj[v].spec)
               /\ call'[v].pc \in {"stop", "release"} => ~Wanted(v)
    BY <1>0, <1>1, <2>2 DEF AttendInv, CallsCurrent, Idle, Starting
  <2>3. ASSUME NEW v \in Volumes
        PROVE  /\ call'[v].pc = "release" => obj[v].st = "deleting"
               /\ obj[v].st = "gone" => call'[v] = Idle
    BY <1>0, <1>1 DEF AttendInv, CallsCurrent, Idle, Starting
  <2> QED
    BY <2>1, <2>2, <2>3 DEF AttendInv, CallsCurrent, Admitted
<1>3. RecoveryFit'
  <2>1. UNCHANGED <<obj, listed>> /\ \A v, spec : Startable(v, spec)' <=> Startable(v, spec)
    BY <1>1 DEF clusterVars, recoveryVars, Startable
  <2>2. /\ call'[Recovery].pc \in Starting =>
             Startable(call'[Recovery].vol, call'[Recovery].spec)
        /\ call'[Recovery].pc \notin {"stop", "release"}
    BY <1>0, <1>1 DEF AttendInv, RecoveryFit, Idle, Starting
  <2>3. \A e \in listed : Startable(e[1], e[2])
    BY DEF AttendInv, RecoveryFit
  <2> QED
    BY <2>1, <2>2, <2>3 DEF RecoveryFit, Startable
<1>4. DropsGone'
  <2>1. \A k \in Chains : chain'[k] = chain[k] \/ chain'[k].st # "drop"
    <3>1. CASE Stopped(call[p].vol)
      BY <3>1 DEF Stopped, Free
    <3>2. CASE UNCHANGED chain
      BY <3>2
    <3>3. CASE Arm(p)
      BY <1>0, <3>3 DEF Arm, MapInv
    <3> QED
      BY <3>1, <3>2, <3>3 DEF Caller, Start, AlreadyRunning, SafetyStop, Stop
  <2> QED
    BY <1>1, <2>1 DEF clusterVars, AttendInv, DropsGone
<1>5. ASSUME SharedStored \subseteq {"set"}, NEW v \in Volumes, Wanted(v), ~due[v]
      PROVE  Attended(v)'
  <2>1. Attended(v)
    BY <1>5 DEF AttendInv, SyncAttended
  <2>2. CASE call[p].vol # v
    <3>1. \A k \in Chains : ChainOf(k, v) => ChainOf(k, v)'
      <4>1. CASE Stopped(call[p].vol)
        BY <1>0, <2>2, <4>1, StoppedOthers
      <4>2. CASE UNCHANGED chain
        BY <4>2 DEF ChainOf
      <4>3. CASE Arm(p)
        BY <1>0, <4>3 DEF Arm, FreeChains, Free, ChainOf, MapInv
      <4> QED
        BY <4>1, <4>2, <4>3 DEF Caller, Start, AlreadyRunning, SafetyStop, Stop
    <3>2. call'[v] = call[v] /\ (p # Recovery => call'[Recovery] = call[Recovery])
      BY <1>0, <1>1, <2>2
    <3> QED
      BY <1>5, <2>1, <2>2, <3>1, <3>2 DEF Attended
  <2>3. CASE call[p].vol = v
    <3>1. \/ p = v /\ (call[p].pc \in Starting => call[p].spec = Filled(obj[v].spec))
          \/ p = Recovery /\ (call[p].pc \in Starting => Startable(v, call[p].spec))
      BY <1>0, <1>5, <2>3 DEF AttendInv, CallsCurrent, RecoveryFit
    <3>2. call[p].pc # "stop"
      BY <1>0, <1>5, <2>3 DEF AttendInv, CallsCurrent, RecoveryFit
    <3>3. \A label \in {"check", "clear", "arm"} : Goto(p, label) => Attended(v)'
      BY <1>0, <2>3, <3>1 DEF Goto, Attended, CallInv, CallType, Starting
    <3>4. CASE Start(p)
      <4>1. call[p].spec.source # NoSource /\ (obj[v].kind = "sv" => call[p].spec.ready)
        BY <1>0, <1>5, <3>1, <3>4 DEF Start, Starting, Startable, Wanted, Filled, SyncInv,
           SyncTypeOK, Objects, Specs
      <4>2. CASE Parses(call[p].spec)
        BY <2>3, <3>3, <3>4, <4>1, <4>2 DEF Start
      <4>3. CASE ~Parses(call[p].spec)
        <5>1. p = Recovery /\ obj[v].kind = "csv" /\ UNCHANGED chain
          <6>1. obj[v].kind \in VolumeKinds /\ obj[v].spec \in Specs
            BY DEF SyncInv, SyncTypeOK, Objects
          <6>2. call[p].spec # Filled(obj[v].spec)
            BY <1>5, <4>3, <6>1 DEF Filled, Specs, Wanted, Parses, Intervals
          <6>3. p = Recovery /\ Startable(v, call[p].spec)
            BY <3>1, <3>4, <6>2 DEF Start, Starting
          <6>4. obj[v].kind = "csv"
            BY <1>5, <4>3, <6>1, <6>3 DEF Startable, VolumeKinds, Parses
          <6> QED
            BY <2>3, <3>4, <4>1, <4>3, <6>3, <6>4 DEF Start
        <5>2. call[Recovery].pc = "start" /\ call'[v] = call[v]
          BY <1>0, <1>1, <3>4, <5>1 DEF Start
        <5> QED
          BY <1>5, <2>1, <5>1, <5>2 DEF Attended, ChainOf
      <4> QED
        BY <4>2, <4>3
    <3>5. CASE AlreadyRunning(p)
      <4>1. CASE timers[v] # NoChain
        <5>1. timers[v] \in Chains /\ ChainOf(timers[v], v) /\ UNCHANGED chain
          BY <1>0, <3>5, <4>1 DEF MapInv, RegisteredAlive, ChainOf, AlreadyRunning
        <5> QED
          BY <5>1 DEF Attended, ChainOf
      <4>2. CASE timers[v] = NoChain
        BY <2>3, <3>3, <3>5, <4>2 DEF AlreadyRunning
      <4> QED
        BY <4>1, <4>2
    <3>6. CASE SafetyStop(p)
      BY <3>3, <3>6 DEF SafetyStop
    <3>7. CASE Arm(p)
      <4>1. PICK k \in FreeChains : chain' = [chain EXCEPT ![k] =
                [st |-> "pending", vol |-> v, source |-> call[p].spec.source]]
        BY <2>3, <3>7 DEF Arm
      <4>2. k \in Chains /\ chain'[k].st = "pending" /\ chain'[k].vol = v
        BY <1>0, <4>1 DEF FreeChains, MapInv
      <4> QED
        BY <4>2 DEF Attended, ChainOf
    <3> QED
      BY <3>2, <3>4, <3>5, <3>6, <3>7 DEF Caller, Stop
  <2> QED
    BY <2>2, <2>3
<1>6. SyncAttended'
  <2>1. UNCHANGED <<obj, due>>
    BY <1>1 DEF clusterVars
  <2>2. ASSUME SharedStored \subseteq {"set"}, NEW v \in Volumes, Wanted(v)'
        PROVE  Attended(v)'
    BY <1>5, <2>1, <2>2 DEF Wanted, Attended
  <2> QED
    BY <2>2 DEF SyncAttended
<1> QED
  BY <1>2, <1>3, <1>4, <1>6 DEF AttendInv

\* A run goes on with what is wanted, and ends of what is gone.
LEMMA RunAttend ==
  ASSUME SyncInv, AttendInv, NEW k \in Chains, Run(k)
  PROVE  AttendInv'
<1>0. MapInv /\ UNCHANGED <<obj, due, call, listed>>
  BY Parts DEF Run, Fire, Lookup, Drop, Trigger, Rearm, clusterVars, recoveryVars
<1>1. CallsCurrent' /\ RecoveryFit'
  BY <1>0 DEF AttendInv, CallsCurrent, RecoveryFit, Startable, Wanted, Admitted
<1>2. CASE \E from, to : MoveChain(k, from, to) /\ from # "free" /\ to # "free"
                         /\ (to = "drop" => obj[chain[k].vol].st = "gone")
  <2>1. PICK from, to : /\ MoveChain(k, from, to) /\ from # "free" /\ to # "free"
                        /\ to = "drop" => obj[chain[k].vol].st = "gone"
    BY <1>2
  <2>2. \A c \in Chains : /\ chain'[c].vol = chain[c].vol
                          /\ chain'[c].st = IF c = k THEN to ELSE chain[c].st
    BY <1>0, <2>1 DEF MoveChain, MapInv, ChainType
  <2>3. DropsGone'
    BY <1>0, <2>1, <2>2 DEF AttendInv, DropsGone
  <2>4. chain[k].st # "free"
    BY <2>1 DEF MoveChain
  <2>5. \A c \in Chains, v \in Volumes : ChainOf(c, v) => ChainOf(c, v)'
    BY <2>1, <2>2, <2>4 DEF ChainOf
  <2>6. SyncAttended'
    <3> SUFFICES ASSUME SharedStored \subseteq {"set"}, NEW v \in Volumes, Wanted(v)
                 PROVE  Attended(v)'
      BY <1>0 DEF SyncAttended, Wanted
    <3>1. Attended(v)
      BY DEF AttendInv, SyncAttended
    <3> QED
      BY <1>0, <2>5, <3>1 DEF Attended
  <2> QED
    BY <1>1, <2>3, <2>6 DEF AttendInv
<1>3. CASE Drop(k)
  <2> DEFINE gone == chain[k].vol
  <2>1. gone \in Volumes /\ obj[gone].st = "gone"
    BY <1>0, <1>3 DEF Drop, MapInv, AttendInv, DropsGone
  <2>2. \A c \in Chains : chain'[c] = chain[c] \/ chain'[c] = Free
    BY <1>3 DEF Drop
  <2>3. DropsGone'
    BY <1>0, <2>2 DEF AttendInv, DropsGone, Free
  <2>4. ASSUME NEW v \in Volumes, Wanted(v), NEW c \in Chains, ChainOf(c, v)
        PROVE  ChainOf(c, v)'
    <3>1. v # gone /\ c # k
      BY <2>1, <2>4 DEF Wanted, ChainOf
    <3>2. timers[gone] # c
      BY <1>0, <2>1, <2>4, <3>1, SyncAssumption DEF MapInv, RegisteredAlive, ChainOf
    <3>3. chain'[c] = chain[c]
      BY <1>3, <3>1, <3>2 DEF Drop
    <3> QED
      BY <2>4, <3>3 DEF ChainOf
  <2>5. SyncAttended'
    <3> SUFFICES ASSUME SharedStored \subseteq {"set"}, NEW v \in Volumes, Wanted(v)
                 PROVE  Attended(v)'
      BY <1>0 DEF SyncAttended, Wanted
    <3>1. Attended(v)
      BY DEF AttendInv, SyncAttended
    <3> QED
      BY <1>0, <2>4, <3>1 DEF Attended
  <2> QED
    BY <1>1, <2>3, <2>5 DEF AttendInv
<1>4. Fire(k) \/ Lookup(k) \/ Trigger(k) \/ Rearm(k) =>
        \E from, to : MoveChain(k, from, to) /\ from # "free" /\ to # "free"
                      /\ (to = "drop" => obj[chain[k].vol].st = "gone")
  <2>1. Fire(k) => MoveChain(k, "pending", "lookup")
    BY DEF Fire
  <2>2. Trigger(k) => MoveChain(k, "sync", "rearm")
    BY DEF Trigger
  <2>3. Rearm(k) => MoveChain(k, "rearm", "pending")
    BY DEF Rearm
  <2>4. Lookup(k) => \/ MoveChain(k, "lookup", "sync")
                     \/ MoveChain(k, "lookup", "drop") /\ obj[chain[k].vol].st = "gone"
    BY DEF Lookup, Found
  <2> QED
    BY <2>1, <2>2, <2>3, <2>4
<1> QED
  BY <1>2, <1>3, <1>4 DEF Run

\* A change makes the volume due and touches no other.
LEMMA ChangeAttend ==
  ASSUME SyncInv, AttendInv, NEW v \in Volumes, obj[v].st = "live", NEW o \in Objects,
         o.kind = obj[v].kind, o.st # "gone", Admitted(o), Change(v, o),
         UNCHANGED <<call, listed, timers, chain>>
  PROVE  AttendInv'
<1>1. /\ obj'[v] = o /\ due'[v] = TRUE
      /\ \A w \in Volumes \ {v} : obj'[w] = obj[w] /\ due'[w] = due[w]
      /\ \A w \in Volumes : obj'[w].kind = obj[w].kind
  BY DEF Change, SyncInv, SyncTypeOK
<1>2. /\ \A w \in Volumes \ {v} : Wanted(w)' <=> Wanted(w)
      /\ \A w \in Volumes : Attended(w) => Attended(w)'
      /\ Attended(v)'
  BY <1>1 DEF Wanted, Attended, ChainOf
<1>3. CallsCurrent'
  BY <1>1, <1>2 DEF AttendInv, CallsCurrent, Admitted
<1>4. RecoveryFit'
  <2>1. \A e \in listed : e[1] \in Volumes
    BY DEF SyncInv, SyncTypeOK
  <2>2. call[Recovery].pc \in Starting => call[Recovery].vol \in Volumes
    BY DEF SyncInv, AtWork, Callers, Starting
  <2> QED
    BY <1>1, <2>1, <2>2 DEF AttendInv, RecoveryFit, Startable
<1>5. DropsGone'
  <2>1. \A k \in Chains : chain[k].st = "drop" => chain[k].vol \in Volumes
    BY DEF SyncInv, AtWork
  <2> QED
    BY <1>1, <2>1 DEF AttendInv, DropsGone
<1>6. SyncAttended'
  BY <1>2 DEF AttendInv, SyncAttended
<1> QED
  BY <1>3, <1>4, <1>5, <1>6 DEF AttendInv

LEMMA EnvironmentAttend ==
  ASSUME SyncInv, AttendInv, NEW v \in Volumes, Environment(v)
  PROVE  AttendInv'
<1>1. obj[v] \in Objects /\ Admitted(obj[v])
  BY DEF SyncInv, SyncTypeOK, AttendInv, CallsCurrent
<1>2. UNCHANGED <<call, listed, timers, chain>> /\ obj[v].st = "live"
  BY DEF Environment, UserEdit, UserDelete, PhaseChange, recoveryVars
<1>3. CASE UserEdit(v)
  <2>1. PICK s \in Sources \cup {NoSource} : \E i \in Stored(obj[v].kind, s) :
          Change(v, [obj[v] EXCEPT !.spec.source = s, !.spec.interval = i])
    BY <1>3 DEF UserEdit
  <2>2. PICK i \in Stored(obj[v].kind, s) :
          Change(v, [obj[v] EXCEPT !.spec.source = s, !.spec.interval = i])
    BY <2>1
  <2> DEFINE o == [obj[v] EXCEPT !.spec.source = s, !.spec.interval = i]
  <2>3. i \in Intervals
    BY SyncAssumption DEF Stored, Intervals
  <2>4. /\ o \in Objects /\ o.kind = obj[v].kind /\ o.st = obj[v].st
        /\ o.spec.interval = i /\ o.spec.source = s
    BY <1>1, <2>3 DEF Objects, Specs
  <2>5. Admitted(o)
    BY <2>2, <2>4 DEF Admitted
  <2> QED
    BY <1>2, <2>2, <2>4, <2>5, ChangeAttend
<1>4. CASE UserDelete(v)
  <2> DEFINE o == [obj[v] EXCEPT !.st = "deleting"]
  <2>1. o \in Objects /\ o.kind = obj[v].kind /\ o.st = "deleting" /\ Admitted(o)
    BY <1>1 DEF Objects, Admitted
  <2>2. Change(v, o)
    BY <1>4 DEF UserDelete
  <2> HIDE DEF o
  <2> QED
    BY <1>1, <1>2, <2>1, <2>2, ChangeAttend
<1>5. CASE PhaseChange(v)
  <2> DEFINE o == [obj[v] EXCEPT !.spec.ready = ~@]
  <2>1. /\ o \in Objects /\ o.kind = obj[v].kind /\ o.st = obj[v].st /\ Admitted(o)
    BY <1>1 DEF Objects, Specs, Admitted
  <2>2. Change(v, o)
    BY <1>5 DEF PhaseChange
  <2> HIDE DEF o
  <2> QED
    BY <1>1, <1>2, <2>1, <2>2, ChangeAttend
<1> QED
  BY <1>3, <1>4, <1>5 DEF Environment

\* A reconcile starts what is wanted.
LEMMA ReconcileAttend ==
  ASSUME SyncInv, AttendInv, NEW v \in Volumes, Reconcile(v)
  PROVE  AttendInv'
<1>0. /\ call \in [Callers -> CallType] /\ v \in Callers /\ v # Recovery
      /\ Recovery \in Callers /\ Volumes \subseteq Callers
      /\ due \in [Volumes -> BOOLEAN]
  BY SyncAssumption DEF SyncInv, SyncTypeOK, CallType, Callers
<1>1. /\ UNCHANGED <<obj, listed, timers, chain>> /\ call[v] = Idle
      /\ due'[v] = FALSE /\ \A w \in Volumes \ {v} : due'[w] = due[w]
  BY <1>0 DEF Reconcile, recoveryVars
<1>2. /\ \A q \in Callers \ {v} : call'[q] = call[q]
      /\ \/ call'[v].pc = "start" /\ call'[v].spec = Filled(obj[v].spec) /\ obj[v].st = "live"
         \/ call'[v].pc = "stop" /\ ~Wanted(v) /\ obj[v].st # "gone"
         \/ call'[v] = Idle /\ ~Wanted(v)
  BY <1>0 DEF Reconcile, Call, Wanted, Idle
<1>3. CallsCurrent'
  <2>1. \A w \in Volumes : w \in Callers
    BY <1>0
  <2>2. ASSUME NEW w \in Volumes, ~due'[w]
        PROVE  /\ call'[w].pc \in Starting => call'[w].spec = Filled(obj[w].spec)
               /\ call'[w].pc \in {"stop", "release"} => ~Wanted(w)
    BY <1>1, <1>2, <2>1, <2>2 DEF AttendInv, CallsCurrent, Starting, Idle
  <2>3. ASSUME NEW w \in Volumes
        PROVE  /\ call'[w].pc = "release" => obj[w].st = "deleting"
               /\ obj[w].st = "gone" => call'[w] = Idle
    BY <1>1, <1>2, <2>1 DEF AttendInv, CallsCurrent, Idle
  <2> QED
    BY <1>1, <2>2, <2>3 DEF AttendInv, CallsCurrent, Wanted, Admitted
<1>4. RecoveryFit' /\ DropsGone'
  <2>1. call'[Recovery] = call[Recovery]
    BY <1>0, <1>2
  <2> QED
    BY <1>1, <2>1 DEF AttendInv, RecoveryFit, DropsGone, Startable
<1>5. SyncAttended'
  <2> SUFFICES ASSUME SharedStored \subseteq {"set"}, NEW w \in Volumes, Wanted(w)
               PROVE  Attended(w)'
    BY <1>1 DEF SyncAttended, Wanted
  <2>1. CASE w = v
    BY <1>2, <2>1 DEF Attended, Starting
  <2>2. CASE w # v
    <3>1. Attended(w) /\ call'[w] = call[w] /\ call'[Recovery] = call[Recovery]
          /\ due'[w] = due[w]
      BY <1>0, <1>1, <1>2, <2>2 DEF AttendInv, SyncAttended
    <3> QED
      BY <1>1, <3>1 DEF Attended, ChainOf
  <2> QED
    BY <2>1, <2>2
<1> QED
  BY <1>3, <1>4, <1>5 DEF AttendInv

LEMMA ReleaseAttend ==
  ASSUME SyncInv, AttendInv, NEW v \in Volumes, Release(v)
  PROVE  AttendInv'
<1>0. /\ call \in [Callers -> CallType] /\ v \in Callers /\ v # Recovery
      /\ Recovery \in Callers /\ \A w \in Volumes : w \in Callers
      /\ due \in [Volumes -> BOOLEAN] /\ obj \in [Volumes -> Objects]
  BY SyncAssumption DEF SyncInv, SyncTypeOK, CallType, Callers
<1>1. /\ UNCHANGED <<listed, timers, chain>> /\ due'[v] = TRUE
      /\ call'[v] = Idle /\ \A q \in Callers \ {v} : call'[q] = call[q]
      /\ \A w \in Volumes \ {v} : due'[w] = due[w] /\ obj'[w] = obj[w]
  BY <1>0 DEF Release, Done, recoveryVars
<1>2. obj'[v].st = "gone" /\ obj'[v].kind = obj[v].kind /\ obj'[v].spec = obj[v].spec
  BY <1>0 DEF Release, Objects
<1>3. CallsCurrent'
  <2>1. ASSUME NEW w \in Volumes, ~due'[w]
        PROVE  /\ call'[w].pc \in Starting => call'[w].spec = Filled(obj'[w].spec)
               /\ call'[w].pc \in {"stop", "release"} => ~Wanted(w)'
    BY <1>0, <1>1, <2>1 DEF AttendInv, CallsCurrent, Wanted
  <2>2. ASSUME NEW w \in Volumes
        PROVE  /\ call'[w].pc = "release" => obj'[w].st = "deleting"
               /\ obj'[w].st = "gone" => call'[w] = Idle
               /\ Admitted(obj'[w])
    BY <1>0, <1>1, <1>2 DEF AttendInv, CallsCurrent, Idle, Admitted
  <2> QED
    BY <2>1, <2>2 DEF CallsCurrent, Admitted
<1>4. RecoveryFit'
  <2>1. \A e \in listed : e[1] \in Volumes
    BY DEF SyncInv, SyncTypeOK
  <2>2. call[Recovery].pc \in Starting => call[Recovery].vol \in Volumes
    BY DEF SyncInv, AtWork, Callers, Starting
  <2>3. call'[Recovery] = call[Recovery] /\ \A w \in Volumes : obj'[w].kind = obj[w].kind
    BY <1>0, <1>1, <1>2
  <2> QED
    BY <1>1, <2>1, <2>2, <2>3 DEF AttendInv, RecoveryFit, Startable
<1>5. DropsGone'
  <2>1. \A k \in Chains : chain[k].st = "drop" => chain[k].vol \in Volumes
    BY DEF SyncInv, AtWork
  <2> QED
    BY <1>1, <1>2, <2>1 DEF AttendInv, DropsGone
<1>6. SyncAttended'
  <2> SUFFICES ASSUME SharedStored \subseteq {"set"}, NEW w \in Volumes \ {v}, Wanted(w)
               PROVE  Attended(w)'
    BY <1>1, <1>2 DEF SyncAttended, Wanted
  <2>1. /\ Attended(w) /\ call'[w] = call[w] /\ call'[Recovery] = call[Recovery]
        /\ due'[w] = due[w]
    BY <1>0, <1>1 DEF AttendInv, SyncAttended
  <2> QED
    BY <1>1, <2>1 DEF Attended, ChainOf
<1> QED
  BY <1>3, <1>4, <1>5, <1>6 DEF AttendInv

\* The recovery takes up volumes that are Ready and have a source.
LEMMA RecoveryAttend ==
  ASSUME SyncInv, AttendInv, RecoveryList \/ RecoveryStart
  PROVE  AttendInv'
<1>0. /\ call \in [Callers -> CallType] /\ Recovery \in Callers
      /\ \A w \in Volumes : w \in Callers /\ w # Recovery
      /\ UNCHANGED <<obj, due, timers, chain>> /\ call[Recovery] = Idle
      /\ \A w \in Volumes : call'[w] = call[w]
  <2>1. call \in [Callers -> CallType] /\ Recovery \in Callers
        /\ \A w \in Volumes : w \in Callers /\ w # Recovery
    BY SyncAssumption DEF SyncInv, SyncTypeOK, CallType, Callers
  <2> QED
    BY <2>1 DEF RecoveryList, RecoveryStart, Call, clusterVars
<1>1. CallsCurrent' /\ DropsGone'
  BY <1>0 DEF AttendInv, CallsCurrent, DropsGone, Wanted, Admitted
<1>2. RecoveryFit'
  <2>1. CASE RecoveryList
    <3>1. UNCHANGED call /\ \A e \in listed' : Startable(e[1], e[2])
      <4>1. ASSUME NEW e \in listed' PROVE Startable(e[1], e[2])
        <5>1. PICK v \in Volumes : e = <<v, obj[v].spec>> /\ obj[v].spec.ready
                                   /\ obj[v].spec.source # NoSource
          BY <2>1, <4>1 DEF RecoveryList
        <5>2. obj[v].kind = "sv" => obj[v].spec.interval \in SharedStored
          BY <5>1 DEF AttendInv, CallsCurrent, Admitted, Stored
        <5> QED
          BY <5>1, <5>2 DEF Startable
      <4> QED
        BY <2>1, <4>1 DEF RecoveryList
    <3> QED
      BY <1>0, <3>1 DEF AttendInv, RecoveryFit, Startable
  <2>2. CASE RecoveryStart
    <3>1. PICK e \in listed : listed' = listed \ {e} /\ Call(Recovery, e[1], "start", e[2])
      BY <2>2 DEF RecoveryStart
    <3>2. /\ call'[Recovery].pc = "start" /\ call'[Recovery].vol = e[1]
          /\ call'[Recovery].spec = e[2]
      BY <1>0, <3>1 DEF Call
    <3> QED
      BY <1>0, <3>1, <3>2 DEF AttendInv, RecoveryFit, Startable
  <2> QED
    BY <2>1, <2>2
<1>3. SyncAttended'
  <2> SUFFICES ASSUME SharedStored \subseteq {"set"}, NEW v \in Volumes, Wanted(v)
               PROVE  Attended(v)'
    BY <1>0 DEF SyncAttended, Wanted
  <2>1. Attended(v)
    BY DEF AttendInv, SyncAttended
  <2> QED
    BY <1>0, <2>1 DEF Attended, ChainOf, Idle
<1> QED
  BY <1>1, <1>2, <1>3 DEF AttendInv

LEMMA AttendStep == SyncInv /\ AttendInv /\ [Next]_vars => AttendInv'
<1> SUFFICES ASSUME SyncInv, AttendInv, [Next]_vars PROVE AttendInv'
  OBVIOUS
<1>1. CASE UNCHANGED vars
  BY <1>1 DEF vars, AttendInv, CallsCurrent, RecoveryFit, DropsGone, SyncAttended, Wanted,
     Attended, ChainOf, Startable, Admitted
<1>2. ASSUME NEW v \in Volumes, Reconciler(v) \/ Environment(v)
      PROVE  AttendInv'
  <2>1. v \in Callers
    BY DEF Callers
  <2> QED
    BY <1>2, <2>1, CallerAttend, ReconcileAttend, ReleaseAttend, EnvironmentAttend
       DEF Reconciler
<1>3. Recoverer => AttendInv'
  BY CallerAttend, RecoveryAttend DEF Recoverer, Callers
<1> QED
  BY <1>1, <1>2, <1>3, RunAttend DEF Next

LEMMA AttendInitial == Init => AttendInv
<1> SUFFICES ASSUME Init PROVE AttendInv
  OBVIOUS
<1>1. \A v \in Volumes : due[v] /\ obj[v].st = "live"
                         /\ Admitted(obj[v])
  BY DEF Init
<1>2. \A p \in Callers : call[p] = Idle
  BY DEF Init
<1>3. \A k \in Chains : chain[k].st = "free"
  BY DEF Init, Free
<1>4. listed = {} /\ Recovery \in Callers /\ \A v \in Volumes : v \in Callers
  BY DEF Init, Callers
<1>5. CallsCurrent
  BY <1>1, <1>2, <1>4 DEF CallsCurrent, Idle
<1>6. RecoveryFit
  BY <1>2, <1>4 DEF RecoveryFit, Idle, Starting
<1>7. DropsGone
  BY <1>3 DEF DropsGone
<1>8. SyncAttended
  BY <1>1 DEF SyncAttended, Attended
<1> QED
  BY <1>5, <1>6, <1>7, <1>8 DEF AttendInv

\* SyncScheduler's invariant of both kinds.
LEMMA AttendInvariant == Spec => [](SyncInv /\ AttendInv)
<1>1. Init => SyncInv /\ AttendInv
  BY SyncInitial, AttendInitial
<1>2. SyncInv /\ AttendInv /\ [Next]_vars => (SyncInv /\ AttendInv)'
  BY SyncStep, AttendStep
<1> QED
  BY <1>1, <1>2, PTL DEF Spec

\* However reconciles, the recovery and the runs of timers interleave, a volume that is
\* Ready and has a source is never without a timer, a run, or a caller about to arm one.
THEOREM AlwaysAttended == Spec => []SyncAttended
<1>1. AttendInv => SyncAttended
  BY DEF AttendInv
<1> QED
  BY <1>1, AttendInvariant, PTL

\* No step of Start or Stop begins a chain of a volume that is quiet.
LEMMA CallerQuiet ==
  ASSUME SyncInv, AttendInv, NEW p \in Callers, Caller(p), NEW v \in Volumes, Quiet(v)
  PROVE  Quiet(v)' /\ \A k \in Chains : ChainOf(k, v)' => ChainOf(k, v)
<1>0. /\ MapInv /\ CallInv /\ call[p].pc # "idle" /\ call[p].vol \in Volumes
      /\ p # Recovery => p \in Volumes /\ call[p].vol = p
      /\ Recovery \in Callers
  <2>1. MapInv /\ CallInv /\ call[p].pc # "idle"
    BY Parts DEF Caller, Start, AlreadyRunning, SafetyStop, Arm, Stop
  <2> QED
    BY <2>1 DEF CallInv, Callers
<1>1. call[v] = Idle
  BY DEF Quiet, AttendInv, CallsCurrent
<1>2. call[p].vol # v
  BY <1>0, <1>1 DEF Quiet, Idle
<1>3. Quiet(v)'
  <2>1. UNCHANGED <<clusterVars, recoveryVars>>
    BY CallerMoves
  <2>2. p # Recovery => call'[Recovery] = call[Recovery]
    BY <1>0, CallerMoves
  <2>3. call'[p] = Idle \/ call'[p].vol = call[p].vol
    BY CallerMoves
  <2> QED
    BY <1>2, <2>1, <2>2, <2>3 DEF Quiet, clusterVars, recoveryVars, Idle
<1>4. ASSUME NEW k \in Chains, ChainOf(k, v)' PROVE ChainOf(k, v)
  <2>1. CASE Stopped(call[p].vol)
    BY <1>4, <2>1 DEF Stopped, ChainOf, Free
  <2>2. CASE UNCHANGED chain
    BY <1>4, <2>2 DEF ChainOf
  <2>3. CASE Arm(p)
    BY <1>0, <1>2, <1>4, <2>3 DEF Arm, ChainOf, MapInv
  <2> QED
    BY <2>1, <2>2, <2>3 DEF Caller, Start, AlreadyRunning, SafetyStop, Stop
<1> QED
  BY <1>3, <1>4

\* Nor does any other.
LEMMA OtherQuiet ==
  ASSUME SyncInv, AttendInv, NEW v \in Volumes, Quiet(v), UNCHANGED chain,
         \/ \E w \in Volumes : Reconcile(w) \/ Release(w) \/ Environment(w)
         \/ RecoveryList \/ RecoveryStart
  PROVE  Quiet(v)' /\ \A k \in Chains : ChainOf(k, v)' => ChainOf(k, v)
<1>0. /\ call \in [Callers -> CallType] /\ obj \in [Volumes -> Objects]
      /\ Recovery \in Callers /\ Recovery \notin Volumes /\ listed \subseteq Volumes \X Specs
  BY SyncAssumption DEF SyncInv, SyncTypeOK, CallType, Callers
<1>1. \A k \in Chains : ChainOf(k, v)' => ChainOf(k, v)
  BY DEF ChainOf
<1>2. CASE \E w \in Volumes : Reconcile(w) \/ Release(w) \/ Environment(w)
  <2>1. PICK w \in Volumes : Reconcile(w) \/ Release(w) \/ Environment(w)
    BY <1>2
  <2>2. UNCHANGED listed /\ call'[Recovery] = call[Recovery]
    BY <1>0, <2>1 DEF Reconcile, Release, Environment, UserEdit, UserDelete, PhaseChange,
       recoveryVars, Call, Done
  <2>3. obj'[v].st = "gone"
    BY <1>0, <2>1 DEF Quiet, Reconcile, Release, Environment, UserEdit, UserDelete, PhaseChange,
       Change, Objects
  <2> QED
    BY <1>1, <2>2, <2>3 DEF Quiet
<1>3. CASE RecoveryList
  <2>1. UNCHANGED <<obj, call>> /\ \A e \in listed' : e[1] # v
    BY <1>3 DEF RecoveryList, clusterVars, Quiet
  <2> QED
    BY <1>1, <2>1 DEF Quiet
<1>4. CASE RecoveryStart
  <2>1. PICK e \in listed : listed' = listed \ {e} /\ Call(Recovery, e[1], "start", e[2])
    BY <1>4 DEF RecoveryStart
  <2>2. UNCHANGED obj /\ call'[Recovery].vol = e[1] /\ e[1] # v
    BY <1>0, <1>4, <2>1 DEF RecoveryStart, Call, clusterVars, Quiet
  <2> QED
    BY <1>1, <2>1, <2>2 DEF Quiet
<1> QED
  BY <1>2, <1>3, <1>4

\* The run of a chain may keep that chain going, and no other.
LEMMA RunQuiet ==
  ASSUME SyncInv, NEW k \in Chains, Run(k), NEW v \in Volumes, Quiet(v)
  PROVE  Quiet(v)' /\ \A c \in Chains : ChainOf(c, v)' => ChainOf(c, v)
<1>1. MapInv /\ UNCHANGED <<obj, call, listed>>
  BY Parts DEF Run, Fire, Lookup, Drop, Trigger, Rearm, clusterVars, recoveryVars
<1>2. chain[k].st # "free"
  BY DEF Run, Fire, Lookup, Drop, Trigger, Rearm, MoveChain
<1>3. \A c \in Chains : \/ chain'[c].vol = chain[c].vol /\ (c = k \/ chain'[c].st = chain[c].st)
                        \/ chain'[c] = Free
  BY <1>1 DEF Run, Fire, Lookup, Drop, Trigger, Rearm, MoveChain, MapInv, ChainType
<1>4. \A c \in Chains : ChainOf(c, v)' => ChainOf(c, v)
  BY <1>2, <1>3 DEF ChainOf, Free
<1> QED
  BY <1>1, <1>4 DEF Quiet

\* Whatever a late run or the recovery was doing when a volume went, once they are
\* through with it nothing starts its syncs again.
THEOREM GoneNeverStarted == Spec => GoneStaysStopped
<1>1. ASSUME SyncInv, AttendInv, [Next]_vars, NEW v \in Volumes, Quiet(v)
      PROVE  Quiet(v)' /\ \A k \in Chains : ChainOf(k, v)' => ChainOf(k, v)
  <2>1. CASE UNCHANGED vars
    BY <1>1, <2>1 DEF vars, Quiet, ChainOf
  <2>2. CASE \E p \in Callers : Caller(p)
    BY <1>1, <2>2, CallerQuiet
  <2>3. CASE \/ \E w \in Volumes : Reconcile(w) \/ Release(w) \/ Environment(w)
             \/ RecoveryList \/ RecoveryStart
    <3>1. UNCHANGED chain
      BY <2>3 DEF Reconcile, Release, Environment, UserEdit, UserDelete, PhaseChange,
         RecoveryList, RecoveryStart
    <3> QED
      BY <1>1, <2>3, <3>1, OtherQuiet
  <2>4. CASE \E k \in Chains : Run(k)
    BY <1>1, <2>4, RunQuiet
  <2> QED
    BY <1>1, <2>1, <2>2, <2>3, <2>4 DEF Next, Reconciler, Recoverer, Callers
<1>2. SyncInv /\ AttendInv /\ [Next]_vars =>
        \A v \in Volumes : Quiet(v) =>
          Quiet(v)' /\ \A k \in Chains : ChainOf(k, v)' => ChainOf(k, v)
  BY <1>1
<1> QED
  BY <1>2, AttendInvariant, PTL DEF Spec, GoneStaysStopped
===========================================================================
