-------------------------- MODULE NodeSwapController --------------------------
(***************************************************************************)
(* The NodeSwap operator: internal/controller/nodeswap_controller.go with  *)
(* the parts of the API server, the informer caches and the work queue it  *)
(* runs on.                                                                *)
(*                                                                         *)
(* The reconciler reads NodeSwaps, the kubelet MachineConfig and the pools *)
(* from caches that lag the server behind ordered watch streams, and it    *)
(* writes to the server directly.  One worker handles one request at a     *)
(* time (MaxConcurrentReconciles is 1); a reconcile is split where it      *)
(* reads a cache or calls the server, and everything else happens between  *)
(* those steps.                                                            *)
(***************************************************************************)
EXTENDS RenderConfig, LabelSelector

CONSTANTS
  NodeSwaps,       \* names of NodeSwap objects (namespaced)
  Specs,           \* the NodeSwapSpecs users submit
  Pools,           \* names of MachineConfigPools (cluster-scoped)
  MatchLabels,     \* pool -> its machineConfigSelector.matchLabels, as pairs
  PoolConditions,  \* the condition triples the pools go through
  NoObject,        \* an object that does not exist; nil
  MaxEdits,        \* bound on what users and administrators do
  MaxFaults        \* bound on failed calls and operator crashes

ASSUME MaxEditsAssumption    == MaxEdits \in Nat
ASSUME MaxFaultsAssumption   == MaxFaults \in Nat
ASSUME NamesAssumption       == NodeSwaps \cap Pools = {}
ASSUME MatchLabelsAssumption == DOMAIN MatchLabels = Pools
ASSUME PoolConditionsAssumption ==
  PoolConditions \subseteq [updated : BOOLEAN, updating : BOOLEAN, degraded : BOOLEAN]

-----------------------------------------------------------------------------
(* Status conditions.                                                      *)

typeAvailableNodeSwap   == "Availabe"
typeProgressingNodeSwap == "Progressing"
typeDegradedNodeSwap    == "Degraded"

ConditionTypes == {typeAvailableNodeSwap, typeProgressingNodeSwap, typeDegradedNodeSwap}

\* What a reconcile can fail with.  "invalid" is the server refusing the
\* MachineConfig, "unavailable" any failed call.
Errors == {"none", "render", "selector", "invalid", "unavailable"}

\* The message of a condition is abstracted to the error it quotes.
Condition ==
  [status  : {"absent", "True", "False"},
   reason  : {"", "Reconciling", "ReconciliationFailed", "ReconciliationSucceeded"},
   message : Errors]

Absent == [status |-> "absent", reason |-> "", message |-> "none"]

\* The list of conditions, keyed by type (+listMapKey=type).
Conditions   == [ConditionTypes -> Condition]
NoConditions == [t \in ConditionTypes |-> Absent]

Set(status, reason, message) ==
  [status |-> status, reason |-> reason, message |-> message]

\* The three branches of ReconcileStatus, each a sequence of SetStatusCondition.
Failure(conds, err) ==
  [conds EXCEPT
     ![typeDegradedNodeSwap]    = Set("True", "ReconciliationFailed", err),
     ![typeProgressingNodeSwap] = Set("False", "ReconciliationFailed", "none"),
     ![typeAvailableNodeSwap]   = Set("False", "ReconciliationFailed", "none")]

FirstSuccess(conds) ==
  [conds EXCEPT ![typeProgressingNodeSwap] = Set("True", "Reconciling", "none")]

\* Mutant: Degraded is not reset.
DegradedStays(conds) ==
  [conds EXCEPT
     ![typeAvailableNodeSwap]   = Set("True", "ReconciliationSucceeded", "none"),
     ![typeProgressingNodeSwap] = Set("False", "ReconciliationSucceeded", "none")]

Success(conds) ==
  [conds EXCEPT
     ![typeAvailableNodeSwap]   = Set("True", "ReconciliationSucceeded", "none"),
     ![typeDegradedNodeSwap]    = Set("False", "ReconciliationSucceeded", "none"),
     ![typeProgressingNodeSwap] = Set("False", "ReconciliationSucceeded", "none")]

\* ReconcileStatus, up to its call of Status().Update.
StatusFor(conds, err) ==
  IF err # "none" THEN Failure(conds, err)
  ELSE IF conds = NoConditions THEN FirstSuccess(conds)
  ELSE Success(conds)

-----------------------------------------------------------------------------
(* Objects.                                                                *)

NodeSwap == [spec : Specs, conds : Conditions, rv : Nat]

\* A label map, as its set of pairs.
RoleLabelKey == <<"machineconfiguration.openshift.io/role">>
workerRole   == <<"worker">>

\* The labels of the generated MachineConfig: its role, then Labels[key] = value.
KubeletMCLabels(label) ==
  {pair \in {<<RoleLabelKey, workerRole>>} : pair[1] # label.key}
    \cup {<<label.key, label.value>>}

\* The server's syntax check of the one label the operator chose.
ValidLabel(label) ==
  \A text \in {label.key, label.value} :
    Positions(text, Colon) \cup Positions(text, Space) = {}

\* nil is neither an object nor a spec nor a label map.
ASSUME NoObjectAssumption ==
  /\ NoObject \notin NodeSwap \cup Specs
  /\ \A spec \in Specs :
       KubeletMCLabels(parseLabelSelector(spec.machineConfigPoolSelector)) # NoObject

isMachineConfigPoolUpdated(c) == c.updated /\ ~c.updating /\ ~c.degraded

-----------------------------------------------------------------------------
VARIABLES
  nodeswap,      \* server: name -> NodeSwap or NoObject
  kubeletMC,     \* server: labels of MachineConfig 99-swap-kubelet-cgroups
  pool,          \* server: pool -> its conditions
  rev            \* server: revision counter behind resourceVersion

VARIABLES
  nsWatch,       \* watch events on the way to the NodeSwap cache
  mcWatch,       \* the same for the kubelet MachineConfig
  poolWatch,     \* the same for the pools
  nsCache,       \* informer caches, which the reconciler reads
  mcCache,
  poolCache

VARIABLES
  queue,         \* requests ready for the worker
  backoff        \* requests AddRateLimited holds back

VARIABLES
  pc,            \* where the worker is in Reconcile
  req,           \* the request it handles
  reconcileErr,  \* the result of ReconcileSpec
  desired,       \* r.desiredNodeSwap
  mcpReady       \* r.mcpReady

VARIABLES        \* calls whose sender waits no more: they may still arrive
  lateStatus,    \* Status().Update
  lateCreate     \* Create of the kubelet MachineConfig, as its labels

VARIABLES
  deployed,      \* history: the kubelet MachineConfig has existed
  submitted,     \* history: the specs submitted so far
  edits,         \* how much of MaxEdits is used
  faults         \* how much of MaxFaults is used

server    == <<nodeswap, kubeletMC, pool, rev>>
informers == <<nsWatch, mcWatch, poolWatch, nsCache, mcCache, poolCache>>
workqueue == <<queue, backoff>>
worker    == <<pc, req, reconcileErr, desired, mcpReady>>
late      == <<lateStatus, lateCreate>>
bounds    == <<edits, faults>>
history   == <<deployed, submitted>>
vars      == <<server, informers, workqueue, worker, late, history, bounds>>

Requests == NodeSwaps \cup Pools

Init ==
  /\ nodeswap = [n \in NodeSwaps |-> NoObject]
  /\ kubeletMC = NoObject
  /\ pool \in [Pools -> PoolConditions]
  /\ rev = 0
  /\ nsWatch = <<>> /\ mcWatch = <<>> /\ poolWatch = <<>>
  /\ nsCache = nodeswap /\ mcCache = kubeletMC /\ poolCache = pool
  /\ queue = Pools
  /\ backoff = {}
  /\ pc = "idle" /\ req = NoObject /\ reconcileErr = "none"
  /\ desired = NoObject /\ mcpReady = FALSE
  /\ lateStatus = {} /\ lateCreate = {}
  /\ deployed = FALSE /\ submitted = {}
  /\ edits = 0 /\ faults = 0

-----------------------------------------------------------------------------
(* Writes of the server: the object gets the next revision, and the change *)
(* goes on the watch stream.                                               *)

NoWrite == UNCHANGED <<server, informers, history>>

SetNodeSwap(n, object) ==
  /\ nodeswap' = [nodeswap EXCEPT ![n] = object]
  /\ rev' = rev + 1
  /\ nsWatch' = Append(nsWatch, [name |-> n, object |-> object])
  /\ UNCHANGED <<kubeletMC, pool, mcWatch, poolWatch, nsCache, mcCache, poolCache, deployed>>

NewRevision(spec, conds) == [spec |-> spec, conds |-> conds, rv |-> rev + 1]

SetKubeletMC(labels) ==
  /\ kubeletMC' = labels
  /\ rev' = rev + 1
  /\ mcWatch' = Append(mcWatch, labels)
  /\ deployed' = (deployed \/ labels # NoObject)
  /\ UNCHANGED <<nodeswap, pool, nsWatch, poolWatch, nsCache, mcCache, poolCache, submitted>>

-----------------------------------------------------------------------------
(* Users and administrators.                                               *)

Edit ==
  /\ edits < MaxEdits /\ edits' = edits + 1
  /\ UNCHANGED <<workqueue, worker, late, faults>>

UserCreates(n, spec) ==
  /\ nodeswap[n] = NoObject
  /\ Edit
  /\ SetNodeSwap(n, NewRevision(spec, NoConditions))
  /\ submitted' = submitted \cup {spec}

\* The main resource keeps the status: only the subresource writes it.
UserEdits(n, spec) ==
  /\ nodeswap[n] # NoObject
  /\ nodeswap[n].spec # spec
  /\ Edit
  /\ SetNodeSwap(n, NewRevision(spec, nodeswap[n].conds))
  /\ submitted' = submitted \cup {spec}

\* There is no finalizer: the object is gone at once.
UserDeletes(n) ==
  /\ nodeswap[n] # NoObject
  /\ Edit
  /\ SetNodeSwap(n, NoObject)
  /\ UNCHANGED submitted

AdminDeletesMC ==
  /\ kubeletMC # NoObject
  /\ Edit
  /\ SetKubeletMC(NoObject)

PoolChanges(p, c) ==
  /\ pool[p] # c
  /\ Edit
  /\ pool' = [pool EXCEPT ![p] = c]
  /\ rev' = rev + 1
  /\ poolWatch' = Append(poolWatch, [name |-> p, conditions |-> c])
  /\ UNCHANGED <<nodeswap, kubeletMC, nsWatch, mcWatch, nsCache, mcCache, poolCache, history>>

-----------------------------------------------------------------------------
(* SetupWithManager: what an event puts on the queue.                      *)

Enqueue(requests) ==
  /\ queue' = queue \cup requests
  /\ UNCHANGED <<server, worker, late, history, bounds>>

\* For(&NodeSwap{}): the object itself.
DeliverNodeSwap ==
  /\ nsWatch # <<>>
  /\ nsCache' = [nsCache EXCEPT ![Head(nsWatch).name] = Head(nsWatch).object]
  /\ nsWatch' = Tail(nsWatch)
  /\ Enqueue({Head(nsWatch).name})
  /\ UNCHANGED <<mcWatch, poolWatch, mcCache, poolCache, backoff>>

\* Owns(&MachineConfig{}) asks for the controller owner of the object, and
\* MachineConfigFromRawIgnConfig sets no owner reference.
OwnerRequests == {}

DeliverMC ==
  /\ mcWatch # <<>>
  /\ mcCache' = Head(mcWatch)
  /\ mcWatch' = Tail(mcWatch)
  /\ Enqueue(OwnerRequests)
  /\ UNCHANGED <<nsWatch, poolWatch, nsCache, poolCache, backoff>>

\* Watches(&MachineConfigPool{}, EnqueueRequestForObject): the pool's own
\* name, with no namespace.
DeliverPool ==
  /\ poolWatch # <<>>
  /\ poolCache' = [poolCache EXCEPT ![Head(poolWatch).name] = Head(poolWatch).conditions]
  /\ poolWatch' = Tail(poolWatch)
  /\ Enqueue({Head(poolWatch).name})
  /\ UNCHANGED <<nsWatch, mcWatch, nsCache, mcCache, backoff>>

\* Mutant: a predicate drops the replayed updates of NodeSwaps.
ResyncFiltered ==
  /\ Enqueue(OwnerRequests \cup Pools)
  /\ UNCHANGED <<informers, backoff>>

\* The informers' SyncPeriod replays an update of everything they hold.
Resync ==
  /\ Enqueue({n \in NodeSwaps : nsCache[n] # NoObject} \cup OwnerRequests \cup Pools)
  /\ UNCHANGED <<informers, backoff>>

BackoffExpires(k) ==
  /\ k \in backoff
  /\ backoff' = backoff \ {k}
  /\ Enqueue({k})
  /\ UNCHANGED informers

-----------------------------------------------------------------------------
(* Reconcile.                                                              *)

OneFault == faults < MaxFaults /\ faults' = faults + 1 /\ UNCHANGED edits
Fault    == OneFault /\ UNCHANGED late
NoFault  == UNCHANGED <<bounds, late>>

\* Reconcile returns to the worker loop: an error is retried after a backoff.
\* What r.desiredNodeSwap still holds is dead, since the Get of the next request
\* overwrites it or ends the reconcile.
Return(retry) ==
  /\ pc' = "idle" /\ req' = NoObject /\ reconcileErr' = "none" /\ desired' = NoObject
  /\ backoff' = IF retry THEN backoff \cup {req} ELSE backoff
  /\ UNCHANGED <<queue, mcpReady>>

\* ReconcileSpec returns err to Reconcile, which goes on to the status.
SpecResult(err) ==
  /\ reconcileErr' = err
  /\ pc' = "status"
  /\ UNCHANGED <<workqueue, req, desired, mcpReady>>

\* Mutant: NotFound is not told apart from success.
AlwaysFound(k) == TRUE

\* The Get of the request's NodeSwap.  The name of a pool, without a
\* namespace, is not in the cache of the namespaced kind.
Found(k) == k \in NodeSwaps /\ nsCache[k] # NoObject

ReconcileStarts(k) ==
  /\ pc = "idle" /\ k \in queue
  /\ Found(k)
  /\ queue' = queue \ {k}
  /\ req' = k
  /\ desired' = nsCache[k]
  /\ pc' = "spec"
  /\ UNCHANGED <<backoff, reconcileErr, mcpReady>> /\ NoWrite /\ NoFault

ReconcileIgnores(k) ==
  /\ pc = "idle" /\ k \in queue
  /\ ~Found(k)
  /\ queue' = queue \ {k}
  /\ UNCHANGED <<backoff, worker>> /\ NoWrite /\ NoFault

ReconcileGetFails(k) ==
  /\ pc = "idle" /\ k \in queue
  /\ queue' = queue \ {k}
  /\ backoff' = backoff \cup {k}
  /\ UNCHANGED worker /\ NoWrite /\ Fault

Created  == Create(desired.spec.swaps)
Selector == parseLabelSelector(desired.spec.machineConfigPoolSelector)

\* The nil dereference below renderconfig.Create: controller-runtime recovers
\* it into an error of Reconcile, and ReconcileStatus is never reached.
SpecPanics ==
  /\ pc = "spec"
  /\ Created.outcome = "panic"
  /\ Return(TRUE) /\ NoWrite /\ NoFault

\* Mutant: the error is returned at once and no status is written.
ErrorSkipsStatus ==
  /\ pc = "spec"
  /\ Created.outcome = "error"
  /\ Return(TRUE) /\ NoWrite /\ NoFault

SpecDoesNotRender ==
  /\ pc = "spec"
  /\ Created.outcome = "error"
  /\ SpecResult("render") /\ NoWrite /\ NoFault

ListPoolsFails ==
  /\ pc = "spec"
  /\ Created.outcome = "ok"
  /\ SpecResult("unavailable") /\ NoWrite /\ Fault

SelectorDoesNotParse ==
  /\ pc = "spec"
  /\ Created.outcome = "ok"
  /\ ~Selector.ok
  /\ SpecResult("selector") /\ NoWrite /\ NoFault

MatchingPools(label) == {p \in Pools : <<label.key, label.value>> \in MatchLabels[p]}

AllUpdated(pools) == \A p \in pools : isMachineConfigPoolUpdated(poolCache[p])

\* Mutant: r.mcpReady is not set back to TRUE.
ReadinessNotReset ==
  /\ pc = "spec"
  /\ Created.outcome = "ok" /\ Selector.ok
  /\ mcpReady' = (mcpReady /\ AllUpdated(MatchingPools(Selector)))
  /\ pc' = "kubelet"
  /\ UNCHANGED <<workqueue, req, reconcileErr, desired>> /\ NoWrite /\ NoFault

\* r.config takes Created.configs and is never read.
SpecIsAccepted ==
  /\ pc = "spec"
  /\ Created.outcome = "ok" /\ Selector.ok
  /\ mcpReady' = AllUpdated(MatchingPools(Selector))
  /\ pc' = "kubelet"
  /\ UNCHANGED <<workqueue, req, reconcileErr, desired>> /\ NoWrite /\ NoFault

-----------------------------------------------------------------------------
(* ReconcileKubeletCgroups.                                                *)

KubeletMCIsCached ==
  /\ pc = "kubelet"
  /\ mcCache # NoObject
  /\ SpecResult("none") /\ NoWrite /\ NoFault

KubeletMCIsMissing ==
  /\ pc = "kubelet"
  /\ mcCache = NoObject
  /\ pc' = "create"
  /\ UNCHANGED <<workqueue, req, reconcileErr, desired, mcpReady>> /\ NoWrite /\ NoFault

GetKubeletMCFails ==
  /\ pc = "kubelet"
  /\ SpecResult("unavailable") /\ NoWrite /\ Fault

\* The selector is parsed once more; the server checks the labels it gave
\* before it looks whether the name is taken.
Creatable == Selector.ok /\ ValidLabel(Selector)

CreatesKubeletMC ==
  /\ pc = "create"
  /\ Creatable /\ kubeletMC = NoObject
  /\ SetKubeletMC(KubeletMCLabels(Selector))
  /\ SpecResult("none") /\ NoFault

\* Mutant: an existing MachineConfig is relabelled.
RelabelsKubeletMC ==
  /\ pc = "create"
  /\ Creatable /\ kubeletMC # NoObject
  /\ SetKubeletMC(KubeletMCLabels(Selector))
  /\ SpecResult("none") /\ NoFault

KubeletMCAlreadyExists ==
  /\ pc = "create"
  /\ Creatable /\ kubeletMC # NoObject
  /\ SpecResult("none") /\ NoWrite /\ NoFault

KubeletMCIsRefused ==
  /\ pc = "create"
  /\ ~Creatable
  /\ SpecResult(IF Selector.ok THEN "invalid" ELSE "selector") /\ NoWrite /\ NoFault

\* The template does not render, or the call fails before it takes effect.
CreateKubeletMCFails ==
  /\ pc = "create"
  /\ SpecResult("unavailable") /\ NoWrite /\ Fault

\* No answer comes in time.  The call takes effect later, or never does.
CreateIsLate ==
  /\ pc = "create" /\ Creatable
  /\ lateCreate' = lateCreate \cup {KubeletMCLabels(Selector)}
  /\ UNCHANGED lateStatus

CreateTimesOut ==
  /\ CreateIsLate
  /\ SpecResult("unavailable") /\ NoWrite /\ OneFault

\* The server handles it as it would have at once.
LateCreateArrives(labels) ==
  /\ labels \in lateCreate
  /\ lateCreate' = lateCreate \ {labels}
  /\ IF kubeletMC = NoObject THEN SetKubeletMC(labels) ELSE NoWrite
  /\ UNCHANGED <<workqueue, worker, lateStatus, bounds>>

-----------------------------------------------------------------------------
(* ReconcileStatus: Status().Update of the object as it was read, with the *)
(* conditions set.                                                         *)

\* Mutant: the update carries no resourceVersion.
AnyRevision(n, copy) == nodeswap[n] # NoObject

\* The server takes an update only of the revision it holds.
Current(n, copy) == nodeswap[n] # NoObject /\ nodeswap[n].rv = copy.rv

\* The server: an update that changes nothing makes no revision and no event.
WriteStatus(n, conds) ==
  IF conds = nodeswap[n].conds
  THEN NoWrite
  ELSE SetNodeSwap(n, NewRevision(nodeswap[n].spec, conds)) /\ UNCHANGED submitted

StatusIsUpdated ==
  /\ pc = "status"
  /\ Current(req, desired)
  /\ WriteStatus(req, StatusFor(desired.conds, reconcileErr))
  /\ Return(reconcileErr # "none") /\ NoFault

\* Conflict, or not found.
StatusIsRefused ==
  /\ pc = "status"
  /\ ~Current(req, desired)
  /\ Return(TRUE) /\ NoWrite /\ NoFault

\* Mutant: the error of the status update is swallowed.
StatusErrorIsDropped ==
  /\ pc = "status"
  /\ Return(FALSE) /\ NoWrite /\ Fault

StatusUpdateFails ==
  /\ pc = "status"
  /\ Return(TRUE) /\ NoWrite /\ Fault

StatusCall == [name |-> req, copy |-> desired, err |-> reconcileErr]

StatusIsLate ==
  /\ pc = "status"
  /\ lateStatus' = lateStatus \cup {StatusCall}
  /\ UNCHANGED lateCreate

StatusTimesOut ==
  /\ StatusIsLate
  /\ Return(TRUE) /\ NoWrite /\ OneFault

LateStatusArrives(call) ==
  /\ call \in lateStatus
  /\ lateStatus' = lateStatus \ {call}
  /\ IF Current(call.name, call.copy)
     THEN WriteStatus(call.name, StatusFor(call.copy.conds, call.err))
     ELSE NoWrite
  /\ UNCHANGED <<workqueue, worker, lateCreate, bounds>>

-----------------------------------------------------------------------------
\* The process ends anywhere, or loses its lease, and a new one starts: it lists
\* everything into its caches, and every object listed is an event.  A call the
\* old one had sent may still be on its way.
Restart ==
  /\ OneFault
  /\ UNCHANGED late \/ CreateIsLate \/ StatusIsLate
  /\ nsWatch' = <<>> /\ mcWatch' = <<>> /\ poolWatch' = <<>>
  /\ nsCache' = nodeswap /\ mcCache' = kubeletMC /\ poolCache' = pool
  /\ queue' = {n \in NodeSwaps : nodeswap[n] # NoObject} \cup OwnerRequests \cup Pools
  /\ backoff' = {}
  /\ pc' = "idle" /\ req' = NoObject /\ reconcileErr' = "none"
  /\ desired' = NoObject /\ mcpReady' = FALSE
  /\ UNCHANGED <<server, history>>

Environment ==
  \/ \E n \in NodeSwaps, spec \in Specs : UserCreates(n, spec) \/ UserEdits(n, spec)
  \/ \E n \in NodeSwaps : UserDeletes(n)
  \/ AdminDeletesMC
  \/ \E p \in Pools, c \in PoolConditions : PoolChanges(p, c)

Informers == DeliverNodeSwap \/ DeliverMC \/ DeliverPool \/ Resync

ReconcileSpec ==
  \/ SpecPanics \/ SpecDoesNotRender \/ ListPoolsFails \/ SelectorDoesNotParse
  \/ SpecIsAccepted

ReconcileKubeletCgroups ==
  \/ KubeletMCIsCached \/ KubeletMCIsMissing \/ GetKubeletMCFails
  \/ CreatesKubeletMC \/ KubeletMCAlreadyExists \/ KubeletMCIsRefused
  \/ CreateKubeletMCFails \/ CreateTimesOut

ReconcileStatus ==
  StatusIsUpdated \/ StatusIsRefused \/ StatusUpdateFails \/ StatusTimesOut

LateCalls ==
  \/ \E labels \in lateCreate : LateCreateArrives(labels)
  \/ \E call \in lateStatus : LateStatusArrives(call)

Start(k) == ReconcileStarts(k) \/ ReconcileIgnores(k)

Worker == ReconcileSpec \/ ReconcileKubeletCgroups \/ ReconcileStatus

Next ==
  \/ Environment
  \/ Informers
  \/ \E k \in Requests : BackoffExpires(k) \/ Start(k) \/ ReconcileGetFails(k)
  \/ Worker
  \/ LateCalls
  \/ Restart

Spec == Init /\ [][Next]_vars

\* The watch streams and the rate limiter move on, the worker does not stop in
\* the middle of a reconcile, and the work queue is first in, first out, so no
\* request is passed over for ever.  Nothing is assumed of users, of failures,
\* of late calls or of restarts.
FairSpec ==
  /\ Spec
  /\ WF_vars(DeliverNodeSwap) /\ WF_vars(DeliverMC) /\ WF_vars(DeliverPool)
  /\ \A k \in Requests : WF_vars(BackoffExpires(k)) /\ SF_vars(Start(k))
  /\ WF_vars(Worker)

\* The informers' resync timer fires again and again as well.
ResyncSpec == FairSpec /\ WF_vars(Resync)

=============================================================================
