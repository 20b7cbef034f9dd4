-------------------------- MODULE NodeSwapProperties --------------------------
(***************************************************************************)
(* What makes the operator correct: its safety, its contract, its liveness *)
(* and the promises of the repository's comments that the code breaks.     *)
(***************************************************************************)
EXTENDS NodeSwapController

-----------------------------------------------------------------------------
(* What a spec deserves, by the rules of ReconcileSpec.                    *)

RendersOk(spec)  == Create(spec.swaps).outcome = "ok"
LabelOf(spec)    == parseLabelSelector(spec.machineConfigPoolSelector)
Acceptable(spec) == RendersOk(spec) /\ LabelOf(spec).ok

\* The spec can be what err came from: the three errors that are the spec's
\* own fault need one at fault.
FailsWith(spec, err) ==
  /\ err = "render"   => Create(spec.swaps).outcome = "error"
  /\ err = "selector" => RendersOk(spec) /\ ~LabelOf(spec).ok
  /\ err = "invalid"  => Acceptable(spec) /\ ~ValidLabel(LabelOf(spec))

IsTrue(conds, type) == conds[type].status = "True"
Available(object)   == object # NoObject /\ IsTrue(object.conds, typeAvailableNodeSwap)
Degraded(object)    == object # NoObject /\ IsTrue(object.conds, typeDegradedNodeSwap)

-----------------------------------------------------------------------------
(* Safety.                                                                 *)

Object    == NodeSwap \cup {NoObject}
MCLabels  == {KubeletMCLabels(LabelOf(spec)) : spec \in Specs} \cup {NoObject}
NodeSwapEvent == [name : NodeSwaps, object : Object]
PoolEvent == [name : Pools, conditions : PoolConditions]
StatusCalls == [name : NodeSwaps, copy : NodeSwap, err : Errors]

StoreTypeOK ==
  /\ nodeswap \in [NodeSwaps -> Object] /\ nsCache \in [NodeSwaps -> Object]
  /\ kubeletMC \in MCLabels /\ mcCache \in MCLabels
  /\ pool \in [Pools -> PoolConditions] /\ poolCache \in [Pools -> PoolConditions]
  /\ rev \in Nat
  /\ nsWatch \in Seq(NodeSwapEvent)
  /\ mcWatch \in Seq(MCLabels)
  /\ poolWatch \in Seq(PoolEvent)
  /\ deployed \in BOOLEAN /\ submitted \subseteq Specs

OperatorTypeOK ==
  /\ queue \subseteq Requests /\ backoff \subseteq Requests
  /\ pc \in {"idle", "spec", "kubelet", "create", "status"}
  /\ pc = "idle" => req = NoObject /\ desired = NoObject
  /\ pc # "idle" => req \in NodeSwaps /\ desired \in NodeSwap
  /\ reconcileErr \in Errors
  /\ mcpReady \in BOOLEAN

LateTypeOK ==
  /\ lateStatus \subseteq StatusCalls
  /\ lateCreate \subseteq MCLabels \ {NoObject}

BoundsOK == edits \in 0..MaxEdits /\ faults \in 0..MaxFaults

\* Every variable holds what its declaration says; the worker has a request and
\* a NodeSwap exactly while it reconciles.
TypeOK == StoreTypeOK /\ OperatorTypeOK /\ LateTypeOK /\ BoundsOK

\* Nothing yet, progressing, available, or degraded by one of the errors.
Verdicts ==
  {NoConditions,
   StatusFor(NoConditions, "none"),
   [t \in ConditionTypes |->
      Set(IF t = typeAvailableNodeSwap THEN "True" ELSE "False",
          "ReconciliationSucceeded", "none")]}
  \cup {[t \in ConditionTypes |->
          IF t = typeDegradedNodeSwap THEN Set("True", "ReconciliationFailed", err)
          ELSE Set("False", "ReconciliationFailed", "none")] : err \in Errors \ {"none"}}

\* The conditions of a NodeSwap are one verdict.  ReconcileStatus edits the list
\* it finds, condition by condition, and must not leave parts of an earlier
\* verdict behind.
OneVerdict ==
  \A n \in NodeSwaps : nodeswap[n] # NoObject => nodeswap[n].conds \in Verdicts

\* A verdict is about the spec it stands beside.  Reconcile reads a cached
\* object, takes several calls over it and writes the status at the end, with a
\* call that may arrive after its sender gave up, or was replaced: the spec the
\* server then holds must be one that deserves what is written, and Available
\* needs the kubelet MachineConfig to have been deployed.
StatusExplained ==
  [][\A n \in NodeSwaps :
       LET object == nodeswap'[n]
       IN  object # NoObject /\ object.conds # NoConditions
             /\ (nodeswap[n] # NoObject => object.conds # nodeswap[n].conds)
           => /\ Available(object) => Acceptable(object.spec) /\ deployed
              /\ FailsWith(object.spec, object.conds[typeDegradedNodeSwap].message)]_vars

HasEvent(n) == \E i \in 1..Len(nsWatch) : nsWatch[i].name = n

\* Another reconcile of n will come: its event is on the watch stream, its name
\* is queued or held back, or the worker has it.
OnItsWay(n) ==
  \/ HasEvent(n)
  \/ n \in queue \cup backoff
  \/ pc # "idle" /\ req = n

Settled(n) ==
  nodeswap[n] # NoObject => Available(nodeswap[n]) /\ Acceptable(nodeswap[n].spec)

\* Nobody is forgotten: a NodeSwap that is not yet, or no longer, rightly
\* Available is on its way to another reconcile.
NoLostWakeup == \A n \in NodeSwaps : Settled(n) \/ OnItsWay(n)

-----------------------------------------------------------------------------
(* Why StatusExplained holds: the parts of its inductive invariant.        *)

\* A copy of a NodeSwap is no newer than the server, and a copy of the revision
\* the server holds is what the server holds.
FaithfulTo(copy, object, revision) ==
  copy # NoObject =>
    /\ copy.rv <= revision
    /\ object # NoObject /\ copy.rv = object.rv => copy = object

Faithful(n, copy) == FaithfulTo(copy, nodeswap[n], rev)

CopiesFaithful ==
  /\ \A n \in NodeSwaps : Faithful(n, nodeswap[n]) /\ Faithful(n, nsCache[n])
  /\ \A i \in 1..Len(nsWatch) : Faithful(nsWatch[i].name, nsWatch[i].object)
  /\ pc # "idle" => Faithful(req, desired)
  /\ \A call \in lateStatus : Faithful(call.name, call.copy)

\* Who sees a kubelet MachineConfig, at the server, on the stream or in the
\* cache, sees one that was deployed.
SeenMeansDeployed ==
  /\ kubeletMC # NoObject \/ mcCache # NoObject => deployed
  /\ \A i \in 1..Len(mcWatch) : mcWatch[i] # NoObject => deployed

Earned(spec, err) ==
  /\ err = "none" => Acceptable(spec) /\ deployed
  /\ FailsWith(spec, err)

\* How far a reconcile got, and the error it ended with, fit the spec it read.
ResultEarned ==
  /\ pc \in {"kubelet", "create"} => Acceptable(desired.spec)
  /\ pc = "status" => Earned(desired.spec, reconcileErr)
  /\ \A call \in lateStatus : Earned(call.copy.spec, call.err)

-----------------------------------------------------------------------------
(* Why NoLostWakeup holds: a watch stream may be late, and not incomplete. *)

IsLastEvent(i) ==
  \A j \in 1..Len(nsWatch) : j > i => nsWatch[j].name # nsWatch[i].name

\* The last event of a NodeSwap on the stream, and without one its entry in the
\* cache, is what the server holds.
NewestArrives ==
  /\ \A i \in 1..Len(nsWatch) :
       IsLastEvent(i) => nsWatch[i].object = nodeswap[nsWatch[i].name]
  /\ \A n \in NodeSwaps : ~HasEvent(n) => nsCache[n] = nodeswap[n]

-----------------------------------------------------------------------------
(* The contract.                                                           *)

VerdictOf(conds) ==
  IF conds = NoConditions THEN "nothing"
  ELSE IF IsTrue(conds, typeProgressingNodeSwap) THEN "Progressing"
  ELSE IF IsTrue(conds, typeAvailableNodeSwap) THEN "Available"
  ELSE "Degraded"

\* What a reader of the status makes of it; without an object there is nothing.
ReportOf(object) ==
  LET conds == IF object = NoObject THEN NoConditions ELSE object.conds
  IN  [verdict |-> VerdictOf(conds),
       err |-> IF VerdictOf(conds) = "Degraded" THEN conds[typeDegradedNodeSwap].message
               ELSE "none"]

SpecsHeld == [n \in NodeSwaps |-> IF nodeswap[n] = NoObject THEN NoObject ELSE nodeswap[n].spec]
Reports   == [n \in NodeSwaps |-> ReportOf(nodeswap[n])]

Contract == INSTANCE SwapOperatorContract WITH
  Names      <- NodeSwaps,
  AcceptableSpecs <- {s \in Specs : Acceptable(s)},
  DeployableSpecs <- {s \in Specs : Acceptable(s) /\ ValidLabel(LabelOf(s))},
  LabelsOf   <- [s \in Specs |-> KubeletMCLabels(LabelOf(s))],
  FailuresOf <- [s \in Specs |-> {err \in Errors \ {"none"} : FailsWith(s, err)}],
  None       <- NoObject,
  spec       <- SpecsHeld,
  report     <- Reports,
  mc         <- kubeletMC

\* The operator, with everything it runs on, keeps the contract: a report is
\* written only beside a spec that deserves it, and the MachineConfig is made
\* from a spec that was submitted, only where there is none.
KeepsContract == Contract!Spec

\* Why the MachineConfig is made from a submitted spec: what the operator works
\* on, and what its late calls carry, comes from one.
Submitted(object) == object # NoObject => object.spec \in submitted

MadeFromSubmitted ==
  /\ \A n \in NodeSwaps : Submitted(nodeswap[n]) /\ Submitted(nsCache[n])
  /\ \A i \in 1..Len(nsWatch) : Submitted(nsWatch[i].object)
  /\ pc # "idle" => Submitted(desired)
  /\ \A labels \in lateCreate :
       \E spec \in submitted :
         /\ Acceptable(spec) /\ ValidLabel(LabelOf(spec))
         /\ labels = KubeletMCLabels(LabelOf(spec))

-----------------------------------------------------------------------------
(* Liveness.                                                               *)

Deployable(n) ==
  /\ nodeswap[n] # NoObject
  /\ Acceptable(nodeswap[n].spec) /\ ValidLabel(LabelOf(nodeswap[n].spec))

Unacceptable(n) ==
  /\ nodeswap[n] # NoObject
  /\ \E err \in {"render", "selector"} : FailsWith(nodeswap[n].spec, err)

\* A NodeSwap left with a good spec ends up Available for good, whatever
\* conflicts, failed calls and restarts come first.
GoodSpecSettles ==
  \A n \in NodeSwaps : <>[]Deployable(n) => <>[]Available(nodeswap[n])

\* A NodeSwap left with a spec that does not render or whose selector does
\* not parse ends up Degraded for good.
BadSpecIsReported ==
  \A n \in NodeSwaps : <>[]Unacceptable(n) => <>[]Degraded(nodeswap[n])

\* The kubelet MachineConfig comes back after an administrator deletes it,
\* as long as some NodeSwap asks for it.  No event of the MachineConfig
\* reaches the queue: it is the resync that repairs this.
MachineConfigComesBack ==
  (<>[]\E n \in NodeSwaps : Deployable(n)) => <>[](kubeletMC # NoObject)

PoolsUpdated(n) ==
  \A p \in MatchingPools(LabelOf(nodeswap[n].spec)) : isMachineConfigPoolUpdated(pool[p])

\* r.mcpReady catches up with the pools: when a good NodeSwap is the only one
\* left and its pools stay updated, r.mcpReady stays TRUE.  The event of a pool
\* is queued under the pool's name and ignored, so this too takes the resync.
PoolReadinessCatchesUp ==
  \A n \in NodeSwaps :
    <>[](/\ Deployable(n) /\ PoolsUpdated(n)
         /\ \A m \in NodeSwaps \ {n} : nodeswap[m] = NoObject)
      => <>[]mcpReady

-----------------------------------------------------------------------------
(* What the comments of the repository promise and the code does not keep. *)

Quiet == nsWatch = <<>> /\ mcWatch = <<>> /\ pc = "idle" /\ queue \cup backoff = {}

\* "Always update status with the result (success or failure)"
\* (nodeswap_controller.go:93): whoever stays gets a status.
StatusAlwaysUpdated ==
  \A n \in NodeSwaps :
    <>[](nodeswap[n] # NoObject) => <>(nodeswap[n] # NoObject /\ nodeswap[n].conds # NoConditions)

\* "Available": the resource is fully functional (nodeswap_types.go:91), where
\* the selector is the "label selector for Machines on which swap will be
\* deployed" (line 71): once all is quiet, the MachineConfig carries the label
\* of every Available NodeSwap.
AvailableIsDeployed ==
  Quiet => \A n \in NodeSwaps :
    Available(nodeswap[n]) /\ kubeletMC # NoObject =>
      <<LabelOf(nodeswap[n].spec).key, LabelOf(nodeswap[n].spec).value>> \in kubeletMC

=============================================================================
