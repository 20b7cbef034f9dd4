---------------------------- MODULE NodeSwapProofs ----------------------------
(***************************************************************************)
(* Proofs, for any set of NodeSwaps, specs and pools and any bounds.       *)
(***************************************************************************)
EXTENDS NodeSwapProperties, TLAPS

-----------------------------------------------------------------------------
(* The operators the actions are built from.                               *)

\* Whatever list of conditions it finds, ReconcileStatus leaves a list of
\* conditions.
LEMMA StatusForType ==
  ASSUME NEW conds \in Conditions, NEW err \in Errors
  PROVE  StatusFor(conds, err) \in Conditions
BY DEF StatusFor, Failure, FirstSuccess, Success, Set, Conditions, Condition, ConditionTypes,
       typeAvailableNodeSwap, typeProgressingNodeSwap, typeDegradedNodeSwap, Errors

LEMMA NoConditionsType == NoConditions \in Conditions
BY DEF NoConditions, Conditions, Condition, Absent, Errors

LEMMA NewRevisionType ==
  ASSUME rev \in Nat, NEW spec \in Specs, NEW conds \in Conditions
  PROVE  NewRevision(spec, conds) \in NodeSwap
BY DEF NewRevision, NodeSwap

LEMMA LabelsType ==
  ASSUME NEW spec \in Specs
  PROVE  KubeletMCLabels(LabelOf(spec)) \in MCLabels
BY DEF MCLabels

LEMMA LabelsAreNoNil ==
  ASSUME TypeOK, pc # "idle"
  PROVE  KubeletMCLabels(Selector) # NoObject
BY NoObjectAssumption DEF NoObjectAssumption, TypeOK, OperatorTypeOK, NodeSwap, Selector

-----------------------------------------------------------------------------
(* Type correctness.                                                       *)

LEMMA InitTypeOK == Init => TypeOK
<1> SUFFICES ASSUME Init PROVE TypeOK
  OBVIOUS
<1>1. NoObject \in Object /\ NoObject \in MCLabels
  BY DEF Object, MCLabels
<1>2. StoreTypeOK
  <2>1. nodeswap \in [NodeSwaps -> Object] /\ nsCache \in [NodeSwaps -> Object]
    BY <1>1 DEF Init
  <2>2. nsWatch \in Seq(NodeSwapEvent) /\ mcWatch \in Seq(MCLabels) /\ poolWatch \in Seq(PoolEvent)
    BY DEF Init
  <2>3. deployed \in BOOLEAN /\ submitted \subseteq Specs /\ rev \in Nat
    BY DEF Init
  <2> QED
    BY <1>1, <2>1, <2>2, <2>3 DEF Init, StoreTypeOK
<1>3. OperatorTypeOK
  BY DEF Init, OperatorTypeOK, Requests, Errors
<1>4. LateTypeOK /\ BoundsOK
  BY MaxEditsAssumption, MaxFaultsAssumption
     DEF Init, LateTypeOK, BoundsOK, MaxEditsAssumption, MaxFaultsAssumption
<1> QED
  BY <1>2, <1>3, <1>4 DEF TypeOK

\* The bounded counters, for an action that uses one of them or none.
LEMMA CountersType ==
  ASSUME BoundsOK, Edit \/ Fault \/ OneFault \/ NoFault
  PROVE  BoundsOK'
BY MaxEditsAssumption, MaxFaultsAssumption
   DEF BoundsOK, Edit, Fault, OneFault, NoFault, bounds, MaxEditsAssumption, MaxFaultsAssumption

\* A write of either kind, or none, keeps the types of the server's objects
\* and of their copies.
LEMMA SetNodeSwapType ==
  ASSUME StoreTypeOK, NEW n \in NodeSwaps, NEW object \in Object, SetNodeSwap(n, object),
         submitted' \subseteq Specs
  PROVE  StoreTypeOK'
BY DEF StoreTypeOK, SetNodeSwap, NodeSwapEvent

LEMMA SetKubeletMCType ==
  ASSUME StoreTypeOK, NEW labels \in MCLabels, SetKubeletMC(labels)
  PROVE  StoreTypeOK'
BY DEF StoreTypeOK, SetKubeletMC

LEMMA NoWriteType ==
  ASSUME StoreTypeOK, NoWrite
  PROVE  StoreTypeOK'
BY DEF StoreTypeOK, NoWrite, server, informers, history

\* The status updates that can reach the server: the worker's and the late ones.
Calls == lateStatus \cup {call \in {StatusCall} : pc = "status"}

LEMMA CallType ==
  ASSUME OperatorTypeOK, LateTypeOK, NEW call \in Calls
  PROVE  call \in StatusCalls
BY DEF OperatorTypeOK, LateTypeOK, Calls, StatusCall, StatusCalls

LEMMA WriteStatusType ==
  ASSUME StoreTypeOK, NEW call \in StatusCalls, Current(call.name, call.copy),
         WriteStatus(call.name, StatusFor(call.copy.conds, call.err))
  PROVE  StoreTypeOK'
<1> DEFINE n == call.name
           conds == StatusFor(call.copy.conds, call.err)
<1>1. CASE NoWrite
  BY <1>1, NoWriteType
<1>2. CASE SetNodeSwap(n, NewRevision(nodeswap[n].spec, conds)) /\ UNCHANGED submitted
  <2>1. n \in NodeSwaps /\ nodeswap[n] \in NodeSwap
    BY DEF StoreTypeOK, StatusCalls, Current, Object
  <2>2. conds \in Conditions
    BY StatusForType DEF StatusCalls, NodeSwap
  <2>3. NewRevision(nodeswap[n].spec, conds) \in Object
    BY <2>1, <2>2, NewRevisionType DEF StoreTypeOK, NodeSwap, Object
  <2>4. submitted' \subseteq Specs
    BY <1>2 DEF StoreTypeOK
  <2> QED
    BY <1>2, <2>1, <2>3, <2>4, SetNodeSwapType
<1> QED
  BY <1>1, <1>2 DEF WriteStatus

\* A call becomes late only where the worker has just sent it.
LEMMA LateChanges ==
  ASSUME [Next]_vars
  PROVE  /\ lateStatus' \subseteq Calls
         /\ lateCreate' \subseteq
              lateCreate \cup {labels \in {KubeletMCLabels(Selector)} : pc = "create" /\ Creatable}
<1>1. CASE UNCHANGED late
  BY <1>1 DEF late, Calls
<1>2. CASE StatusIsLate \/ CreateIsLate
  BY <1>2 DEF StatusIsLate, CreateIsLate, Calls
<1>3. CASE LateCalls
  BY <1>3 DEF LateCalls, LateStatusArrives, LateCreateArrives, Calls
<1>4. CASE Environment \/ Informers
  BY <1>1, <1>4
     DEF Environment, UserCreates, UserEdits, UserDeletes, AdminDeletesMC, PoolChanges, Edit,
         Informers, DeliverNodeSwap, DeliverMC, DeliverPool, Resync, Enqueue
<1>5. CASE \E k \in Requests : BackoffExpires(k) \/ Start(k) \/ ReconcileGetFails(k)
  BY <1>1, <1>5 DEF BackoffExpires, Enqueue, Start, ReconcileStarts, ReconcileIgnores,
                    ReconcileGetFails, Fault, NoFault
<1>6. CASE ReconcileSpec
  BY <1>1, <1>6 DEF ReconcileSpec, SpecPanics, SpecDoesNotRender, ListPoolsFails,
                    SelectorDoesNotParse, SpecIsAccepted, Fault, NoFault
<1>7. CASE ReconcileKubeletCgroups
  BY <1>1, <1>2, <1>7
     DEF ReconcileKubeletCgroups, KubeletMCIsCached, KubeletMCIsMissing, GetKubeletMCFails,
         CreatesKubeletMC, KubeletMCAlreadyExists, KubeletMCIsRefused, CreateKubeletMCFails,
         CreateTimesOut, Fault, NoFault
<1>8. CASE ReconcileStatus
  BY <1>1, <1>2, <1>8 DEF ReconcileStatus, StatusIsUpdated, StatusIsRefused, StatusUpdateFails,
                          StatusTimesOut, Fault, NoFault
<1>9. CASE Restart \/ UNCHANGED vars
  BY <1>1, <1>2, <1>9 DEF Restart, vars
<1> QED
  BY <1>3, <1>4, <1>5, <1>6, <1>7, <1>8, <1>9 DEF Next, Worker

LEMMA LateType ==
  ASSUME TypeOK, [Next]_vars
  PROVE  LateTypeOK'
<1>1. lateStatus' \subseteq StatusCalls
  BY LateChanges, CallType DEF TypeOK
<1>2. pc = "create" => KubeletMCLabels(Selector) \in MCLabels \ {NoObject}
  BY LabelsType, LabelsAreNoNil DEF TypeOK, OperatorTypeOK, Selector, LabelOf, NodeSwap
<1>3. lateCreate' \subseteq MCLabels \ {NoObject}
  BY <1>2, LateChanges DEF TypeOK, LateTypeOK
<1> QED
  BY <1>1, <1>3 DEF LateTypeOK

LEMMA NextTypeOK == TypeOK /\ [Next]_vars => TypeOK'
<1> SUFFICES ASSUME TypeOK, StoreTypeOK, OperatorTypeOK, LateTypeOK, BoundsOK, [Next]_vars
             PROVE  StoreTypeOK' /\ OperatorTypeOK' /\ BoundsOK'
  BY LateType DEF TypeOK
<1> DEFINE Goal == StoreTypeOK' /\ OperatorTypeOK' /\ BoundsOK'
<1>1. ASSUME Edit PROVE OperatorTypeOK' /\ BoundsOK'
  BY <1>1, CountersType DEF Edit, OperatorTypeOK, workqueue, worker
<1>2. ASSUME NEW n \in NodeSwaps, NEW spec \in Specs, UserCreates(n, spec) PROVE Goal
  <2>1. NewRevision(spec, NoConditions) \in Object
    BY NewRevisionType, NoConditionsType DEF StoreTypeOK, Object
  <2> QED
    BY <1>1, <1>2, <2>1, SetNodeSwapType DEF UserCreates, StoreTypeOK
<1>3. ASSUME NEW n \in NodeSwaps, NEW spec \in Specs, UserEdits(n, spec) PROVE Goal
  <2>1. NewRevision(spec, nodeswap[n].conds) \in Object
    BY <1>3, NewRevisionType DEF StoreTypeOK, UserEdits, Object, NodeSwap
  <2> QED
    BY <1>1, <1>3, <2>1, SetNodeSwapType DEF UserEdits, StoreTypeOK
<1>4. ASSUME NEW n \in NodeSwaps, UserDeletes(n) PROVE Goal
  BY <1>1, <1>4, SetNodeSwapType DEF UserDeletes, StoreTypeOK, Object
<1>5. CASE AdminDeletesMC
  <2>1. NoObject \in MCLabels
    BY DEF MCLabels
  <2> QED
    BY <1>1, <1>5, <2>1, SetKubeletMCType DEF AdminDeletesMC
<1>6. ASSUME NEW p \in Pools, NEW c \in PoolConditions, PoolChanges(p, c) PROVE Goal
  <2>1. StoreTypeOK'
    BY <1>6 DEF StoreTypeOK, PoolChanges, PoolEvent, history
  <2> QED
    BY <1>1, <1>6, <2>1 DEF PoolChanges
<1>7. ASSUME NEW requests \in SUBSET Requests, Enqueue(requests),
             backoff' \in SUBSET Requests
      PROVE  OperatorTypeOK' /\ BoundsOK'
  BY <1>7 DEF OperatorTypeOK, BoundsOK, Enqueue, worker, bounds
<1>8. CASE DeliverNodeSwap
  <2>1. Head(nsWatch) \in NodeSwapEvent /\ Tail(nsWatch) \in Seq(NodeSwapEvent)
    BY <1>8 DEF StoreTypeOK, DeliverNodeSwap
  <2>2. StoreTypeOK'
    BY <1>8, <2>1 DEF StoreTypeOK, DeliverNodeSwap, NodeSwapEvent, Enqueue, server, history
  <2>3. {Head(nsWatch).name} \in SUBSET Requests /\ backoff' \in SUBSET Requests
    BY <1>8, <2>1 DEF DeliverNodeSwap, NodeSwapEvent, OperatorTypeOK, Requests
  <2> QED
    BY <1>7, <1>8, <2>2, <2>3 DEF DeliverNodeSwap
<1>9. CASE DeliverMC
  <2>1. StoreTypeOK'
    BY <1>9 DEF StoreTypeOK, DeliverMC, Enqueue, server, history
  <2>2. OwnerRequests \in SUBSET Requests /\ backoff' \in SUBSET Requests
    BY <1>9 DEF DeliverMC, OperatorTypeOK, OwnerRequests
  <2> QED
    BY <1>7, <1>9, <2>1, <2>2 DEF DeliverMC
<1>10. CASE DeliverPool
  <2>1. Head(poolWatch) \in PoolEvent /\ Tail(poolWatch) \in Seq(PoolEvent)
    BY <1>10 DEF StoreTypeOK, DeliverPool
  <2>2. StoreTypeOK'
    BY <1>10, <2>1 DEF StoreTypeOK, DeliverPool, PoolEvent, Enqueue, server, history
  <2>3. {Head(poolWatch).name} \in SUBSET Requests /\ backoff' \in SUBSET Requests
    BY <1>10, <2>1 DEF DeliverPool, PoolEvent, OperatorTypeOK, Requests
  <2> QED
    BY <1>7, <1>10, <2>2, <2>3 DEF DeliverPool
<1>11. CASE Resync
  <2> DEFINE all == {n \in NodeSwaps : nsCache[n] # NoObject} \cup OwnerRequests \cup Pools
  <2>1. all \in SUBSET Requests /\ backoff' \in SUBSET Requests
    BY <1>11 DEF Resync, OperatorTypeOK, OwnerRequests, Requests
  <2>2. StoreTypeOK'
    BY <1>11 DEF StoreTypeOK, Resync, Enqueue, server, informers, history
  <2> QED
    BY <1>7, <1>11, <2>1, <2>2 DEF Resync
<1>12. ASSUME NEW k \in Requests, BackoffExpires(k) PROVE Goal
  <2>1. StoreTypeOK'
    BY <1>12 DEF StoreTypeOK, BackoffExpires, Enqueue, server, informers, history
  <2>2. {k} \in SUBSET Requests /\ backoff' \in SUBSET Requests
    BY <1>12 DEF BackoffExpires, OperatorTypeOK
  <2> QED
    BY <1>7, <1>12, <2>1, <2>2 DEF BackoffExpires
<1>13. ASSUME NEW k \in Requests, Start(k) \/ ReconcileGetFails(k) PROVE Goal
  <2>1. StoreTypeOK' /\ BoundsOK'
    BY <1>13, NoWriteType, CountersType
       DEF Start, ReconcileStarts, ReconcileIgnores, ReconcileGetFails
  <2>2. OperatorTypeOK'
    BY <1>13 DEF OperatorTypeOK, StoreTypeOK, Start, ReconcileStarts, ReconcileIgnores,
                 ReconcileGetFails, Found, Object, worker
  <2> QED
    BY <2>1, <2>2
<1>14. CASE ReconcileSpec
  <2>1. StoreTypeOK' /\ BoundsOK'
    BY <1>14, NoWriteType, CountersType
       DEF ReconcileSpec, SpecPanics, SpecDoesNotRender, ListPoolsFails, SelectorDoesNotParse,
           SpecIsAccepted
  <2>2. mcpReady' \in BOOLEAN
    BY <1>14 DEF OperatorTypeOK, ReconcileSpec, SpecPanics, SpecDoesNotRender, ListPoolsFails,
                 SelectorDoesNotParse, SpecIsAccepted, Return, SpecResult, AllUpdated
  <2>3. OperatorTypeOK'
    BY <1>14, <2>2 DEF OperatorTypeOK, ReconcileSpec, SpecPanics, SpecDoesNotRender,
                       ListPoolsFails, SelectorDoesNotParse, SpecIsAccepted, Return, SpecResult,
                       Requests, Errors, workqueue
  <2> QED
    BY <2>1, <2>3
<1>15. CASE ReconcileKubeletCgroups
  <2>1. pc # "idle" => KubeletMCLabels(Selector) \in MCLabels
    BY LabelsType DEF OperatorTypeOK, Selector, LabelOf, NodeSwap
  <2>2. StoreTypeOK' /\ BoundsOK'
    BY <1>15, <2>1, SetKubeletMCType, NoWriteType, CountersType
       DEF ReconcileKubeletCgroups, KubeletMCIsCached, KubeletMCIsMissing, GetKubeletMCFails,
           CreatesKubeletMC, KubeletMCAlreadyExists, KubeletMCIsRefused, CreateKubeletMCFails,
           CreateTimesOut
  <2>3. OperatorTypeOK'
    BY <1>15 DEF OperatorTypeOK, ReconcileKubeletCgroups, KubeletMCIsCached, KubeletMCIsMissing,
                 GetKubeletMCFails, CreatesKubeletMC, KubeletMCAlreadyExists, KubeletMCIsRefused,
                 CreateKubeletMCFails, CreateTimesOut, CreateIsLate, SpecResult, Errors, workqueue
  <2> QED
    BY <2>2, <2>3
<1>16. CASE ReconcileStatus
  <2>1. StoreTypeOK' /\ BoundsOK'
    <3>1. CASE StatusIsUpdated
      <4>1. StatusCall \in StatusCalls
        BY <3>1, CallType DEF StatusIsUpdated, Calls
      <4> QED
        BY <3>1, <4>1, WriteStatusType, CountersType DEF StatusIsUpdated, StatusCall
    <3>2. CASE StatusIsRefused \/ StatusUpdateFails \/ StatusTimesOut
      BY <3>2, NoWriteType, CountersType DEF StatusIsRefused, StatusUpdateFails, StatusTimesOut
    <3> QED
      BY <1>16, <3>1, <3>2 DEF ReconcileStatus
  <2>2. OperatorTypeOK'
    BY <1>16 DEF OperatorTypeOK, ReconcileStatus, StatusIsUpdated, StatusIsRefused,
                 StatusUpdateFails, StatusTimesOut, StatusIsLate, Return, Requests, Errors
  <2> QED
    BY <2>1, <2>2
<1>17. CASE Restart
  <2>1. StoreTypeOK'
    BY <1>17 DEF StoreTypeOK, Restart, server, history
  <2>2. OperatorTypeOK'
    BY <1>17 DEF OperatorTypeOK, Restart, Errors, OwnerRequests, Requests
  <2> QED
    BY <1>17, <2>1, <2>2, CountersType DEF Restart
<1>18. CASE LateCalls
  <2>1. ASSUME NEW labels \in lateCreate, LateCreateArrives(labels) PROVE Goal
    <3>1. StoreTypeOK'
      BY <2>1, SetKubeletMCType, NoWriteType DEF LateCreateArrives, LateTypeOK
    <3> QED
      BY <2>1, <3>1 DEF LateCreateArrives, OperatorTypeOK, BoundsOK, workqueue, worker, bounds
  <2>2. ASSUME NEW call \in lateStatus, LateStatusArrives(call) PROVE Goal
    <3>1. StoreTypeOK'
      BY <2>2, WriteStatusType, NoWriteType DEF LateStatusArrives, LateTypeOK
    <3> QED
      BY <2>2, <3>1 DEF LateStatusArrives, OperatorTypeOK, BoundsOK, workqueue, worker, bounds
  <2> QED
    BY <1>18, <2>1, <2>2 DEF LateCalls
<1>19. CASE UNCHANGED vars
  BY <1>19 DEF StoreTypeOK, OperatorTypeOK, BoundsOK, vars, server, informers, workqueue, worker,
               history, bounds
<1> QED
  BY <1>2, <1>3, <1>4, <1>5, <1>6, <1>8, <1>9, <1>10, <1>11, <1>12, <1>13, <1>14, <1>15, <1>16,
     <1>17, <1>18, <1>19
     DEF Next, Environment, Informers, Worker

\* The reconciler, its caches and the server hold what they should, in every
\* state of every cluster.
THEOREM TypeCorrect == Spec => []TypeOK
BY InitTypeOK, NextTypeOK, PTL DEF Spec

-----------------------------------------------------------------------------
(* Copies of NodeSwaps.                                                    *)

\* A new revision of an object is newer than every copy there is of it.
LEMMA NewRevisionIsNewer ==
  ASSUME NEW r \in Nat, NEW copy \in Object, NEW old \in Object, NEW new \in Object,
         FaithfulTo(copy, old, r), new = NoObject \/ new.rv = r + 1
  PROVE  FaithfulTo(copy, new, r + 1)
BY DEF FaithfulTo, Object, NodeSwap

LEMMA LaterRevision ==
  ASSUME NEW r \in Nat, NEW s \in Nat, r <= s, NEW copy \in Object, NEW object,
         FaithfulTo(copy, object, r)
  PROVE  FaithfulTo(copy, object, s)
BY DEF FaithfulTo, Object, NodeSwap

LEMMA CallFaithful ==
  ASSUME TypeOK, CopiesFaithful, NEW call \in Calls
  PROVE  call \in StatusCalls /\ call.copy \in Object /\ Faithful(call.name, call.copy)
<1>1. call \in StatusCalls
  BY CallType DEF TypeOK
<1> QED
  BY <1>1 DEF Calls, StatusCall, StatusCalls, CopiesFaithful, Object

LEMMA SetNodeSwapFaithful ==
  ASSUME TypeOK, CopiesFaithful, NEW n \in NodeSwaps, NEW object \in Object,
         object = NoObject \/ object.rv = rev + 1, SetNodeSwap(n, object),
         pc' = "idle" \/ UNCHANGED <<pc, req, desired>>, [Next]_vars
  PROVE  CopiesFaithful'
<1>1. /\ rev \in Nat /\ rev' = rev + 1 /\ rev <= rev + 1 /\ rev + 1 \in Nat
      /\ nodeswap \in [NodeSwaps -> Object] /\ nsCache \in [NodeSwaps -> Object]
      /\ nsWatch \in Seq(NodeSwapEvent)
      /\ nodeswap' = [nodeswap EXCEPT ![n] = object] /\ nsCache' = nsCache
      /\ nsWatch' = Append(nsWatch, [name |-> n, object |-> object])
  BY DEF TypeOK, StoreTypeOK, SetNodeSwap
<1>2. ASSUME NEW m \in NodeSwaps, NEW copy \in Object, FaithfulTo(copy, nodeswap[m], rev)
      PROVE  FaithfulTo(copy, nodeswap'[m], rev')
  <2>1. CASE m = n
    BY <1>1, <1>2, <2>1, NewRevisionIsNewer
  <2>2. CASE m # n
    BY <1>1, <1>2, <2>2, LaterRevision
  <2> QED
    BY <2>1, <2>2
<1>3. FaithfulTo(object, object, rev')
  BY <1>1 DEF FaithfulTo
<1>4. ASSUME NEW m \in NodeSwaps
      PROVE  FaithfulTo(nodeswap'[m], nodeswap'[m], rev') /\ FaithfulTo(nsCache'[m], nodeswap'[m], rev')
  <2>1. FaithfulTo(nodeswap[m], nodeswap[m], rev) /\ FaithfulTo(nsCache[m], nodeswap[m], rev)
    BY <1>4 DEF CopiesFaithful, Faithful
  <2>2. nodeswap[m] \in Object /\ nsCache[m] \in Object
    BY <1>1, <1>4
  <2>3. FaithfulTo(nsCache'[m], nodeswap'[m], rev')
    BY <1>1, <1>2, <2>1, <2>2
  <2>4. CASE m = n
    BY <1>1, <1>3, <2>3, <2>4
  <2>5. CASE m # n
    <3>1. nodeswap'[m] = nodeswap[m]
      BY <1>1, <1>4, <2>5
    <3> QED
      BY <1>2, <1>4, <2>1, <2>2, <2>3, <3>1
  <2> QED
    BY <2>4, <2>5
<1>5. ASSUME NEW i \in 1..Len(nsWatch')
      PROVE  FaithfulTo(nsWatch'[i].object, nodeswap'[nsWatch'[i].name], rev')
  <2>1. CASE i = Len(nsWatch) + 1
    <3>1. nsWatch'[i] = [name |-> n, object |-> object]
      BY <1>1, <2>1
    <3> QED
      BY <1>1, <1>3, <3>1
  <2>2. CASE i # Len(nsWatch) + 1
    <3>1. i \in 1..Len(nsWatch) /\ nsWatch'[i] = nsWatch[i] /\ nsWatch[i] \in NodeSwapEvent
      BY <1>1, <1>5, <2>2
    <3>2. FaithfulTo(nsWatch[i].object, nodeswap[nsWatch[i].name], rev)
      BY <3>1 DEF CopiesFaithful, Faithful
    <3> QED
      BY <1>2, <3>1, <3>2 DEF NodeSwapEvent
  <2> QED
    BY <2>1, <2>2
<1>6. pc' # "idle" => FaithfulTo(desired', nodeswap'[req'], rev')
  <2> SUFFICES ASSUME pc' # "idle" PROVE FaithfulTo(desired, nodeswap'[req], rev')
    OBVIOUS
  <2>1. req \in NodeSwaps /\ desired \in Object /\ FaithfulTo(desired, nodeswap[req], rev)
    BY DEF TypeOK, OperatorTypeOK, CopiesFaithful, Faithful, Object
  <2> QED
    BY <1>2, <2>1
<1>7. ASSUME NEW call \in lateStatus' PROVE FaithfulTo(call.copy, nodeswap'[call.name], rev')
  <2>1. call \in StatusCalls /\ call.copy \in Object /\ Faithful(call.name, call.copy)
    BY <1>7, LateChanges, CallFaithful
  <2> QED
    BY <1>2, <2>1 DEF Faithful, StatusCalls
<1> QED
  BY <1>4, <1>5, <1>6, <1>7 DEF CopiesFaithful, Faithful

\* The steps that leave the NodeSwaps and their copies in stream and cache
\* alone: the worker goes on with its copy, takes the cached one, or has none.
LEMMA OtherStepsFaithful ==
  ASSUME TypeOK, CopiesFaithful, [Next]_vars, UNCHANGED <<nodeswap, nsWatch, nsCache>>,
         rev' = rev \/ rev' = rev + 1,
         \/ pc' = "idle"
         \/ pc # "idle" /\ UNCHANGED <<req, desired>>
         \/ req' \in NodeSwaps /\ desired' = nsCache[req']
  PROVE  CopiesFaithful'
<1>1. /\ rev \in Nat /\ rev' \in Nat /\ rev <= rev'
      /\ nodeswap \in [NodeSwaps -> Object] /\ nsCache \in [NodeSwaps -> Object]
      /\ nsWatch \in Seq(NodeSwapEvent)
  BY DEF TypeOK, StoreTypeOK
<1>2. ASSUME NEW m \in NodeSwaps
      PROVE  FaithfulTo(nodeswap[m], nodeswap[m], rev') /\ FaithfulTo(nsCache[m], nodeswap[m], rev')
  <2>1. FaithfulTo(nodeswap[m], nodeswap[m], rev) /\ FaithfulTo(nsCache[m], nodeswap[m], rev)
    BY <1>2 DEF CopiesFaithful, Faithful
  <2> QED
    BY <1>1, <1>2, <2>1, LaterRevision
<1>3. ASSUME NEW i \in 1..Len(nsWatch)
      PROVE  FaithfulTo(nsWatch[i].object, nodeswap[nsWatch[i].name], rev')
  <2>1. FaithfulTo(nsWatch[i].object, nodeswap[nsWatch[i].name], rev)
        /\ nsWatch[i] \in NodeSwapEvent
    BY <1>1, <1>3 DEF CopiesFaithful, Faithful
  <2> QED
    BY <1>1, <2>1, LaterRevision DEF NodeSwapEvent
<1>4. pc' # "idle" => FaithfulTo(desired', nodeswap[req'], rev')
  <2>1. CASE pc # "idle" /\ UNCHANGED <<req, desired>>
    <3>1. req \in NodeSwaps /\ desired \in Object /\ FaithfulTo(desired, nodeswap[req], rev)
      BY <2>1 DEF TypeOK, OperatorTypeOK, CopiesFaithful, Faithful, Object
    <3> QED
      BY <1>1, <2>1, <3>1, LaterRevision
  <2>2. CASE req' \in NodeSwaps /\ desired' = nsCache[req']
    BY <1>2, <2>2
  <2> QED
    BY <2>1, <2>2
<1>5. ASSUME NEW call \in lateStatus' PROVE FaithfulTo(call.copy, nodeswap[call.name], rev')
  <2>1. call.copy \in Object /\ FaithfulTo(call.copy, nodeswap[call.name], rev)
    BY <1>5, LateChanges, CallFaithful DEF Faithful
  <2> QED
    BY <1>1, <2>1, LaterRevision
<1> QED
  BY <1>2, <1>3, <1>4, <1>5 DEF CopiesFaithful, Faithful

LEMMA NewRevisionNumber ==
  ASSUME NEW spec, NEW conds
  PROVE  NewRevision(spec, conds).rv = rev + 1
BY DEF NewRevision

LEMMA InitFaithful == Init => CopiesFaithful
BY DEF Init, CopiesFaithful, Faithful, FaithfulTo

LEMMA NextFaithful == TypeOK /\ CopiesFaithful /\ [Next]_vars => CopiesFaithful'
<1> SUFFICES ASSUME TypeOK, CopiesFaithful, [Next]_vars PROVE CopiesFaithful'
  OBVIOUS
<1>1. ASSUME NEW n \in NodeSwaps, NEW spec \in Specs, UserCreates(n, spec) PROVE CopiesFaithful'
  <2>1. NewRevision(spec, NoConditions) \in Object
    BY NewRevisionType, NoConditionsType DEF TypeOK, StoreTypeOK, Object
  <2> QED
    BY <1>1, <2>1, NewRevisionNumber, SetNodeSwapFaithful DEF UserCreates, Edit, worker
<1>2. ASSUME NEW n \in NodeSwaps, NEW spec \in Specs, UserEdits(n, spec) PROVE CopiesFaithful'
  <2>1. NewRevision(spec, nodeswap[n].conds) \in Object
    BY <1>2, NewRevisionType DEF TypeOK, StoreTypeOK, UserEdits, Object, NodeSwap
  <2> QED
    BY <1>2, <2>1, NewRevisionNumber, SetNodeSwapFaithful DEF UserEdits, Edit, worker
<1>3. ASSUME NEW n \in NodeSwaps, UserDeletes(n) PROVE CopiesFaithful'
  <2>1. NoObject \in Object
    BY DEF Object
  <2> QED
    BY <1>3, <2>1, SetNodeSwapFaithful DEF UserDeletes, Edit, worker
<1>4. CASE AdminDeletesMC \/ \E p \in Pools, c \in PoolConditions : PoolChanges(p, c)
  BY <1>4, OtherStepsFaithful DEF AdminDeletesMC, PoolChanges, SetKubeletMC, Edit, worker,
                                  TypeOK, OperatorTypeOK
<1>5. CASE DeliverNodeSwap
  <2>1. /\ Head(nsWatch) \in NodeSwapEvent
        /\ nsCache \in [NodeSwaps -> Object] /\ nsWatch \in Seq(NodeSwapEvent)
        /\ nsCache' = [nsCache EXCEPT ![Head(nsWatch).name] = Head(nsWatch).object]
        /\ nsWatch # <<>> /\ nsWatch' = Tail(nsWatch)
        /\ UNCHANGED <<nodeswap, rev, pc, req, desired>>
    BY <1>5 DEF TypeOK, StoreTypeOK, DeliverNodeSwap, Enqueue, server, worker
  <2>2. Faithful(Head(nsWatch).name, Head(nsWatch).object)
    BY <2>1 DEF CopiesFaithful
  <2>3. ASSUME NEW m \in NodeSwaps PROVE Faithful(m, nsCache'[m])
    <3>1. Faithful(m, nsCache[m])
      BY <2>3 DEF CopiesFaithful
    <3> QED
      BY <2>1, <2>2, <3>1 DEF NodeSwapEvent
  <2>4. ASSUME NEW i \in 1..Len(Tail(nsWatch))
        PROVE  Faithful(Tail(nsWatch)[i].name, Tail(nsWatch)[i].object)
    <3>1. i + 1 \in 1..Len(nsWatch) /\ Tail(nsWatch)[i] = nsWatch[i + 1]
      BY <2>1, <2>4
    <3> QED
      BY <3>1 DEF CopiesFaithful
  <2>5. lateStatus' = lateStatus
    BY <1>5 DEF DeliverNodeSwap, Enqueue, late
  <2> QED
    BY <2>1, <2>3, <2>4, <2>5 DEF CopiesFaithful, Faithful
<1>6. CASE \/ DeliverMC \/ DeliverPool \/ Resync
           \/ \E k \in Requests : BackoffExpires(k)
  BY <1>6, OtherStepsFaithful DEF DeliverMC, DeliverPool, Resync, BackoffExpires, Enqueue, server,
                                  informers, worker, TypeOK, OperatorTypeOK
<1>7. CASE \E k \in Requests : Start(k) \/ ReconcileGetFails(k)
  BY <1>7, OtherStepsFaithful
     DEF Start, ReconcileStarts, ReconcileIgnores, ReconcileGetFails, Found, NoWrite, server,
         informers, worker
<1>8. CASE ReconcileSpec
  BY <1>8, OtherStepsFaithful
     DEF ReconcileSpec, SpecPanics, SpecDoesNotRender, ListPoolsFails, SelectorDoesNotParse,
         SpecIsAccepted, Return, SpecResult, NoWrite, server, informers
<1>9. CASE ReconcileKubeletCgroups
  BY <1>9, OtherStepsFaithful
     DEF ReconcileKubeletCgroups, KubeletMCIsCached, KubeletMCIsMissing, GetKubeletMCFails,
         CreatesKubeletMC, KubeletMCAlreadyExists, KubeletMCIsRefused, CreateKubeletMCFails,
         CreateTimesOut, CreateIsLate, SetKubeletMC, SpecResult, NoWrite, server, informers
<1>10. ASSUME NEW call \in Calls, Current(call.name, call.copy),
              WriteStatus(call.name, StatusFor(call.copy.conds, call.err)),
              pc' = "idle" \/ UNCHANGED worker
       PROVE  CopiesFaithful'
  <2> DEFINE n == call.name
             conds == StatusFor(call.copy.conds, call.err)
  <2>1. CASE NoWrite
    BY <1>10, <2>1, OtherStepsFaithful DEF NoWrite, server, informers, worker, TypeOK, OperatorTypeOK
  <2>2. CASE SetNodeSwap(n, NewRevision(nodeswap[n].spec, conds))
    <3>1. n \in NodeSwaps /\ call \in StatusCalls /\ nodeswap[n] \in NodeSwap
      BY <1>10, CallFaithful DEF TypeOK, StoreTypeOK, Current, Object, StatusCalls
    <3>2. conds \in Conditions
      BY <3>1, StatusForType DEF StatusCalls, NodeSwap
    <3>3. NewRevision(nodeswap[n].spec, conds) \in Object
      BY <3>1, <3>2, NewRevisionType DEF TypeOK, StoreTypeOK, NodeSwap, Object
    <3> QED
      BY <1>10, <2>2, <3>1, <3>3, NewRevisionNumber, SetNodeSwapFaithful DEF worker
  <2> QED
    BY <1>10, <2>1, <2>2 DEF WriteStatus
<1>11. CASE ReconcileStatus
  <2>1. CASE StatusIsUpdated
    <3>1. StatusCall \in Calls
      BY <2>1 DEF StatusIsUpdated, Calls
    <3>2. StatusCall.name = req /\ StatusCall.copy = desired /\ StatusCall.err = reconcileErr
      BY DEF StatusCall
    <3> QED
      BY <1>10, <2>1, <3>1, <3>2 DEF StatusIsUpdated, Return
  <2>2. CASE StatusIsRefused \/ StatusUpdateFails \/ StatusTimesOut
    BY <2>2, OtherStepsFaithful DEF StatusIsRefused, StatusUpdateFails, StatusTimesOut, Return,
                                    NoWrite, server, informers
  <2> QED
    BY <1>11, <2>1, <2>2 DEF ReconcileStatus
<1>12. ASSUME NEW call \in lateStatus, LateStatusArrives(call) PROVE CopiesFaithful'
  <2>1. CASE Current(call.name, call.copy)
    BY <1>10, <1>12, <2>1 DEF LateStatusArrives, Calls
  <2>2. CASE ~Current(call.name, call.copy)
    BY <1>12, <2>2, OtherStepsFaithful DEF LateStatusArrives, NoWrite, server, informers, worker,
                                           TypeOK, OperatorTypeOK
  <2> QED
    BY <2>1, <2>2
<1>13. ASSUME NEW labels \in lateCreate, LateCreateArrives(labels) PROVE CopiesFaithful'
  BY <1>13, OtherStepsFaithful DEF LateCreateArrives, SetKubeletMC, NoWrite, server, informers,
                                   worker, TypeOK, OperatorTypeOK
<1>14. CASE Restart
  <2>1. ASSUME NEW call \in lateStatus' PROVE Faithful(call.name, call.copy)
    BY <2>1, LateChanges, CallFaithful
  <2> QED
    BY <1>14, <2>1 DEF Restart, CopiesFaithful, Faithful, server
<1>15. CASE UNCHANGED vars
  BY <1>15 DEF CopiesFaithful, Faithful, vars, server, informers, worker, late
<1> QED
  BY <1>1, <1>2, <1>3, <1>4, <1>5, <1>6, <1>7, <1>8, <1>9, <1>11, <1>12, <1>13,
     <1>14, <1>15
     DEF Next, Environment, Informers, Worker, LateCalls

\* A copy a reconcile or a cache holds under the server's own revision is the
\* server's object: what makes the optimistic status update safe.
THEOREM CopiesAreFaithful == Spec => []CopiesFaithful
BY TypeCorrect, InitFaithful, NextFaithful, PTL DEF Spec

-----------------------------------------------------------------------------
(* What a reconcile has earned when it comes to the status.                *)

LEMMA DeployedStays == [Next]_vars => (deployed => deployed')
BY DEF Next, LateCalls, LateCreateArrives, LateStatusArrives, Environment, Informers, Worker, UserCreates, UserEdits, UserDeletes, AdminDeletesMC,
       PoolChanges, SetNodeSwap, SetKubeletMC, DeliverNodeSwap, DeliverMC, DeliverPool, Resync,
       Enqueue, BackoffExpires, Start, ReconcileStarts, ReconcileIgnores, ReconcileGetFails,
       ReconcileSpec, SpecPanics, SpecDoesNotRender, ListPoolsFails, SelectorDoesNotParse,
       SpecIsAccepted, ReconcileKubeletCgroups, KubeletMCIsCached, KubeletMCIsMissing,
       GetKubeletMCFails, CreatesKubeletMC, KubeletMCAlreadyExists, KubeletMCIsRefused,
       CreateKubeletMCFails, CreateTimesOut, ReconcileStatus, StatusIsUpdated,
       StatusIsRefused, StatusUpdateFails, StatusTimesOut, WriteStatus, Restart, NoWrite,
       history, vars

LEMMA InitEarned == Init => SeenMeansDeployed /\ ResultEarned
BY DEF Init, SeenMeansDeployed, ResultEarned

LEMMA NextDeployed == TypeOK /\ SeenMeansDeployed /\ [Next]_vars => SeenMeansDeployed'
<1> SUFFICES ASSUME TypeOK, SeenMeansDeployed, [Next]_vars PROVE SeenMeansDeployed'
  OBVIOUS
<1>1. mcWatch \in Seq(MCLabels) /\ deployed \in BOOLEAN
  BY DEF TypeOK, StoreTypeOK
<1>2. CASE UNCHANGED <<kubeletMC, mcWatch, mcCache>>
  BY <1>2, DeployedStays DEF SeenMeansDeployed
<1>3. ASSUME NEW labels \in MCLabels, SetKubeletMC(labels) PROVE SeenMeansDeployed'
  <2>1. /\ kubeletMC' = labels /\ mcCache' = mcCache /\ mcWatch' = Append(mcWatch, labels)
        /\ deployed' = (deployed \/ labels # NoObject)
    BY <1>3 DEF SetKubeletMC
  <2>2. ASSUME NEW i \in 1..Len(mcWatch'), mcWatch'[i] # NoObject PROVE deployed'
    <3>1. CASE i = Len(mcWatch) + 1
      <4>1. mcWatch'[i] = labels
        BY <1>1, <2>1, <3>1
      <4> QED
        BY <2>1, <2>2, <4>1
    <3>2. CASE i # Len(mcWatch) + 1
      <4>1. i \in 1..Len(mcWatch) /\ mcWatch'[i] = mcWatch[i]
        BY <1>1, <2>1, <2>2, <3>2
      <4> QED
        BY <2>1, <2>2, <4>1 DEF SeenMeansDeployed
    <3> QED
      BY <3>1, <3>2
  <2> QED
    BY <2>1, <2>2 DEF SeenMeansDeployed
<1>4. CASE AdminDeletesMC
  BY <1>3, <1>4 DEF AdminDeletesMC, MCLabels
<1>5. CASE CreatesKubeletMC
  <2>1. KubeletMCLabels(Selector) \in MCLabels
    BY <1>5, LabelsType DEF TypeOK, OperatorTypeOK, CreatesKubeletMC, Selector, LabelOf, NodeSwap
  <2> QED
    BY <1>3, <1>5, <2>1 DEF CreatesKubeletMC
<1>6. CASE DeliverMC
  <2>1. /\ mcWatch # <<>> /\ mcCache' = Head(mcWatch) /\ mcWatch' = Tail(mcWatch)
        /\ kubeletMC' = kubeletMC /\ deployed' = deployed
    BY <1>6 DEF DeliverMC, Enqueue, server, history
  <2>2. mcCache' # NoObject => deployed
    BY <1>1, <2>1 DEF SeenMeansDeployed
  <2>3. ASSUME NEW i \in 1..Len(mcWatch') PROVE i + 1 \in 1..Len(mcWatch) /\ mcWatch'[i] = mcWatch[i + 1]
    BY <1>1, <2>1, <2>3
  <2> QED
    BY <2>1, <2>2, <2>3 DEF SeenMeansDeployed
<1>7. CASE Restart
  BY <1>7 DEF SeenMeansDeployed, Restart, server, history
<1>8. CASE Environment
  BY <1>2, <1>4, <1>8 DEF Environment, UserCreates, UserEdits, UserDeletes, PoolChanges, SetNodeSwap
<1>9. CASE Informers
  BY <1>2, <1>6, <1>9 DEF Informers, DeliverNodeSwap, DeliverPool, Resync, Enqueue, server, informers
<1>10. CASE \E k \in Requests : BackoffExpires(k) \/ Start(k) \/ ReconcileGetFails(k)
  BY <1>2, <1>10 DEF BackoffExpires, Enqueue, Start, ReconcileStarts, ReconcileIgnores,
                     ReconcileGetFails, NoWrite, server, informers
<1>11. CASE Worker
  BY <1>2, <1>5, <1>11
     DEF Worker, ReconcileSpec, SpecPanics, SpecDoesNotRender, ListPoolsFails,
         SelectorDoesNotParse, SpecIsAccepted, ReconcileKubeletCgroups, KubeletMCIsCached,
         KubeletMCIsMissing, GetKubeletMCFails, KubeletMCAlreadyExists, KubeletMCIsRefused,
         CreateKubeletMCFails, CreateTimesOut, ReconcileStatus, StatusIsUpdated, StatusIsRefused,
         StatusUpdateFails, StatusTimesOut, WriteStatus, SetNodeSwap, NoWrite, server, informers
<1>12. ASSUME NEW labels \in lateCreate, LateCreateArrives(labels) PROVE SeenMeansDeployed'
  BY <1>2, <1>3, <1>12 DEF LateCreateArrives, NoWrite, server, informers, TypeOK, LateTypeOK
<1>13. ASSUME NEW call \in lateStatus, LateStatusArrives(call) PROVE SeenMeansDeployed'
  BY <1>2, <1>13 DEF LateStatusArrives, WriteStatus, SetNodeSwap, NoWrite, server, informers
<1>14. CASE UNCHANGED vars
  BY <1>2, <1>14 DEF vars, server, informers
<1> QED
  BY <1>7, <1>8, <1>9, <1>10, <1>11, <1>12, <1>13, <1>14 DEF Next, LateCalls

LEMMA CallEarned ==
  ASSUME ResultEarned, NEW call \in Calls
  PROVE  Earned(call.copy.spec, call.err)
BY DEF ResultEarned, Calls, StatusCall

\* The worker's part of ResultEarned.
WorkerEarned ==
  /\ pc \in {"kubelet", "create"} => Acceptable(desired.spec)
  /\ pc = "status" => Earned(desired.spec, reconcileErr)

LEMMA NextEarned ==
  TypeOK /\ SeenMeansDeployed /\ ResultEarned /\ [Next]_vars => ResultEarned'
<1> SUFFICES ASSUME TypeOK, SeenMeansDeployed, ResultEarned, [Next]_vars PROVE ResultEarned'
  OBVIOUS
<1> WorkerEarned
  BY DEF WorkerEarned, ResultEarned
<1> SUFFICES WorkerEarned'
  <2>1. ASSUME NEW call \in lateStatus' PROVE Earned(call.copy.spec, call.err)'
    <3>1. Earned(call.copy.spec, call.err)
      BY <2>1, LateChanges, CallEarned
    <3> QED
      BY <3>1, DeployedStays DEF Earned
  <2> QED
    BY <2>1 DEF WorkerEarned, ResultEarned
<1>1. CASE UNCHANGED worker
  BY <1>1, DeployedStays DEF WorkerEarned, Earned, worker
<1>2. CASE pc' \in {"idle", "spec"}
  BY <1>2 DEF WorkerEarned, Earned
<1>3. CASE SpecDoesNotRender \/ ListPoolsFails \/ SelectorDoesNotParse
  BY <1>3 DEF SpecDoesNotRender, ListPoolsFails, SelectorDoesNotParse, SpecResult, WorkerEarned, Earned,
              FailsWith, Acceptable, RendersOk, LabelOf, Created, Selector
<1>4. CASE SpecIsAccepted
  BY <1>4 DEF SpecIsAccepted, WorkerEarned, Earned, Acceptable, RendersOk, LabelOf, Created, Selector
<1>5. CASE KubeletMCIsCached
  BY <1>5, DeployedStays
     DEF KubeletMCIsCached, SpecResult, WorkerEarned, Earned, SeenMeansDeployed, FailsWith
<1>6. CASE KubeletMCIsMissing
  BY <1>6 DEF KubeletMCIsMissing, WorkerEarned, Earned
<1>7. CASE GetKubeletMCFails \/ CreateKubeletMCFails \/ CreateTimesOut
  BY <1>7 DEF GetKubeletMCFails, CreateKubeletMCFails, CreateTimesOut, SpecResult,
              WorkerEarned, Earned, FailsWith
<1>8. CASE CreatesKubeletMC
  <2>1. deployed'
    BY <1>8, LabelsAreNoNil DEF CreatesKubeletMC, SetKubeletMC
  <2> QED
    BY <1>8, <2>1 DEF CreatesKubeletMC, SpecResult, WorkerEarned, Earned, FailsWith
<1>9. CASE KubeletMCAlreadyExists
  BY <1>9, DeployedStays
     DEF KubeletMCAlreadyExists, SpecResult, WorkerEarned, Earned, SeenMeansDeployed, FailsWith
<1>10. CASE KubeletMCIsRefused
  BY <1>10 DEF KubeletMCIsRefused, Creatable, SpecResult, WorkerEarned, Earned, FailsWith, Acceptable,
               LabelOf, Selector
<1>11. CASE Environment \/ Informers
  BY <1>1, <1>11
     DEF Environment, UserCreates, UserEdits, UserDeletes, AdminDeletesMC, PoolChanges, Edit,
         Informers, DeliverNodeSwap, DeliverMC, DeliverPool, Resync, Enqueue
<1>12. CASE \E k \in Requests : BackoffExpires(k) \/ Start(k) \/ ReconcileGetFails(k)
  BY <1>1, <1>2, <1>12
     DEF BackoffExpires, Enqueue, Start, ReconcileStarts, ReconcileIgnores, ReconcileGetFails
<1>13. CASE LateCalls
  BY <1>1, <1>13 DEF LateCalls, LateCreateArrives, LateStatusArrives
<1>14. CASE SpecPanics \/ ReconcileStatus \/ Restart
  BY <1>2, <1>14
     DEF SpecPanics, ReconcileStatus, StatusIsUpdated, StatusIsRefused, StatusUpdateFails,
         StatusTimesOut, Return, Restart
<1>15. CASE UNCHANGED vars
  BY <1>1, <1>15 DEF vars
<1> QED
  BY <1>3, <1>4, <1>5, <1>6, <1>7, <1>8, <1>9, <1>10, <1>11, <1>12, <1>13, <1>14, <1>15
     DEF Next, Worker, ReconcileSpec, ReconcileKubeletCgroups

LEMMA EarnedInvariant == Spec => [](SeenMeansDeployed /\ ResultEarned)
BY TypeCorrect, InitEarned, NextDeployed, NextEarned, PTL DEF Spec

-----------------------------------------------------------------------------
(* The status.                                                             *)

\* How a step changes a NodeSwap: a user creates, edits or deletes it, or one of
\* the status updates that can reach the server does.
StatusWritten(n, call) ==
  /\ n = call.name /\ Current(n, call.copy)
  /\ nodeswap'[n] = NewRevision(nodeswap[n].spec, StatusFor(call.copy.conds, call.err))
  /\ deployed' = deployed

ChangeOf(n) ==
  \/ nodeswap'[n] = nodeswap[n]
  \/ nodeswap'[n] = NoObject
  \/ nodeswap'[n].conds = NoConditions
  \/ nodeswap[n] # NoObject /\ nodeswap'[n].conds = nodeswap[n].conds
  \/ \E call \in Calls : StatusWritten(n, call)

LEMMA NodeSwapChanges ==
  ASSUME TypeOK, [Next]_vars, NEW n \in NodeSwaps
  PROVE  ChangeOf(n)
<1>0. nodeswap \in [NodeSwaps -> Object]
  BY DEF TypeOK, StoreTypeOK
<1>1. CASE UNCHANGED nodeswap
  BY <1>1 DEF ChangeOf
<1>2. ASSUME NEW m \in NodeSwaps, NEW spec \in Specs, UserCreates(m, spec) \/ UserEdits(m, spec)
      PROVE  ChangeOf(n)
  BY <1>0, <1>2 DEF ChangeOf, UserCreates, UserEdits, SetNodeSwap, NewRevision
<1>3. ASSUME NEW m \in NodeSwaps, UserDeletes(m) PROVE ChangeOf(n)
  BY <1>0, <1>3 DEF ChangeOf, UserDeletes, SetNodeSwap
<1>4. ASSUME NEW call \in Calls, Current(call.name, call.copy),
             WriteStatus(call.name, StatusFor(call.copy.conds, call.err))
      PROVE  ChangeOf(n)
  <2> DEFINE new == NewRevision(nodeswap[call.name].spec, StatusFor(call.copy.conds, call.err))
  <2>1. CASE NoWrite
    BY <1>1, <2>1 DEF NoWrite, server
  <2>2. CASE SetNodeSwap(call.name, new)
    <3>1. nodeswap' = [nodeswap EXCEPT ![call.name] = new] /\ deployed' = deployed
      BY <2>2 DEF SetNodeSwap
    <3>2. CASE n = call.name
      <4>1. nodeswap'[n] = new
        BY <1>0, <3>1, <3>2
      <4> QED
        BY <1>4, <3>1, <3>2, <4>1 DEF StatusWritten, ChangeOf
    <3>3. CASE n # call.name
      BY <1>0, <3>1, <3>3 DEF ChangeOf
    <3> QED
      BY <3>2, <3>3
  <2> QED
    BY <1>4, <2>1, <2>2 DEF WriteStatus
<1>5. CASE StatusIsUpdated
  <2>1. StatusCall \in Calls
    BY <1>5 DEF StatusIsUpdated, Calls
  <2>2. StatusCall.name = req /\ StatusCall.copy = desired /\ StatusCall.err = reconcileErr
    BY DEF StatusCall
  <2> QED
    BY <1>4, <1>5, <2>1, <2>2 DEF StatusIsUpdated
<1>6. CASE Worker
  BY <1>1, <1>5, <1>6
     DEF Worker, ReconcileSpec, SpecPanics, SpecDoesNotRender, ListPoolsFails,
         SelectorDoesNotParse, SpecIsAccepted, ReconcileKubeletCgroups, KubeletMCIsCached,
         KubeletMCIsMissing, GetKubeletMCFails, CreatesKubeletMC, KubeletMCAlreadyExists,
         KubeletMCIsRefused, CreateKubeletMCFails, CreateTimesOut, SetKubeletMC,
         ReconcileStatus, StatusIsRefused, StatusUpdateFails, StatusTimesOut, NoWrite, server
<1>7. CASE Environment
  BY <1>1, <1>2, <1>3, <1>7 DEF Environment, AdminDeletesMC, SetKubeletMC, PoolChanges
<1>8. CASE Informers \/ Restart \/ UNCHANGED vars
  BY <1>1, <1>8
     DEF Informers, DeliverNodeSwap, DeliverMC, DeliverPool, Resync, Enqueue, Restart, vars, server
<1>9. CASE \E k \in Requests : BackoffExpires(k) \/ Start(k) \/ ReconcileGetFails(k)
  BY <1>1, <1>9 DEF BackoffExpires, Enqueue, Start, ReconcileStarts, ReconcileIgnores,
                    ReconcileGetFails, NoWrite, server
<1>10. CASE LateCalls
  <2>1. ASSUME NEW labels \in lateCreate, LateCreateArrives(labels) PROVE ChangeOf(n)
    BY <1>1, <2>1 DEF LateCreateArrives, SetKubeletMC, NoWrite, server
  <2>2. ASSUME NEW call \in lateStatus, LateStatusArrives(call) PROVE ChangeOf(n)
    BY <1>1, <1>4, <2>2 DEF LateStatusArrives, Calls, NoWrite, server
  <2> QED
    BY <1>10, <2>1, <2>2 DEF LateCalls
<1> QED
  BY <1>6, <1>7, <1>8, <1>9, <1>10 DEF Next

\* When the server takes a status update, the copy the reconcile worked on is
\* the object it updates.
LEMMA CopyIsCurrent ==
  ASSUME TypeOK, CopiesFaithful, NEW call \in Calls, Current(call.name, call.copy)
  PROVE  call.copy = nodeswap[call.name]
<1>1. call.copy \in NodeSwap /\ Faithful(call.name, call.copy)
  BY CallFaithful DEF StatusCalls
<1>2. call.copy # NoObject
  BY <1>1, NoObjectAssumption DEF NoObjectAssumption
<1> QED
  BY <1>1, <1>2 DEF Faithful, FaithfulTo, Current

LEMMA StatusForVerdict ==
  ASSUME NEW conds \in Conditions, NEW err \in Errors
  PROVE  StatusFor(conds, err) \in Verdicts
<1>1. CASE err # "none"
  <2>1. StatusFor(conds, err) =
          [t \in ConditionTypes |->
             IF t = typeDegradedNodeSwap THEN Set("True", "ReconciliationFailed", err)
             ELSE Set("False", "ReconciliationFailed", "none")]
    BY <1>1 DEF StatusFor, Failure, Conditions, ConditionTypes, typeDegradedNodeSwap,
                typeProgressingNodeSwap, typeAvailableNodeSwap
  <2> QED
    BY <1>1, <2>1 DEF Verdicts
<1>2. CASE err = "none" /\ conds = NoConditions
  BY <1>2 DEF Verdicts
<1>3. CASE err = "none" /\ conds # NoConditions
  <2>1. StatusFor(conds, err) =
          [t \in ConditionTypes |->
             Set(IF t = typeAvailableNodeSwap THEN "True" ELSE "False",
                 "ReconciliationSucceeded", "none")]
    BY <1>3 DEF StatusFor, Success, Conditions, ConditionTypes, typeDegradedNodeSwap,
                typeProgressingNodeSwap, typeAvailableNodeSwap
  <2> QED
    BY <2>1 DEF Verdicts
<1> QED
  BY <1>1, <1>2, <1>3

\* The conditions of a NodeSwap are always one verdict of ReconcileStatus, with
\* nothing of an earlier one left: whatever the conditions it starts from.
THEOREM StatusIsOneVerdict == Spec => []OneVerdict
<1>1. Init => OneVerdict
  BY DEF Init, OneVerdict
<1>2. TypeOK /\ OneVerdict /\ [Next]_vars => OneVerdict'
  <2> SUFFICES ASSUME TypeOK, OneVerdict, [Next]_vars,
                      NEW n \in NodeSwaps, nodeswap'[n] # NoObject
               PROVE  nodeswap'[n].conds \in Verdicts
    BY DEF OneVerdict
  <2>1. CASE nodeswap'[n].conds = NoConditions
    BY <2>1 DEF Verdicts
  <2>2. CASE nodeswap[n] # NoObject /\ nodeswap'[n].conds = nodeswap[n].conds
    BY <2>2 DEF OneVerdict
  <2>3. ASSUME NEW call \in Calls, StatusWritten(n, call) PROVE nodeswap'[n].conds \in Verdicts
    <3>1. call.copy.conds \in Conditions /\ call.err \in Errors
      BY CallType DEF TypeOK, StatusCalls, NodeSwap
    <3> QED
      BY <2>3, <3>1, StatusForVerdict DEF StatusWritten, NewRevision
  <2>4. CASE nodeswap'[n] = nodeswap[n]
    BY <2>4 DEF OneVerdict
  <2> QED
    BY <2>1, <2>2, <2>3, <2>4, NodeSwapChanges DEF ChangeOf
<1> QED
  BY <1>1, <1>2, TypeCorrect, PTL DEF Spec

\* What StatusFor writes says no more than the reconcile found out.
LEMMA StatusForSays ==
  ASSUME NEW conds \in Conditions, NEW err \in Errors
  PROVE  LET new == StatusFor(conds, err)
         IN  /\ conds = NoConditions \/ err # "none" =>
                  new[typeAvailableNodeSwap].status # "True"
             /\ new[typeDegradedNodeSwap].message \in {err, "none"}
<1> DEFINE new == StatusFor(conds, err)
<1>0. /\ DOMAIN conds = ConditionTypes
      /\ ConditionTypes = {typeAvailableNodeSwap, typeProgressingNodeSwap, typeDegradedNodeSwap}
      /\ typeAvailableNodeSwap # typeProgressingNodeSwap
      /\ typeAvailableNodeSwap # typeDegradedNodeSwap
      /\ typeProgressingNodeSwap # typeDegradedNodeSwap
  BY DEF Conditions, ConditionTypes, typeDegradedNodeSwap, typeProgressingNodeSwap,
         typeAvailableNodeSwap
<1>1. CASE err # "none"
  <2>1. new[typeAvailableNodeSwap] = Set("False", "ReconciliationFailed", "none")
    BY <1>0, <1>1 DEF StatusFor, Failure
  <2>2. new[typeDegradedNodeSwap] = Set("True", "ReconciliationFailed", err)
    BY <1>0, <1>1 DEF StatusFor, Failure
  <2> QED
    BY <2>1, <2>2 DEF Set
<1>2. CASE err = "none" /\ conds = NoConditions
  <2>1. new[typeAvailableNodeSwap] = Absent /\ new[typeDegradedNodeSwap] = Absent
    BY <1>0, <1>2 DEF StatusFor, FirstSuccess, NoConditions
  <2>2. Absent.status = "absent" /\ Absent.message = "none"
    BY DEF Absent
  <2> QED
    BY <2>1, <2>2
<1>3. CASE err = "none" /\ conds # NoConditions
  <2>1. new[typeDegradedNodeSwap] = Set("False", "ReconciliationSucceeded", "none")
    BY <1>0, <1>3 DEF StatusFor, Success
  <2> QED
    BY <1>3, <2>1 DEF Set
<1> QED
  BY <1>1, <1>2, <1>3

\* A verdict stands beside a spec that deserves it, whatever happens between
\* the read of the NodeSwap and the write of its status.
THEOREM StatusIsExplained == Spec => StatusExplained
<1> DEFINE Explained ==
      \A n \in NodeSwaps :
        LET object == nodeswap'[n]
        IN  object # NoObject /\ object.conds # NoConditions
              /\ (nodeswap[n] # NoObject => object.conds # nodeswap[n].conds)
            => /\ Available(object) => Acceptable(object.spec) /\ deployed
               /\ FailsWith(object.spec, object.conds[typeDegradedNodeSwap].message)
<1>1. TypeOK /\ CopiesFaithful /\ ResultEarned /\ [Next]_vars => [Explained]_vars
  <2> SUFFICES ASSUME TypeOK, CopiesFaithful, ResultEarned, [Next]_vars,
                      NEW n \in NodeSwaps, nodeswap'[n] # NoObject,
                      nodeswap'[n].conds # NoConditions,
                      nodeswap[n] # NoObject => nodeswap'[n].conds # nodeswap[n].conds
               PROVE  /\ Available(nodeswap'[n]) => Acceptable(nodeswap'[n].spec) /\ deployed
                      /\ FailsWith(nodeswap'[n].spec,
                                   nodeswap'[n].conds[typeDegradedNodeSwap].message)
    OBVIOUS
  <2>1. PICK call \in Calls : StatusWritten(n, call)
    BY NodeSwapChanges DEF ChangeOf
  <2>2. /\ nodeswap'[n].spec = call.copy.spec
        /\ nodeswap'[n].conds = StatusFor(call.copy.conds, call.err)
    BY <2>1, CopyIsCurrent DEF StatusWritten, NewRevision
  <2>3. call.copy.conds \in Conditions /\ call.err \in Errors
    BY CallType DEF TypeOK, StatusCalls, NodeSwap
  <2>4. Available(nodeswap'[n]) => Acceptable(nodeswap'[n].spec) /\ deployed
    BY <2>2, <2>3, StatusForSays, CallEarned DEF Available, IsTrue, Earned
  <2>5. FailsWith(nodeswap'[n].spec, nodeswap'[n].conds[typeDegradedNodeSwap].message)
    BY <2>2, <2>3, StatusForSays, CallEarned DEF Earned, FailsWith
  <2> QED
    BY <2>4, <2>5
<1> QED
  BY <1>1, TypeCorrect, CopiesAreFaithful, EarnedInvariant, PTL DEF Spec, StatusExplained

-----------------------------------------------------------------------------
(* The steps of Next, as the further proofs tell them apart.               *)

\* A NodeSwap, its events and its cached copy change together in three ways:
\* a write, the delivery of an event, and a restart.
LEMMA StreamSteps ==
  ASSUME TypeOK, [Next]_vars
  PROVE  \/ UNCHANGED <<nodeswap, nsWatch, nsCache>>
         \/ \E n \in NodeSwaps : \E object : SetNodeSwap(n, object)
         \/ DeliverNodeSwap
         \/ Restart
<1> DEFINE Goal == \/ UNCHANGED <<nodeswap, nsWatch, nsCache>>
                   \/ \E n \in NodeSwaps : \E object : SetNodeSwap(n, object)
                   \/ DeliverNodeSwap
                   \/ Restart
<1>1. CASE Environment
  BY <1>1 DEF Environment, UserCreates, UserEdits, UserDeletes, AdminDeletesMC, SetKubeletMC,
              PoolChanges
<1>2. CASE Informers
  BY <1>2 DEF Informers, DeliverMC, DeliverPool, Resync, Enqueue, server, informers
<1>3. CASE \E k \in Requests : BackoffExpires(k) \/ Start(k) \/ ReconcileGetFails(k)
  BY <1>3 DEF BackoffExpires, Enqueue, Start, ReconcileStarts, ReconcileIgnores,
              ReconcileGetFails, NoWrite, server, informers
<1>4. ASSUME NEW call \in Calls, WriteStatus(call.name, StatusFor(call.copy.conds, call.err))
      PROVE  Goal
  <2>1. call.name \in NodeSwaps
    BY <1>4, CallType DEF TypeOK, StatusCalls
  <2> QED
    BY <1>4, <2>1 DEF WriteStatus, NoWrite, server, informers
<1>5. CASE StatusIsUpdated
  <2>1. StatusCall \in Calls
    BY <1>5 DEF StatusIsUpdated, Calls
  <2>2. StatusCall.name = req /\ StatusCall.copy = desired /\ StatusCall.err = reconcileErr
    BY DEF StatusCall
  <2> QED
    BY <1>4, <1>5, <2>1, <2>2 DEF StatusIsUpdated
<1>6. CASE Worker
  BY <1>5, <1>6
     DEF Worker, ReconcileSpec, SpecPanics, SpecDoesNotRender, ListPoolsFails,
         SelectorDoesNotParse, SpecIsAccepted, ReconcileKubeletCgroups, KubeletMCIsCached,
         KubeletMCIsMissing, GetKubeletMCFails, CreatesKubeletMC, KubeletMCAlreadyExists,
         KubeletMCIsRefused, CreateKubeletMCFails, CreateTimesOut, SetKubeletMC,
         ReconcileStatus, StatusIsRefused, StatusUpdateFails, StatusTimesOut, NoWrite, server,
         informers
<1>7. CASE LateCalls
  <2>1. ASSUME NEW labels \in lateCreate, LateCreateArrives(labels) PROVE Goal
    BY <2>1 DEF LateCreateArrives, SetKubeletMC, NoWrite, server, informers
  <2>2. ASSUME NEW call \in lateStatus, LateStatusArrives(call) PROVE Goal
    BY <1>4, <2>2 DEF LateStatusArrives, Calls, NoWrite, server, informers
  <2> QED
    BY <1>7, <2>1, <2>2 DEF LateCalls
<1>8. CASE UNCHANGED vars
  BY <1>8 DEF vars, server, informers
<1> QED
  BY <1>1, <1>2, <1>3, <1>6, <1>7, <1>8 DEF Next

\* The worker's copy of its NodeSwap: kept, dropped or read from the cache.
LEMMA WorkerCopies ==
  ASSUME TypeOK, [Next]_vars
  PROVE  \/ pc' = "idle"
         \/ pc # "idle" /\ UNCHANGED <<req, desired>>
         \/ req' \in NodeSwaps /\ desired' = nsCache[req']
<1>1. CASE UNCHANGED worker
  BY <1>1 DEF worker, TypeOK, OperatorTypeOK
<1>2. CASE Environment \/ Informers
  BY <1>1, <1>2
     DEF Environment, UserCreates, UserEdits, UserDeletes, AdminDeletesMC, PoolChanges, Edit,
         Informers, DeliverNodeSwap, DeliverMC, DeliverPool, Resync, Enqueue
<1>3. CASE \E k \in Requests : BackoffExpires(k) \/ Start(k) \/ ReconcileGetFails(k)
  BY <1>1, <1>3 DEF BackoffExpires, Enqueue, Start, ReconcileStarts, ReconcileIgnores,
                    ReconcileGetFails, Found
<1>4. CASE Worker
  BY <1>4
     DEF Worker, ReconcileSpec, SpecPanics, SpecDoesNotRender, ListPoolsFails,
         SelectorDoesNotParse, SpecIsAccepted, ReconcileKubeletCgroups, KubeletMCIsCached,
         KubeletMCIsMissing, GetKubeletMCFails, CreatesKubeletMC, KubeletMCAlreadyExists,
         KubeletMCIsRefused, CreateKubeletMCFails, CreateTimesOut, CreateIsLate,
         ReconcileStatus, StatusIsUpdated, StatusIsRefused, StatusUpdateFails, StatusTimesOut,
         StatusIsLate, SpecResult, Return
<1>5. CASE LateCalls \/ Restart \/ UNCHANGED vars
  BY <1>1, <1>5 DEF LateCalls, LateCreateArrives, LateStatusArrives, Restart, vars
<1> QED
  BY <1>2, <1>3, <1>4, <1>5 DEF Next

=============================================================================
