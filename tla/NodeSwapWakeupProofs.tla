------------------------- MODULE NodeSwapWakeupProofs -------------------------
(***************************************************************************)
(* No NodeSwap is forgotten: the watch streams bring the newest object     *)
(* into the cache, and a request leaves the queue only for a reconcile     *)
(* that settles its NodeSwap or asks for another one.                      *)
(***************************************************************************)
EXTENDS NodeSwapProofs

-----------------------------------------------------------------------------
(* The watch stream of the NodeSwaps.                                      *)

\* A write is the last event of its NodeSwap, and leaves the last events of the
\* others the last.
LEMMA WriteArrives ==
  ASSUME TypeOK, TypeOK', NewestArrives, NEW n \in NodeSwaps, NEW object, SetNodeSwap(n, object)
  PROVE  NewestArrives' /\ HasEvent(n)'
<1> DEFINE end == Len(nsWatch) + 1
<1>1. /\ nodeswap \in [NodeSwaps -> Object] /\ nsWatch \in Seq(NodeSwapEvent)
      /\ nodeswap' = [nodeswap EXCEPT ![n] = object] /\ nsCache' = nsCache
      /\ nsWatch' = Append(nsWatch, [name |-> n, object |-> object])
  BY DEF TypeOK, StoreTypeOK, SetNodeSwap
<1>0. [name |-> n, object |-> object] \in NodeSwapEvent
  <2>1. object = nodeswap'[n] /\ nodeswap' \in [NodeSwaps -> Object]
    BY <1>1 DEF TypeOK, StoreTypeOK
  <2> QED
    BY <2>1 DEF NodeSwapEvent
<1>2. /\ Len(nsWatch) \in Nat /\ Len(nsWatch') = end /\ end \in 1..end
      /\ nsWatch'[end].name = n /\ nsWatch'[end].object = object
      /\ \A i \in 1..Len(nsWatch) : nsWatch'[i] = nsWatch[i] /\ nsWatch[i].name \in NodeSwaps
  <2>1. /\ Len(nsWatch) \in Nat /\ Len(nsWatch') = end /\ end \in 1..end
        /\ nsWatch'[end] = [name |-> n, object |-> object]
    BY <1>0, <1>1
  <2>2. ASSUME NEW i \in 1..Len(nsWatch)
        PROVE  nsWatch'[i] = nsWatch[i] /\ nsWatch[i] \in NodeSwapEvent
    BY <1>0, <1>1
  <2> QED
    BY <2>1, <2>2 DEF NodeSwapEvent
<1>3. ASSUME NEW i \in 1..Len(nsWatch'), IsLastEvent(i)'
      PROVE  nsWatch'[i].object = nodeswap'[nsWatch'[i].name]
  <2>1. CASE i = end
    BY <1>1, <1>2, <2>1
  <2>2. CASE i # end
    <3>1. i \in 1..Len(nsWatch) /\ end > i
      BY <1>2, <2>2
    <3>2. nsWatch'[i] = nsWatch[i] /\ nsWatch[i].name \in NodeSwaps /\ nsWatch[i].name # n
      BY <1>2, <1>3, <3>1 DEF IsLastEvent
    <3>3. ASSUME NEW j \in 1..Len(nsWatch), j > i PROVE nsWatch[j].name # nsWatch[i].name
      BY <1>2, <1>3, <3>1, <3>3 DEF IsLastEvent
    <3>4. nsWatch[i].object = nodeswap[nsWatch[i].name]
      BY <3>1, <3>3 DEF NewestArrives, IsLastEvent
    <3> QED
      BY <1>1, <3>2, <3>4
  <2> QED
    BY <2>1, <2>2
<1>4. HasEvent(n)'
  BY <1>2 DEF HasEvent
<1>5. ASSUME NEW m \in NodeSwaps, ~HasEvent(m)' PROVE nsCache'[m] = nodeswap'[m]
  <2>1. m # n
    BY <1>4, <1>5
  <2>2. ~HasEvent(m)
    BY <1>2, <1>5 DEF HasEvent
  <2> QED
    BY <1>1, <2>1, <2>2 DEF NewestArrives
<1> QED
  BY <1>3, <1>4, <1>5 DEF NewestArrives

LEMMA DeliveryArrives ==
  ASSUME TypeOK, NewestArrives, DeliverNodeSwap
  PROVE  NewestArrives'
<1> DEFINE event == Head(nsWatch)
<1>1. /\ nsCache \in [NodeSwaps -> Object] /\ nsWatch \in Seq(NodeSwapEvent) /\ nsWatch # <<>>
      /\ nsCache' = [nsCache EXCEPT ![event.name] = event.object]
      /\ nsWatch' = Tail(nsWatch) /\ nodeswap' = nodeswap
  BY DEF TypeOK, StoreTypeOK, DeliverNodeSwap, Enqueue, server
<1>2. /\ Len(nsWatch) \in Nat /\ Len(nsWatch') = Len(nsWatch) - 1
      /\ event = nsWatch[1] /\ 1 \in 1..Len(nsWatch)
      /\ \A i \in 1..Len(nsWatch') : nsWatch'[i] = nsWatch[i + 1] /\ i + 1 \in 1..Len(nsWatch)
      /\ \A i \in 1..Len(nsWatch) : i > 1 => i - 1 \in 1..Len(nsWatch') /\ nsWatch'[i - 1] = nsWatch[i]
  BY <1>1
<1>3. ASSUME NEW i \in 1..Len(nsWatch'), IsLastEvent(i)'
      PROVE  nsWatch'[i].object = nodeswap'[nsWatch'[i].name]
  <2>1. ASSUME NEW j \in 1..Len(nsWatch), j > i + 1 PROVE nsWatch[j].name # nsWatch[i + 1].name
    <3>1. j - 1 \in 1..Len(nsWatch') /\ j - 1 > i /\ nsWatch'[j - 1] = nsWatch[j]
      BY <1>2, <2>1
    <3> QED
      BY <1>2, <1>3, <3>1 DEF IsLastEvent
  <2>2. IsLastEvent(i + 1)
    BY <2>1 DEF IsLastEvent
  <2> QED
    BY <1>1, <1>2, <2>2 DEF NewestArrives
<1>4. ASSUME NEW m \in NodeSwaps, ~HasEvent(m)' PROVE nsCache'[m] = nodeswap'[m]
  <2>1. \A i \in 1..Len(nsWatch) : i > 1 => nsWatch[i].name # m
    BY <1>2, <1>4 DEF HasEvent
  <2>2. CASE event.name = m
    <3>1. IsLastEvent(1)
      BY <1>2, <2>1, <2>2 DEF IsLastEvent
    <3> QED
      BY <1>1, <1>2, <2>2, <3>1 DEF NewestArrives
  <2>3. CASE event.name # m
    <3>1. ~HasEvent(m)
      BY <1>2, <2>1, <2>3 DEF HasEvent
    <3> QED
      BY <1>1, <2>3, <3>1 DEF NewestArrives
  <2> QED
    BY <2>2, <2>3
<1> QED
  BY <1>3, <1>4 DEF NewestArrives

LEMMA NextArrives == TypeOK /\ NewestArrives /\ [Next]_vars => NewestArrives'
<1> SUFFICES ASSUME TypeOK, NewestArrives, [Next]_vars PROVE NewestArrives'
  OBVIOUS
<1>1. CASE UNCHANGED <<nodeswap, nsWatch, nsCache>>
  BY <1>1 DEF NewestArrives, IsLastEvent, HasEvent
<1>2. CASE Restart
  <2>1. nsWatch' = <<>> /\ nsCache' = nodeswap /\ nodeswap' = nodeswap
    BY <1>2 DEF Restart, server
  <2> QED
    BY <2>1 DEF NewestArrives
<1> QED
  BY <1>1, <1>2, NextTypeOK, StreamSteps, WriteArrives, DeliveryArrives

\* The watch streams lose nothing that matters: however late, the newest object
\* of every NodeSwap is in the cache or still on the stream.
THEOREM NewestObjectArrives == Spec => []NewestArrives
<1>1. Init => NewestArrives
  BY DEF Init, NewestArrives
<1> QED
  BY <1>1, NextArrives, TypeCorrect, PTL DEF Spec

-----------------------------------------------------------------------------
(* The way of a request.                                                   *)

\* A NodeSwap that is settled stays so, or gets an event.
LEMMA SettledOrChanged ==
  ASSUME TypeOK, TypeOK', NewestArrives, [Next]_vars, NEW n \in NodeSwaps, Settled(n)
  PROVE  Settled(n)' \/ HasEvent(n)'
<1>1. CASE nodeswap'[n] = nodeswap[n]
  BY <1>1 DEF Settled, Available
<1>2. ASSUME NEW m \in NodeSwaps, NEW object, SetNodeSwap(m, object)
      PROVE  Settled(n)' \/ HasEvent(n)'
  <2>1. CASE m = n
    BY <1>2, <2>1, WriteArrives
  <2>2. CASE m # n
    BY <1>1, <1>2, <2>2 DEF SetNodeSwap, TypeOK, StoreTypeOK
  <2> QED
    BY <2>1, <2>2
<1>3. CASE DeliverNodeSwap \/ Restart \/ UNCHANGED nodeswap
  BY <1>1, <1>3 DEF DeliverNodeSwap, Enqueue, Restart, server
<1> QED
  BY <1>2, <1>3, StreamSteps

\* An event leaves the stream for the queue, or with a restart.
LEMMA EventStays ==
  ASSUME TypeOK, TypeOK', NewestArrives, [Next]_vars, NEW n \in NodeSwaps, HasEvent(n)
  PROVE  HasEvent(n)' \/ n \in queue' \/ Restart
<1>1. PICK i \in 1..Len(nsWatch) : nsWatch[i].name = n
  BY DEF HasEvent
<1>2. nsWatch \in Seq(NodeSwapEvent) /\ nsWatch' \in Seq(NodeSwapEvent)
  BY DEF TypeOK, StoreTypeOK
<1>3. ASSUME NEW m \in NodeSwaps, NEW object, SetNodeSwap(m, object) PROVE HasEvent(n)'
  <2>1. nsWatch' = Append(nsWatch, [name |-> m, object |-> object])
    BY <1>3 DEF SetNodeSwap
  <2>2. [name |-> m, object |-> object] \in NodeSwapEvent
    <3>1. object = nodeswap'[m] /\ nodeswap' \in [NodeSwaps -> Object]
      BY <1>3 DEF TypeOK, StoreTypeOK, SetNodeSwap
    <3> QED
      BY <3>1 DEF NodeSwapEvent
  <2>3. i \in 1..Len(nsWatch') /\ nsWatch'[i] = nsWatch[i]
    BY <1>1, <1>2, <2>1, <2>2
  <2> QED
    BY <1>1, <2>3 DEF HasEvent
<1>4. CASE DeliverNodeSwap
  <2>1. nsWatch # <<>> /\ nsWatch' = Tail(nsWatch) /\ Head(nsWatch).name \in queue'
    BY <1>4 DEF DeliverNodeSwap, Enqueue
  <2>2. CASE i = 1
    BY <1>1, <1>2, <2>1, <2>2
  <2>3. CASE i # 1
    <3>1. i - 1 \in 1..Len(nsWatch') /\ nsWatch'[i - 1] = nsWatch[i]
      BY <1>1, <1>2, <2>1, <2>3
    <3> QED
      BY <1>1, <3>1 DEF HasEvent
  <2> QED
    BY <2>2, <2>3
<1>5. CASE UNCHANGED nsWatch
  BY <1>1, <1>5 DEF HasEvent
<1> QED
  BY <1>3, <1>4, <1>5, StreamSteps

\* The steps after which a request may be neither queued nor held back nor with
\* the worker: its NodeSwap is not in the cache, its reconcile succeeded, or the
\* operator restarts.
Ends(n) ==
  \/ ReconcileIgnores(n)
  \/ StatusIsUpdated /\ reconcileErr = "none" /\ req = n
  \/ Restart

Pending(n) == n \in queue \cup backoff \/ (pc # "idle" /\ req = n)

LEMMA PendingStays ==
  ASSUME TypeOK, [Next]_vars, NEW n \in NodeSwaps, Pending(n)
  PROVE  Pending(n)' \/ Ends(n)
<1>1. CASE UNCHANGED <<workqueue, worker>>
  BY <1>1 DEF Pending, workqueue, worker
<1>2. CASE Environment
  BY <1>1, <1>2 DEF Environment, UserCreates, UserEdits, UserDeletes, AdminDeletesMC,
                    PoolChanges, Edit, workqueue, worker
<1>3. CASE Informers
  BY <1>3 DEF Informers, DeliverNodeSwap, DeliverMC, DeliverPool, Resync, Enqueue, worker, Pending
<1>4. ASSUME NEW k \in Requests, BackoffExpires(k) PROVE Pending(n)'
  BY <1>4 DEF BackoffExpires, Enqueue, worker, Pending
<1>5. ASSUME NEW k \in Requests, ReconcileStarts(k) PROVE Pending(n)'
  BY <1>5 DEF ReconcileStarts, Pending
<1>6. ASSUME NEW k \in Requests, ReconcileIgnores(k) PROVE Pending(n)' \/ Ends(n)
  BY <1>6 DEF ReconcileIgnores, worker, Pending, Ends
<1>7. ASSUME NEW k \in Requests, ReconcileGetFails(k) PROVE Pending(n)'
  BY <1>7 DEF ReconcileGetFails, worker, Pending
<1>8. ASSUME pc # "idle", NEW retry \in BOOLEAN, Return(retry), retry \/ req # n PROVE Pending(n)'
  BY <1>8 DEF Return, Pending
<1>9. ASSUME pc # "idle", NEW err, SpecResult(err) PROVE Pending(n)'
  BY <1>9 DEF SpecResult, workqueue, Pending
<1>10. CASE ReconcileSpec
  BY <1>8, <1>9, <1>10
     DEF ReconcileSpec, SpecPanics, SpecDoesNotRender, ListPoolsFails, SelectorDoesNotParse,
         SpecIsAccepted, workqueue, Pending
<1>11. CASE ReconcileKubeletCgroups
  BY <1>9, <1>11
     DEF ReconcileKubeletCgroups, KubeletMCIsCached, KubeletMCIsMissing, GetKubeletMCFails,
         CreatesKubeletMC, KubeletMCAlreadyExists, KubeletMCIsRefused, CreateKubeletMCFails,
         CreateTimesOut, CreateIsLate, workqueue, Pending
<1>12. CASE StatusIsUpdated
  BY <1>8, <1>12 DEF StatusIsUpdated, Ends
<1>13. CASE StatusIsRefused \/ StatusUpdateFails \/ StatusTimesOut
  BY <1>8, <1>13 DEF StatusIsRefused, StatusUpdateFails, StatusTimesOut, StatusIsLate
<1>14. CASE LateCalls
  BY <1>1, <1>14 DEF LateCalls, LateCreateArrives, LateStatusArrives
<1>15. CASE UNCHANGED vars
  BY <1>1, <1>15 DEF vars
<1> QED
  BY <1>2, <1>3, <1>4, <1>5, <1>6, <1>7, <1>10, <1>11, <1>12, <1>13, <1>14, <1>15
     DEF Next, Start, Worker, ReconcileStatus, Ends

\* A success that writes nothing found the NodeSwap Available.
LEMMA SuccessIsAvailable ==
  ASSUME NEW conds \in Conditions, StatusFor(conds, "none") = conds
  PROVE  IsTrue(conds, typeAvailableNodeSwap)
<1>0. /\ DOMAIN conds = ConditionTypes
      /\ ConditionTypes = {typeAvailableNodeSwap, typeProgressingNodeSwap, typeDegradedNodeSwap}
      /\ typeAvailableNodeSwap # typeProgressingNodeSwap
      /\ typeAvailableNodeSwap # typeDegradedNodeSwap
      /\ typeProgressingNodeSwap # typeDegradedNodeSwap
  BY DEF Conditions, ConditionTypes, typeDegradedNodeSwap, typeProgressingNodeSwap,
         typeAvailableNodeSwap
<1>1. CASE conds = NoConditions
  <2>1. StatusFor(conds, "none")[typeProgressingNodeSwap].status = "True"
    BY <1>0, <1>1 DEF StatusFor, FirstSuccess, Set
  <2>2. conds[typeProgressingNodeSwap].status = "absent"
    BY <1>0, <1>1 DEF NoConditions, Absent
  <2> QED
    BY <2>1, <2>2
<1>2. CASE conds # NoConditions
  <2>1. conds[typeAvailableNodeSwap] = Set("True", "ReconciliationSucceeded", "none")
    BY <1>0, <1>2 DEF StatusFor, Success
  <2> QED
    BY <2>1 DEF Set, IsTrue
<1> QED
  BY <1>1, <1>2

\* A reconcile that ends with success settles its NodeSwap or writes an event.
LEMMA SuccessSettles ==
  ASSUME TypeOK, TypeOK', CopiesFaithful, ResultEarned, NewestArrives,
         StatusIsUpdated, reconcileErr = "none", NEW n \in NodeSwaps, n = req
  PROVE  Settled(n)' \/ HasEvent(n)'
<1> DEFINE conds == StatusFor(desired.conds, "none")
<1>1. StatusCall \in Calls /\ StatusCall.name = n /\ StatusCall.copy = desired /\ desired \in NodeSwap
  BY DEF StatusIsUpdated, Calls, StatusCall, TypeOK, OperatorTypeOK
<1>2. desired = nodeswap[n] /\ Acceptable(desired.spec)
  BY <1>1, CopyIsCurrent DEF StatusIsUpdated, ResultEarned, Earned
<1>3. CASE conds = nodeswap[n].conds /\ NoWrite
  <2>1. IsTrue(desired.conds, typeAvailableNodeSwap)
    BY <1>1, <1>2, <1>3, SuccessIsAvailable DEF NodeSwap
  <2>2. Settled(n)
    BY <1>2, <2>1 DEF Settled, Available
  <2> QED
    BY <1>3, <2>2 DEF Settled, Available, NoWrite, server
<1>4. ASSUME NEW object, SetNodeSwap(n, object) PROVE HasEvent(n)'
  BY <1>4, WriteArrives
<1> QED
  BY <1>3, <1>4 DEF StatusIsUpdated, WriteStatus

\* The operator forgets no NodeSwap: one that is not rightly Available is on its
\* way to another reconcile, whatever was lost, refused or restarted.
THEOREM NobodyIsForgotten == Spec => []NoLostWakeup
<1>1. Init => NoLostWakeup
  BY DEF Init, NoLostWakeup, Settled
<1>2. ASSUME TypeOK, TypeOK', CopiesFaithful, ResultEarned, NewestArrives, NewestArrives',
             [Next]_vars, NEW n \in NodeSwaps, Settled(n) \/ OnItsWay(n)
      PROVE  Settled(n)' \/ OnItsWay(n)'
  <2>0. OnItsWay(n)' <=> HasEvent(n)' \/ Pending(n)'
    BY DEF OnItsWay, Pending
  <2>1. CASE Settled(n)
    BY <1>2, <2>0, <2>1, SettledOrChanged
  <2>2. CASE Restart
    BY <2>2 DEF Restart, Settled, OnItsWay, server
  <2>3. CASE ReconcileIgnores(n)
    <3>1. nsCache'[n] = NoObject
      BY <2>3 DEF ReconcileIgnores, Found, NoWrite, informers
    <3> QED
      BY <1>2, <2>0, <3>1 DEF NewestArrives, Settled
  <2>4. CASE StatusIsUpdated /\ reconcileErr = "none" /\ req = n
    BY <1>2, <2>0, <2>4, SuccessSettles
  <2>5. CASE HasEvent(n)
    BY <1>2, <2>0, <2>2, <2>5, EventStays DEF Pending
  <2>6. CASE Pending(n)
    BY <1>2, <2>0, <2>2, <2>3, <2>4, <2>6, PendingStays DEF Ends
  <2> QED
    BY <1>2, <2>1, <2>5, <2>6 DEF OnItsWay, Pending
<1>3. /\ TypeOK /\ TypeOK' /\ CopiesFaithful /\ ResultEarned /\ NewestArrives /\ NewestArrives'
      /\ NoLostWakeup /\ [Next]_vars
      => NoLostWakeup'
  BY <1>2 DEF NoLostWakeup
<1> QED
  BY <1>1, <1>3, TypeCorrect, CopiesAreFaithful, EarnedInvariant, NewestObjectArrives, PTL DEF Spec

=============================================================================
