------------------------ MODULE NodeSwapContractProofs ------------------------
(***************************************************************************)
(* The operator keeps its contract: NodeSwapController, with its caches,   *)
(* queue, retries, late calls and restarts, implements                     *)
(* SwapOperatorContract.                                                   *)
(***************************************************************************)
EXTENDS NodeSwapProofs

\* The steps that can change what the contract speaks of.
LEMMA ServerSteps ==
  ASSUME TypeOK, [Next]_vars
  PROVE  \/ UNCHANGED <<nodeswap, kubeletMC, deployed, submitted>>
         \/ \E n \in NodeSwaps, spec \in Specs : UserCreates(n, spec) \/ UserEdits(n, spec)
         \/ \E n \in NodeSwaps : UserDeletes(n)
         \/ AdminDeletesMC
         \/ CreatesKubeletMC
         \/ \E labels \in lateCreate : LateCreateArrives(labels) /\ SetKubeletMC(labels)
                                         /\ kubeletMC = NoObject
         \/ \E call \in Calls :
              /\ Current(call.name, call.copy)
              /\ SetNodeSwap(call.name, NewRevision(nodeswap[call.name].spec,
                                                    StatusFor(call.copy.conds, call.err)))
              /\ UNCHANGED submitted
<1> DEFINE Writes(call) ==
             /\ Current(call.name, call.copy)
             /\ SetNodeSwap(call.name, NewRevision(nodeswap[call.name].spec,
                                                   StatusFor(call.copy.conds, call.err)))
             /\ UNCHANGED submitted
           Same == UNCHANGED <<nodeswap, kubeletMC, deployed, submitted>>
<1>0. NoWrite => Same
  BY DEF NoWrite, server, history
<1>1. CASE Environment
  BY <1>1 DEF Environment, PoolChanges, history
<1>2. CASE Informers
  BY <1>2 DEF Informers, DeliverNodeSwap, DeliverMC, DeliverPool, Resync, Enqueue, server, history
<1>3. CASE \E k \in Requests : BackoffExpires(k) \/ Start(k) \/ ReconcileGetFails(k)
  BY <1>0, <1>3 DEF BackoffExpires, Enqueue, Start, ReconcileStarts, ReconcileIgnores,
                    ReconcileGetFails, server, history
<1>4. ASSUME NEW call \in Calls, Current(call.name, call.copy),
             WriteStatus(call.name, StatusFor(call.copy.conds, call.err))
      PROVE  Same \/ Writes(call)
  BY <1>0, <1>4 DEF WriteStatus
<1>5. CASE StatusIsUpdated
  <2>1. StatusCall \in Calls
    BY <1>5 DEF StatusIsUpdated, Calls
  <2>2. StatusCall.name = req /\ StatusCall.copy = desired /\ StatusCall.err = reconcileErr
    BY DEF StatusCall
  <2>3. Same \/ Writes(StatusCall)
    BY <1>4, <1>5, <2>1, <2>2 DEF StatusIsUpdated
  <2> QED
    BY <2>1, <2>3
<1>6. CASE Worker
  BY <1>0, <1>5, <1>6
     DEF Worker, ReconcileSpec, SpecPanics, SpecDoesNotRender, ListPoolsFails,
         SelectorDoesNotParse, SpecIsAccepted, ReconcileKubeletCgroups, KubeletMCIsCached,
         KubeletMCIsMissing, GetKubeletMCFails, KubeletMCAlreadyExists, KubeletMCIsRefused,
         CreateKubeletMCFails, CreateTimesOut, ReconcileStatus, StatusIsRefused,
         StatusUpdateFails, StatusTimesOut
<1>7. ASSUME NEW labels \in lateCreate, LateCreateArrives(labels)
      PROVE  Same \/ (SetKubeletMC(labels) /\ kubeletMC = NoObject)
  BY <1>0, <1>7 DEF LateCreateArrives
<1>8. ASSUME NEW call \in lateStatus, LateStatusArrives(call)
      PROVE  call \in Calls /\ (Same \/ Writes(call))
  BY <1>0, <1>4, <1>8 DEF LateStatusArrives, Calls
<1>9. CASE LateCalls
  BY <1>7, <1>8, <1>9 DEF LateCalls
<1>10. CASE Restart \/ UNCHANGED vars
  BY <1>10 DEF Restart, vars, server, history
<1> QED
  BY <1>1, <1>2, <1>3, <1>6, <1>9, <1>10 DEF Next

-----------------------------------------------------------------------------
(* Everything the operator works on comes from a submitted spec.           *)

LEMMA SubmittedGrows ==
  ASSUME TypeOK, [Next]_vars
  PROVE  submitted \subseteq submitted'
BY ServerSteps DEF UserCreates, UserEdits, UserDeletes, AdminDeletesMC, CreatesKubeletMC,
                   SetKubeletMC

\* Whatever the server then holds was submitted.
LEMMA ServerHoldsSubmitted ==
  ASSUME TypeOK, MadeFromSubmitted, [Next]_vars, NEW n \in NodeSwaps
  PROVE  Submitted(nodeswap[n])'
<1>0. nodeswap \in [NodeSwaps -> Object] /\ Submitted(nodeswap[n])
  BY DEF TypeOK, StoreTypeOK, MadeFromSubmitted
<1>1. CASE nodeswap'[n] = nodeswap[n]
  BY <1>0, <1>1, SubmittedGrows DEF Submitted
<1>2. CASE \E m \in NodeSwaps, spec \in Specs : UserCreates(m, spec) \/ UserEdits(m, spec)
  <2>1. PICK m \in NodeSwaps, spec \in Specs : UserCreates(m, spec) \/ UserEdits(m, spec)
    BY <1>2
  <2>2. CASE m = n
    <3>1. nodeswap'[n].spec = spec /\ spec \in submitted'
      BY <1>0, <2>1, <2>2 DEF UserCreates, UserEdits, SetNodeSwap, NewRevision
    <3> QED
      BY <3>1 DEF Submitted
  <2>3. CASE m # n
    BY <1>0, <1>1, <2>1, <2>3 DEF UserCreates, UserEdits, SetNodeSwap
  <2> QED
    BY <2>2, <2>3
<1>3. CASE \E m \in NodeSwaps : UserDeletes(m)
  BY <1>0, <1>1, <1>3 DEF UserDeletes, SetNodeSwap, Submitted
<1>4. ASSUME NEW call \in Calls, Current(call.name, call.copy),
             SetNodeSwap(call.name, NewRevision(nodeswap[call.name].spec,
                                                StatusFor(call.copy.conds, call.err)))
      PROVE  Submitted(nodeswap[n])'
  <2>1. CASE call.name = n
    <3>1. nodeswap'[n].spec = nodeswap[n].spec /\ nodeswap[n] # NoObject
      BY <1>0, <1>4, <2>1 DEF SetNodeSwap, NewRevision, Current
    <3> QED
      BY <1>0, <3>1, SubmittedGrows DEF Submitted
  <2>2. CASE call.name # n
    BY <1>0, <1>1, <1>4, <2>2 DEF SetNodeSwap
  <2> QED
    BY <2>1, <2>2
<1>5. CASE UNCHANGED nodeswap
  BY <1>1, <1>5
<1> QED
  BY <1>2, <1>3, <1>4, <1>5, ServerSteps DEF AdminDeletesMC, CreatesKubeletMC, SetKubeletMC

LEMMA CopiesSubmitted ==
  ASSUME TypeOK, TypeOK', MadeFromSubmitted, [Next]_vars
  PROVE  /\ \A n \in NodeSwaps : Submitted(nsCache[n])'
         /\ \A i \in 1..Len(nsWatch') : Submitted(nsWatch[i].object)'
<1> DEFINE Goal == /\ \A n \in NodeSwaps : Submitted(nsCache[n])'
                   /\ \A i \in 1..Len(nsWatch') : Submitted(nsWatch[i].object)'
<1>0. /\ nsWatch \in Seq(NodeSwapEvent) /\ nsWatch' \in Seq(NodeSwapEvent)
      /\ nsCache \in [NodeSwaps -> Object] /\ nodeswap \in [NodeSwaps -> Object]
  BY DEF TypeOK, StoreTypeOK
<1>1. /\ \A n \in NodeSwaps : nsCache[n] # NoObject => nsCache[n].spec \in submitted'
      /\ \A i \in 1..Len(nsWatch) :
           nsWatch[i].object # NoObject => nsWatch[i].object.spec \in submitted'
  BY SubmittedGrows DEF MadeFromSubmitted, Submitted
<1>2. CASE UNCHANGED <<nsWatch, nsCache>>
  BY <1>1, <1>2 DEF Submitted
<1>3. ASSUME NEW n \in NodeSwaps, NEW object, SetNodeSwap(n, object) PROVE Goal
  <2>1. nsCache' = nsCache /\ nsWatch' = Append(nsWatch, [name |-> n, object |-> object])
    BY <1>3 DEF SetNodeSwap
  <2>2. object = nodeswap'[n] /\ [name |-> n, object |-> object] \in NodeSwapEvent
    <3>1. object = nodeswap'[n] /\ nodeswap' \in [NodeSwaps -> Object]
      BY <1>0, <1>3 DEF SetNodeSwap, TypeOK, StoreTypeOK
    <3> QED
      BY <3>1 DEF NodeSwapEvent
  <2>3. ASSUME NEW i \in 1..Len(nsWatch')
        PROVE  nsWatch'[i].object # NoObject => nsWatch'[i].object.spec \in submitted'
    <3>1. CASE i = Len(nsWatch) + 1
      <4>1. nsWatch'[i].object = nodeswap'[n]
        BY <1>0, <2>1, <2>2, <3>1
      <4> QED
        BY <4>1, ServerHoldsSubmitted DEF Submitted
    <3>2. CASE i # Len(nsWatch) + 1
      <4>1. i \in 1..Len(nsWatch) /\ nsWatch'[i] = nsWatch[i]
        BY <1>0, <2>1, <2>2, <2>3, <3>2
      <4> QED
        BY <1>1, <4>1
    <3> QED
      BY <3>1, <3>2
  <2> QED
    BY <1>1, <2>1, <2>3 DEF Submitted
<1>4. CASE DeliverNodeSwap
  <2>1. /\ nsWatch # <<>> /\ nsWatch' = Tail(nsWatch)
        /\ nsCache' = [nsCache EXCEPT ![Head(nsWatch).name] = Head(nsWatch).object]
    BY <1>4 DEF DeliverNodeSwap
  <2>2. Head(nsWatch) = nsWatch[1] /\ 1 \in 1..Len(nsWatch)
    BY <1>0, <2>1
  <2>3. ASSUME NEW i \in 1..Len(nsWatch')
        PROVE  nsWatch'[i] = nsWatch[i + 1] /\ i + 1 \in 1..Len(nsWatch)
    BY <1>0, <2>1, <2>3
  <2> QED
    BY <1>0, <1>1, <2>1, <2>2, <2>3 DEF Submitted
<1>5. CASE Restart
  <2>1. nsWatch' = <<>> /\ nsCache' = nodeswap'
    BY <1>5 DEF Restart, server
  <2>2. ASSUME NEW n \in NodeSwaps PROVE Submitted(nsCache[n])'
    BY <2>1, ServerHoldsSubmitted DEF Submitted
  <2> QED
    BY <2>1, <2>2
<1> QED
  BY <1>2, <1>3, <1>4, <1>5, StreamSteps

\* The labels of a MachineConfig made from spec, one the server accepts.
MadeFrom(labels, spec) ==
  /\ Acceptable(spec) /\ ValidLabel(LabelOf(spec))
  /\ labels = KubeletMCLabels(LabelOf(spec))

\* What a Create of the kubelet MachineConfig carries, when the server accepts it.
LEMMA SelectorSubmitted ==
  ASSUME TypeOK, ResultEarned, MadeFromSubmitted, pc = "create", Creatable
  PROVE  /\ desired.spec \in submitted
         /\ MadeFrom(KubeletMCLabels(Selector), desired.spec)
<1>1. desired # NoObject
  BY NoObjectAssumption DEF NoObjectAssumption, TypeOK, OperatorTypeOK
<1> QED
  BY <1>1 DEF MadeFromSubmitted, Submitted, ResultEarned, Creatable, Selector, LabelOf, MadeFrom

LEMMA NextSubmitted ==
  TypeOK /\ TypeOK' /\ ResultEarned /\ MadeFromSubmitted /\ [Next]_vars => MadeFromSubmitted'
<1> SUFFICES ASSUME TypeOK, TypeOK', ResultEarned, MadeFromSubmitted, [Next]_vars
             PROVE  MadeFromSubmitted'
  OBVIOUS
<1>1. \A n \in NodeSwaps : Submitted(nodeswap[n])'
  BY ServerHoldsSubmitted
<1>2. pc' # "idle" => Submitted(desired)'
  BY WorkerCopies, SubmittedGrows DEF MadeFromSubmitted, Submitted
<1>3. ASSUME NEW labels \in lateCreate' PROVE \E spec \in submitted' : MadeFrom(labels, spec)
  <2>1. \E spec \in submitted : MadeFrom(labels, spec)
    BY <1>3, LateChanges, SelectorSubmitted DEF MadeFromSubmitted, MadeFrom
  <2> QED
    BY <2>1, SubmittedGrows
<1> QED
  BY <1>1, <1>2, <1>3, CopiesSubmitted DEF MadeFromSubmitted, MadeFrom

LEMMA SubmittedInvariant == Spec => []MadeFromSubmitted
<1>1. Init => MadeFromSubmitted
  BY DEF Init, MadeFromSubmitted, Submitted
<1> QED
  BY <1>1, NextSubmitted, TypeCorrect, EarnedInvariant, PTL DEF Spec

-----------------------------------------------------------------------------
(* Reports.                                                                *)

LEMMA NothingReported ==
  /\ ReportOf(NoObject) = Contract!NoReport
  /\ \A object : object.conds = NoConditions => ReportOf(object) = Contract!NoReport
BY DEF ReportOf, VerdictOf, Contract!NoReport, Contract!Report

\* A report is about the conditions only.
LEMMA SameReport ==
  ASSUME NEW a, NEW b, a # NoObject, b # NoObject, a.conds = b.conds
  PROVE  ReportOf(a) = ReportOf(b)
BY DEF ReportOf

\* What StatusFor writes reads as the report the contract asks for.
LEMMA ReportWritten ==
  ASSUME NEW old \in NodeSwap, NEW new \in NodeSwap, NEW err \in Errors,
         new.conds = StatusFor(old.conds, err)
  PROVE  /\ err = "none" =>
              ReportOf(new) = IF ReportOf(old) = Contract!NoReport THEN Contract!Progressing
                              ELSE Contract!Available
         /\ err # "none" => ReportOf(new) = Contract!Report("Degraded", err)
<1> DEFINE was == old.conds
           now == new.conds
<1>0. /\ DOMAIN was = ConditionTypes
      /\ ConditionTypes = {typeAvailableNodeSwap, typeProgressingNodeSwap, typeDegradedNodeSwap}
      /\ typeAvailableNodeSwap # typeProgressingNodeSwap
      /\ typeAvailableNodeSwap # typeDegradedNodeSwap
      /\ typeProgressingNodeSwap # typeDegradedNodeSwap
      /\ old # NoObject /\ new # NoObject
  BY NoObjectAssumption
     DEF NoObjectAssumption, NodeSwap, Conditions, ConditionTypes, typeDegradedNodeSwap,
         typeProgressingNodeSwap, typeAvailableNodeSwap
<1>1. ASSUME NEW t \in ConditionTypes, now[t].status # "absent" PROVE now # NoConditions
  <2>1. NoConditions[t].status = "absent"
    BY <1>1 DEF NoConditions, Absent
  <2> QED
    BY <1>1, <2>1
<1>2. ReportOf(old) = Contract!NoReport <=> was = NoConditions
  BY <1>0 DEF ReportOf, VerdictOf, Contract!NoReport, Contract!Report
<1>3. CASE err # "none"
  <2>1. /\ now[typeProgressingNodeSwap].status = "False"
        /\ now[typeAvailableNodeSwap].status = "False"
        /\ now[typeDegradedNodeSwap].message = err
    BY <1>0, <1>3 DEF StatusFor, Failure, Set
  <2>2. now # NoConditions
    BY <1>0, <1>1, <2>1
  <2> QED
    BY <1>0, <1>3, <2>1, <2>2 DEF ReportOf, VerdictOf, IsTrue, Contract!Report
<1>4. CASE err = "none" /\ was = NoConditions
  <2>1. now[typeProgressingNodeSwap].status = "True"
    BY <1>0, <1>4 DEF StatusFor, FirstSuccess, Set
  <2>2. now # NoConditions
    BY <1>0, <1>1, <2>1
  <2> QED
    BY <1>0, <1>2, <1>4, <2>1, <2>2 DEF ReportOf, VerdictOf, IsTrue, Contract!Progressing, Contract!Report
<1>5. CASE err = "none" /\ was # NoConditions
  <2>1. /\ now[typeProgressingNodeSwap].status = "False"
        /\ now[typeAvailableNodeSwap].status = "True"
    BY <1>0, <1>5 DEF StatusFor, Success, Set
  <2>2. now # NoConditions
    BY <1>0, <1>1, <2>1
  <2> QED
    BY <1>0, <1>2, <1>5, <2>1, <2>2 DEF ReportOf, VerdictOf, IsTrue, Contract!Available, Contract!Report
<1> QED
  BY <1>3, <1>4, <1>5

-----------------------------------------------------------------------------
(* The refinement, one lemma per step of the contract.                     *)

LEMMA InitKeepsContract == Init => Contract!Init
BY NothingReported DEF Init, Contract!Init, SpecsHeld, Reports

\* A write of one NodeSwap changes its spec and its report, and no other's.
LEMMA WriteMaps ==
  ASSUME TypeOK, NEW n \in NodeSwaps, NEW object, nodeswap' = [nodeswap EXCEPT ![n] = object]
  PROVE  /\ SpecsHeld' = [SpecsHeld EXCEPT ![n] = IF object = NoObject THEN NoObject ELSE object.spec]
         /\ Reports' = [Reports EXCEPT ![n] = ReportOf(object)]
<1>1. nodeswap \in [NodeSwaps -> Object]
  BY DEF TypeOK, StoreTypeOK
<1>2. ASSUME NEW m \in NodeSwaps
      PROVE  /\ SpecsHeld'[m] = IF m # n THEN SpecsHeld[m]
                                ELSE IF object = NoObject THEN NoObject ELSE object.spec
             /\ Reports'[m] = IF m # n THEN Reports[m] ELSE ReportOf(object)
  BY <1>1 DEF SpecsHeld, Reports
<1>3. /\ SpecsHeld = [m \in NodeSwaps |-> SpecsHeld[m]] /\ SpecsHeld' = [m \in NodeSwaps |-> SpecsHeld'[m]]
      /\ Reports = [m \in NodeSwaps |-> Reports[m]] /\ Reports' = [m \in NodeSwaps |-> Reports'[m]]
  BY DEF SpecsHeld, Reports
<1> QED
  BY <1>2, <1>3

LEMMA UserSubmits ==
  ASSUME TypeOK, NEW n \in NodeSwaps, NEW s \in Specs, UserCreates(n, s) \/ UserEdits(n, s)
  PROVE  Contract!Submit(n, s)
<1> DEFINE conds == IF nodeswap[n] = NoObject THEN NoConditions ELSE nodeswap[n].conds
           object == NewRevision(s, conds)
<1>1. /\ nodeswap' = [nodeswap EXCEPT ![n] = object]
      /\ UNCHANGED <<kubeletMC, deployed>> /\ submitted' = submitted \cup {s}
  BY DEF UserCreates, UserEdits, SetNodeSwap
<1>2. object # NoObject /\ object.spec = s /\ object.conds = conds
  <2>1. conds \in Conditions
    BY NoConditionsType DEF TypeOK, StoreTypeOK, Object, NodeSwap
  <2> QED
    BY <2>1, NewRevisionType, NoObjectAssumption
       DEF NoObjectAssumption, TypeOK, StoreTypeOK, NewRevision
<1>3. ReportOf(object) = ReportOf(nodeswap[n])
  BY <1>2, NothingReported, SameReport
<1>4. Reports' = Reports
  BY <1>1, <1>3, WriteMaps DEF Reports
<1>5. SpecsHeld' = [SpecsHeld EXCEPT ![n] = s]
  <2>1. SpecsHeld' = [SpecsHeld EXCEPT ![n] = IF object = NoObject THEN NoObject ELSE object.spec]
    BY <1>1, WriteMaps
  <2> HIDE DEF object
  <2> QED
    BY <1>2, <2>1
<1> QED
  BY <1>1, <1>4, <1>5 DEF Contract!Submit

LEMMA UserWithdraws ==
  ASSUME TypeOK, NEW n \in NodeSwaps, UserDeletes(n)
  PROVE  Contract!Withdraw(n)
<1>1. /\ nodeswap' = [nodeswap EXCEPT ![n] = NoObject]
      /\ UNCHANGED <<kubeletMC, deployed, submitted>>
  BY DEF UserDeletes, SetNodeSwap
<1> QED
  BY <1>1, WriteMaps, NothingReported DEF Contract!Withdraw

LEMMA SameMaps ==
  ASSUME UNCHANGED nodeswap
  PROVE  UNCHANGED <<SpecsHeld, Reports>>
BY DEF SpecsHeld, Reports

LEMMA AdminRemoves ==
  ASSUME TypeOK, AdminDeletesMC
  PROVE  Contract!Remove
BY SameMaps DEF AdminDeletesMC, SetKubeletMC, Contract!Remove, TypeOK, StoreTypeOK

\* Create takes effect, at once or late, only where there is no MachineConfig.
LEMMA OperatorDeploys ==
  ASSUME TypeOK, NEW labels, NEW s \in submitted, MadeFrom(labels, s),
         kubeletMC = NoObject, SetKubeletMC(labels)
  PROVE  s \in Specs /\ Contract!Deploy(s)
<1>1. s \in Specs
  BY DEF TypeOK, StoreTypeOK
<1>2. labels # NoObject
  BY <1>1, NoObjectAssumption DEF NoObjectAssumption, MadeFrom, LabelOf
<1>3. deployed' = TRUE
  BY <1>2 DEF SetKubeletMC
<1> QED
  BY <1>1, <1>3, SameMaps DEF SetKubeletMC, MadeFrom, Contract!Deploy

\* A status update the server takes is a success or a failure of its NodeSwap.
LEMMA OperatorReports ==
  ASSUME TypeOK, TypeOK', CopiesFaithful, ResultEarned, NEW call \in Calls,
         Current(call.name, call.copy),
         SetNodeSwap(call.name, NewRevision(nodeswap[call.name].spec,
                                            StatusFor(call.copy.conds, call.err))),
         UNCHANGED submitted
  PROVE  /\ call.name \in NodeSwaps /\ call.err \in Errors
         /\ Contract!Succeed(call.name) \/ Contract!Fail(call.name, call.err)
<1> DEFINE n == call.name
           err == call.err
           old == nodeswap[n]
           new == NewRevision(old.spec, StatusFor(call.copy.conds, err))
<1>1. n \in NodeSwaps /\ err \in Errors /\ old = call.copy /\ old \in NodeSwap
  BY CallType, CopyIsCurrent DEF TypeOK, StatusCalls
<1>2. nodeswap' = [nodeswap EXCEPT ![n] = new] /\ UNCHANGED <<kubeletMC, deployed, submitted>>
  BY DEF SetNodeSwap
<1>3. new = nodeswap'[n] /\ new \in NodeSwap
  <2>1. StatusFor(call.copy.conds, err) \in Conditions /\ old.spec \in Specs
    BY <1>1, StatusForType DEF NodeSwap
  <2>2. new \in NodeSwap
    BY <2>1, NewRevisionType DEF TypeOK, StoreTypeOK
  <2> QED
    BY <1>1, <1>2, <2>2 DEF TypeOK, StoreTypeOK
<1>4. old # NoObject /\ new # NoObject /\ new.spec = old.spec
      /\ new.conds = StatusFor(old.conds, err)
  BY <1>1, <1>3, NoObjectAssumption DEF NoObjectAssumption, NewRevision
<1>5. SpecsHeld' = SpecsHeld /\ SpecsHeld[n] = old.spec
  BY <1>1, <1>2, <1>4, WriteMaps DEF SpecsHeld
<1>6. Reports' = [Reports EXCEPT ![n] = ReportOf(new)] /\ Reports[n] = ReportOf(old)
  BY <1>1, <1>2, WriteMaps DEF Reports
<1>7. Earned(old.spec, err) /\ old.spec \in Specs /\ old.spec # NoObject
  BY <1>1, CallEarned, NoObjectAssumption DEF NoObjectAssumption, NodeSwap
<1>8. CASE err = "none"
  <2>1. Contract!Succeed(n)
    BY <1>1, <1>2, <1>3, <1>4, <1>5, <1>6, <1>7, <1>8, ReportWritten
       DEF Contract!Succeed, Earned
  <2> QED
    BY <1>1, <2>1
<1>9. CASE err # "none"
  <2>1. Contract!Fail(n, err)
    BY <1>1, <1>2, <1>3, <1>4, <1>5, <1>6, <1>7, <1>9, ReportWritten
       DEF Contract!Fail, Earned
  <2> QED
    BY <1>1, <2>1
<1> QED
  BY <1>8, <1>9

LEMMA StepKeepsContract ==
  TypeOK /\ TypeOK' /\ CopiesFaithful /\ ResultEarned /\ MadeFromSubmitted /\ [Next]_vars
  => [Contract!Next]_(Contract!vars)
<1> SUFFICES ASSUME TypeOK, TypeOK', CopiesFaithful, ResultEarned, MadeFromSubmitted, [Next]_vars
             PROVE  Contract!Next \/ UNCHANGED Contract!vars
  OBVIOUS
<1>1. CASE UNCHANGED <<nodeswap, kubeletMC, deployed, submitted>>
  BY <1>1, SameMaps DEF Contract!vars
<1>2. CASE \E n \in NodeSwaps, spec \in Specs : UserCreates(n, spec) \/ UserEdits(n, spec)
  BY <1>2, UserSubmits DEF Contract!Next
<1>3. CASE \E n \in NodeSwaps : UserDeletes(n)
  BY <1>3, UserWithdraws DEF Contract!Next
<1>4. CASE AdminDeletesMC
  BY <1>4, AdminRemoves DEF Contract!Next
<1>5. CASE CreatesKubeletMC
  <2>1. desired.spec \in submitted /\ MadeFrom(KubeletMCLabels(Selector), desired.spec)
    BY <1>5, SelectorSubmitted DEF CreatesKubeletMC
  <2>2. desired.spec \in Specs /\ Contract!Deploy(desired.spec)
    BY <1>5, <2>1, OperatorDeploys DEF CreatesKubeletMC
  <2> QED
    BY <2>2 DEF Contract!Next
<1>6. ASSUME NEW labels \in lateCreate, SetKubeletMC(labels), kubeletMC = NoObject
      PROVE  Contract!Next
  <2>1. PICK spec \in submitted : MadeFrom(labels, spec)
    BY <1>6 DEF MadeFromSubmitted, MadeFrom
  <2> QED
    BY <1>6, <2>1, OperatorDeploys DEF Contract!Next
<1>7. ASSUME NEW call \in Calls, Current(call.name, call.copy),
             SetNodeSwap(call.name, NewRevision(nodeswap[call.name].spec,
                                                StatusFor(call.copy.conds, call.err))),
             UNCHANGED submitted
      PROVE  Contract!Next
  BY <1>7, OperatorReports DEF Contract!Next
<1> QED
  BY <1>1, <1>2, <1>3, <1>4, <1>5, <1>6, <1>7, ServerSteps

\* The operator implements its contract on every cluster: behind the caches,
\* retries, late calls and restarts there are only submissions, deployments of
\* what was submitted, and reports that fit the spec they stand beside.
THEOREM OperatorKeepsContract == Spec => KeepsContract
BY InitKeepsContract, StepKeepsContract, TypeCorrect, CopiesAreFaithful, EarnedInvariant,
   SubmittedInvariant, PTL
   DEF Spec, KeepsContract, Contract!Spec

=============================================================================
