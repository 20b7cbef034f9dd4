------------------------- MODULE SwapOperatorContract -------------------------
(***************************************************************************)
(* What the operator promises the people who submit NodeSwaps, without     *)
(* caches, queues, revisions, retries or restarts: reports that fit the    *)
(* spec they stand beside, and one kubelet MachineConfig, made from a spec *)
(* somebody submitted and left alone once it is there.                     *)
(***************************************************************************)
CONSTANTS
  Names,       \* of NodeSwaps
  Specs,       \* what can be submitted
  AcceptableSpecs,  \* the specs that render and whose selector parses
  DeployableSpecs,  \* the ones whose label the server takes as well
  LabelsOf,    \* spec -> the labels of the MachineConfig made from it
  Errors,      \* what a report can quote
  FailuresOf,  \* spec -> the errors it can meet: its own, and failed calls
  None

VARIABLES
  spec,        \* name -> the spec submitted last, or None
  report,      \* name -> what the status says
  mc,          \* the labels of the kubelet MachineConfig, or None
  submitted,   \* every spec submitted so far
  deployed     \* there has been a kubelet MachineConfig

vars == <<spec, report, mc, submitted, deployed>>

Report(verdict, err) == [verdict |-> verdict, err |-> err]

NoReport    == Report("nothing", "none")
Progressing == Report("Progressing", "none")
Available   == Report("Available", "none")

Init ==
  /\ spec = [n \in Names |-> None]
  /\ report = [n \in Names |-> NoReport]
  /\ mc = None
  /\ submitted = {}
  /\ deployed = FALSE

\* A report outlives an edit of the spec, and not the NodeSwap.
Submit(n, s) ==
  /\ spec' = [spec EXCEPT ![n] = s]
  /\ submitted' = submitted \cup {s}
  /\ UNCHANGED <<report, mc, deployed>>

Withdraw(n) ==
  /\ spec' = [spec EXCEPT ![n] = None]
  /\ report' = [report EXCEPT ![n] = NoReport]
  /\ UNCHANGED <<mc, submitted, deployed>>

Remove ==
  /\ mc' = None
  /\ UNCHANGED <<spec, report, submitted, deployed>>

Deploy(s) ==
  /\ mc = None
  /\ s \in submitted \cap DeployableSpecs
  /\ mc' = LabelsOf[s]
  /\ deployed' = TRUE
  /\ UNCHANGED <<spec, report, submitted>>

Succeed(n) ==
  /\ spec[n] \in AcceptableSpecs /\ deployed
  /\ report' = [report EXCEPT ![n] = IF @ = NoReport THEN Progressing ELSE Available]
  /\ UNCHANGED <<spec, mc, submitted, deployed>>

Fail(n, err) ==
  /\ spec[n] # None
  /\ err \in FailuresOf[spec[n]]
  /\ report' = [report EXCEPT ![n] = Report("Degraded", err)]
  /\ UNCHANGED <<spec, mc, submitted, deployed>>

Next ==
  \/ \E n \in Names, s \in Specs : Submit(n, s)
  \/ \E n \in Names : Withdraw(n) \/ Succeed(n)
  \/ \E n \in Names, err \in Errors : Fail(n, err)
  \/ Remove
  \/ \E s \in Specs : Deploy(s)

Spec == Init /\ [][Next]_vars

=============================================================================
