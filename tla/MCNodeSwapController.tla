------------------------ MODULE MCNodeSwapController ------------------------
(* The operator on a small cluster, for TLC.                               *)
EXTENDS NodeSwapProperties, TLC

CONSTANTS n1, n2, worker1

MCNodeSwaps == {n1, n2}
OneNodeSwap == {n1}
MCPools == {worker1}

WorkerLabel == <<"mco">>
NoLabels == <<>>
MCMatchLabels == (worker1 :> {<<WorkerLabel, <<"worker">>>>})
Idle == [updated |-> TRUE, updating |-> FALSE, degraded |-> FALSE]
Busy == [updated |-> FALSE, updating |-> TRUE, degraded |-> FALSE]
MCPoolConditions == {Idle, Busy}

\* Swaps: one that renders, one whose size is no multiple of Ki, one without
\* the file section its type needs.
Zram   == [SwapType |-> "zram", File |-> NoFile, Priority |-> 1]
Odd    == [SwapType |-> "file", Priority |-> 1,
           File |-> [Path |-> "swapfile", Size |-> [amount |-> 3, repr |-> "int64"]]]
NoSection == [SwapType |-> "file", File |-> NoFile, Priority |-> 1]

Select(value) == WorkerLabel \o <<Colon>> \o value
SpecOf(swaps, selector) == [swaps |-> swaps, machineConfigPoolSelector |-> selector]

Good       == SpecOf(<<Zram>>, Select(<<"worker">>))
Elsewhere  == SpecOf(<<Zram>>, Select(<<"infra">>))
NoSelector == SpecOf(<<Zram>>, <<>>)
BadLabel   == SpecOf(<<Zram>>, <<"a", Space, "b", Colon>>)
Unrendered == SpecOf(<<Zram, Odd>>, Select(<<"worker">>))
Panicking  == SpecOf(<<NoSection>>, Select(<<"worker">>))

\* Two that deploy different labels, three that are refused, one that panics.
AllSpecs   == {Good, Elsewhere, NoSelector, BadLabel, Unrendered, Panicking}
OneSpec    == {Good}

\* Safety: accepted, refused by the server, not rendered, panicking.
SafetySpecs == {Good, BadLabel, Unrendered, Panicking}

Symmetry == Permutations(MCNodeSwaps)

=============================================================================
