---------------------------- MODULE MCNodeSwapSpec ----------------------------
(* The two parts of a NodeSwapSpec.  Create on every list of up to         *)
(* MaxSwaps swaps, with Ki = 2 so that a few bytes reach all units, and an *)
(* int64 that ends at 15; and parseLabelSelector on every selector of up   *)
(* to MaxLen tokens, typed token by token.                                 *)
EXTENDS CreateLoop, SelectorText

CONSTANT MaxSwaps

File(amount, repr) ==
  [SwapType |-> "file", Priority |-> 0,
   File |-> [Path |-> "swapfile", Size |-> [amount |-> amount, repr |-> repr]]]
Plain(type, priority) == [SwapType |-> type, File |-> NoFile, Priority |-> priority]

Plains == {Plain("zram", 1), Plain("disk", -1), Plain("file", 0), Plain("", 0)}

\* From below zero to past the end of int64, in steps of half a byte.
AllSwaps == Plains \cup {File(a, r) : a \in -2..80, r \in Representations}
\* One for each way a swap is rendered or refused.
FewSwaps == Plains \cup {File(8, "int64"), File(6, "int64"), File(0, "int64")}

MCSwapLists ==
  {<<>>} \cup {<<swap>> : swap \in AllSwaps}
  \cup UNION {[1..n -> FewSwaps] : n \in 2..MaxSwaps}

-----------------------------------------------------------------------------
SpecInit == Init /\ TextInit

SpecNext ==
  \/ Next /\ UNCHANGED text
  \/ swaps = <<>> /\ TypeToken /\ UNCHANGED vars

NodeSwapSpec == SpecInit /\ [][SpecNext]_<<vars, text>>

=============================================================================
