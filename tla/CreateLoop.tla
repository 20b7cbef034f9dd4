------------------------------ MODULE CreateLoop ------------------------------
(***************************************************************************)
(* The loop of renderconfig.Create, one swap at a time, and what callers   *)
(* rely on in the list it returns.  Create of RenderConfig states the same *)
(* result in one expression; the controller's model uses that one.         *)
(***************************************************************************)
EXTENDS RenderConfig

CONSTANT SwapLists    \* the lists the loop is run on

\* Slices of swaps; a file section holds a Quantity.
ASSUME SwapListsAssumption ==
  \A list \in SwapLists :
    /\ list \in Seq({list[i] : i \in DOMAIN list})
    /\ \A i \in 1..Len(list) : list[i].File = NoFile \/ list[i].File.Size \in Quantity

VARIABLES
  swaps,    \* spec.Swaps
  idx,      \* the loop's index, from 0
  configs,  \* what has been rendered so far
  result    \* what Create returned, or Running

vars == <<swaps, idx, configs, result>>

Returned(outcome, list) == [outcome |-> outcome, configs |-> list]
Running == Returned("running", <<>>)

Init ==
  /\ swaps \in SwapLists
  /\ idx = 0 /\ configs = <<>> /\ result = Running

\* Mutant: the loop goes on after a swap that does not render.
SkipsFailures ==
  /\ result = Running /\ idx < Len(swaps)
  /\ LET rendered == render(idx, swaps[idx + 1])
     IN  configs' = IF rendered.outcome = "ok" THEN Append(configs, rendered.config)
                    ELSE configs
  /\ idx' = idx + 1
  /\ UNCHANGED <<swaps, result>>

RenderNext ==
  /\ result = Running /\ idx < Len(swaps)
  /\ LET rendered == render(idx, swaps[idx + 1])
     IN  IF rendered.outcome = "ok"
         THEN /\ configs' = Append(configs, rendered.config)
              /\ idx' = idx + 1
              /\ result' = Running
         ELSE /\ result' = Returned(rendered.outcome, <<>>)
              /\ UNCHANGED <<idx, configs>>
  /\ UNCHANGED swaps

ReturnConfigs ==
  /\ result = Running /\ idx = Len(swaps)
  /\ result' = Returned("ok", configs)
  /\ UNCHANGED <<swaps, idx, configs>>

Next == RenderNext \/ ReturnConfigs

Spec == Init /\ [][Next]_vars

-----------------------------------------------------------------------------
\* The loop returns all or nothing: every swap's config in the order of the
\* list, or only how the first swap that does not render went wrong.
ReturnsCreate == result # Running => result = Create(swaps)

\* The bytes a size argument stands for.
SizeBytes(size) ==
  CHOOSE bytes \in {size.count * units[i].size : i \in {j \in 1..3 : units[j].name = size.unit}} : TRUE

\* A swap of an unknown type, or of a size that is not positive, not in whole Ki,
\* or more than int64 holds.
Refusable(swap) ==
  \/ swap.SwapType \notin SwapTypes
  \/ /\ swap.SwapType = "file" /\ swap.File # NoFile
     /\ LET bytes == CeilBytes(swap.File.Size)
        IN  bytes <= 0 \/ bytes % Ki # 0 \/ ~FitsInt64(bytes)

\* For every size that int64 holds: the size argument is the size asked for,
\* rounded up to whole bytes, in the coarsest unit that divides it, and only a
\* size that is not positive or not in whole Ki is refused.
SizesExact ==
  /\ \A i \in 1..Len(result.configs) :
       swaps[i].SwapType = "file" =>
         LET size  == result.configs[i].SwapFileSize
             bytes == CeilBytes(swaps[i].File.Size)
         IN  FitsInt64(bytes) =>
               /\ bytes = SizeBytes(size)
               /\ \A j \in Dividing(bytes) : units[j].size * size.count <= bytes
  /\ result.outcome = "error" => \E i \in 1..Len(swaps) : Refusable(swaps[i])

\* "Converts a resource.Quantity to a string suitable for fallocate --length"
\* (config.go:107): the argument is the quantity's size, whatever it is.
SizesConverted ==
  \A i \in 1..Len(result.configs) :
    swaps[i].SwapType = "file" =>
      SizeBytes(result.configs[i].SwapFileSize) = CeilBytes(swaps[i].File.Size)

\* The template of a file swap is guarded by {{- if .EnableFileBasedSwap }}
\* and the flag is set for it (config.go:53), so a rendered file swap has it.
FileSwapsEnabled ==
  \A i \in 1..Len(result.configs) :
    swaps[i].SwapType = "file" => result.configs[i].EnableFileBasedSwap

=============================================================================
