----------------------------- MODULE RenderConfig -----------------------------
(***************************************************************************)
(* internal/renderconfig/config.go: the list of swaps of a NodeSwap becomes *)
(* a list of RenderConfigs, the values the templates are rendered with.    *)
(*                                                                         *)
(* Go's (value, error) results are records with an outcome; the outcome    *)
(* "panic" is the nil dereference of a file swap without its file section. *)
(***************************************************************************)
EXTENDS Integers, Sequences, FiniteSetsExt

CONSTANTS
  Ki,       \* 1024: the factor between Gi, Mi, Ki and bytes
  Frac,     \* how many of the smallest steps of a Quantity make one byte
  Half,     \* 2^63: int64 is -Half .. Half-1 and uint is 0 .. 2*Half-1
  NoFile    \* the nil *SwapFile

ASSUME KiAssumption   == Ki \in Nat /\ Ki > 1
ASSUME FracAssumption == Frac \in Nat /\ Frac > 0
ASSUME HalfAssumption == Half \in Nat /\ Half > 0

(***************************************************************************)
(* api/v1alpha1: what a swap of the list holds.  A Quantity keeps its      *)
(* amount, counted in steps of 1/Frac byte, and the representation the     *)
(* parser chose for it: a scaled int64 or an arbitrary-precision decimal.  *)
(***************************************************************************)
SwapTypes == {"file", "disk", "zram"}
Representations == {"int64", "dec"}
Quantity == [amount : Int, repr : Representations]
SwapFile(paths) == [Path : paths, Size : Quantity]

-----------------------------------------------------------------------------
(* resource.Quantity and Go's integer conversions.                         *)

CeilBytes(q) == -((-q.amount) \div Frac)

\* The low 64 bits of n, read as a signed number.
Int64(n) ==
  LET low == n % (2 * Half)
  IN  IF low >= Half THEN low - 2 * Half ELSE low

FitsInt64(n) == n \in (-Half)..(Half - 1)

\* Quantity.Value: rounded up to whole bytes.  Out of range, the scaled int64
\* gives 0 and the decimal gives its low 64 bits.
Value(q) ==
  IF FitsInt64(CeilBytes(q)) THEN CeilBytes(q)
  ELSE IF q.repr = "int64" THEN 0 ELSE Int64(CeilBytes(q))

\* uint(swap.Priority): sign extension, then the bits read as unsigned.
Uint(n) == n % (2 * Half)

-----------------------------------------------------------------------------
(* The size argument.                                                      *)

\* Mutant: the finest unit is tried first.
FinestFirst == << [name |-> "Ki", size |-> Ki],
                  [name |-> "Mi", size |-> Ki * Ki],
                  [name |-> "Gi", size |-> Ki * Ki * Ki] >>

units == << [name |-> "Gi", size |-> Ki * Ki * Ki],
            [name |-> "Mi", size |-> Ki * Ki],
            [name |-> "Ki", size |-> Ki] >>

Dividing(bytes) == {i \in 1..3 : bytes % units[i].size = 0}

NoSize == [count |-> 0, unit |-> ""]

SizeError == [ok |-> FALSE, arg |-> NoSize]

\* The loop over units returns at the first that divides.
MkswapSizeArg(q) ==
  LET bytes == Value(q)
      i     == Min(Dividing(bytes))
  IN  IF q.amount <= 0 \/ bytes <= 0 \/ Dividing(bytes) = {}
      THEN SizeError
      ELSE [ok  |-> TRUE,
            arg |-> [count |-> bytes \div units[i].size, unit |-> units[i].name]]

-----------------------------------------------------------------------------
(* One swap, then the list.                                                *)

Prefix == [file |-> "99-filebased-swap",
           disk |-> "99-diskbased-swap",
           zram |-> "99-zrambased-swap"]

\* fmt.Sprintf("%s-%d", prefix, id), as the pair it is made of.
generateName(id, swap) == <<Prefix[swap.SwapType], id>>

ZeroConfig ==
  [Name                |-> <<"", 0>>,
   Index               |-> 0,
   EnableFileBasedSwap |-> FALSE,
   EnableDiskBasedSwap |-> FALSE,
   EnableZramBasedSwap |-> FALSE,
   SwapFileSize        |-> NoSize,
   SwapFilePath        |-> "",
   SwapDevicePriotiry  |-> 0]

Rendered(config) == [outcome |-> "ok", config |-> config]
RenderError      == [outcome |-> "error", config |-> ZeroConfig]
RenderPanic      == [outcome |-> "panic", config |-> ZeroConfig]

generateFileBasedSwapConfig(file) ==
  LET size == MkswapSizeArg(file.Size)
  IN  IF file = NoFile THEN RenderPanic
      ELSE IF ~size.ok THEN RenderError
      ELSE Rendered([ZeroConfig EXCEPT !.SwapFileSize = size.arg,
                                       !.SwapFilePath = file.Path])

generateDiskBasedSwapConfig == Rendered(ZeroConfig)
generateZramBasedSwapConfig == Rendered(ZeroConfig)

\* The switch first sets Index and an Enable flag and then assigns the whole
\* config anew from the generate function, so neither of them survives: only
\* Name and the priority are added to what was generated.
render(id, swap) ==
  LET generated ==
        CASE swap.SwapType = "file" -> generateFileBasedSwapConfig(swap.File)
          [] swap.SwapType = "disk" -> generateDiskBasedSwapConfig
          [] swap.SwapType = "zram" -> generateZramBasedSwapConfig
          [] OTHER -> RenderError
  IN  IF generated.outcome # "ok" THEN generated
      ELSE Rendered([generated.config EXCEPT
                       !.Name = generateName(id, swap),
                       !.SwapDevicePriotiry = Uint(swap.Priority)])

\* The ids are Go's 0-based indices.  The loop leaves at the first swap that
\* does not render, and nothing rendered before it is returned.
Create(swaps) ==
  LET results  == [i \in 1..Len(swaps) |-> render(i - 1, swaps[i])]
      failures == {i \in 1..Len(swaps) : results[i].outcome # "ok"}
  IN  IF failures # {}
      THEN [outcome |-> results[Min(failures)].outcome, configs |-> <<>>]
      ELSE [outcome |-> "ok", configs |-> [i \in 1..Len(swaps) |-> results[i].config]]

=============================================================================
