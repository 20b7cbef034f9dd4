-------------------------- MODULE NodeSwapSpecProofs --------------------------
(***************************************************************************)
(* The two parts of a NodeSwapSpec: renderconfig.Create, for lists of any  *)
(* length, any factor between the units and any width of int64; and        *)
(* parseLabelSelector, on texts of any length.                             *)
(***************************************************************************)
EXTENDS CreateLoop, SelectorText, SequenceTheorems, WellFoundedInduction, TLAPS

\* The results of the swaps, one by one.
At(i)     == render(i - 1, swaps[i])
Results   == {At(i).config : i \in 1..Len(swaps)}

\* What the loop has done when it comes to idx.
LoopInv ==
  /\ swaps \in SwapLists
  /\ idx \in 0..Len(swaps)
  /\ configs \in Seq(Results) /\ Len(configs) = idx
  /\ \A i \in 1..idx : At(i).outcome = "ok" /\ configs[i] = At(i).config
  /\ result # Running => result = Create(swaps)
  /\ result.outcome = "error" => \E i \in 1..Len(swaps) : At(i).outcome = "error"

LEMMA ListLength ==
  ASSUME NEW list \in SwapLists
  PROVE  Len(list) \in Nat
BY SwapListsAssumption DEF SwapListsAssumption

\* The first of the failures is the one the loop meets.
LEMMA FirstFailure ==
  ASSUME NEW list, NEW n \in Nat, n \in 1..Len(list), Len(list) \in Nat,
         render(n - 1, list[n]).outcome # "ok",
         \A i \in 1..(n - 1) : render(i - 1, list[i]).outcome = "ok"
  PROVE  Create(list) = [outcome |-> render(n - 1, list[n]).outcome, configs |-> <<>>]
<1> DEFINE results  == [i \in 1..Len(list) |-> render(i - 1, list[i])]
           failures == {i \in 1..Len(list) : results[i].outcome # "ok"}
<1>1. n \in failures /\ \A i \in failures : n <= i
  OBVIOUS
<1>2. failures \subseteq Nat
  OBVIOUS
<1> HIDE DEF failures
<1>3. \A m \in failures : (\A i \in failures : m <= i) => m = n
  BY <1>1, <1>2
<1>4. Min(failures) = n
  BY <1>1, <1>3 DEF Min
<1>5. Create(list) = [outcome |-> results[Min(failures)].outcome, configs |-> <<>>]
  BY <1>1 DEF Create, failures
<1> QED
  BY <1>4, <1>5

LEMMA NoFailure ==
  ASSUME NEW list, \A i \in 1..Len(list) : render(i - 1, list[i]).outcome = "ok"
  PROVE  Create(list) = [outcome |-> "ok",
                         configs |-> [i \in 1..Len(list) |-> render(i - 1, list[i]).config]]
BY DEF Create

LEMMA InitLoop == Init => LoopInv
<1> SUFFICES ASSUME Init PROVE LoopInv
  OBVIOUS
<1>1. Len(swaps) \in Nat
  BY ListLength DEF Init
<1> QED
  BY <1>1 DEF Init, LoopInv, Running, Returned

LEMMA NextLoop == LoopInv /\ [Next]_vars => LoopInv'
<1> SUFFICES ASSUME LoopInv, [Next]_vars PROVE LoopInv'
  OBVIOUS
<1>0. Len(swaps) \in Nat
  BY ListLength DEF LoopInv
<1>1. CASE RenderNext /\ At(idx + 1).outcome = "ok"
  <2>1. /\ idx < Len(swaps) /\ idx' = idx + 1 /\ swaps' = swaps /\ result' = Running
        /\ configs' = Append(configs, At(idx + 1).config)
    BY <1>0, <1>1 DEF RenderNext, At, LoopInv
  <2>2. At(idx + 1).config \in Results /\ idx \in Nat /\ configs \in Seq(Results) /\ Len(configs) = idx
    BY <1>0, <2>1 DEF Results, LoopInv
  <2>3. configs' \in Seq(Results) /\ Len(configs') = idx'
    BY <2>1, <2>2
  <2>4. ASSUME NEW i \in 1..idx' PROVE At(i).outcome = "ok" /\ configs'[i] = At(i).config
    <3>1. CASE i = idx + 1
      BY <1>1, <2>1, <2>2, <3>1
    <3>2. CASE i # idx + 1
      <4>1. i \in 1..idx
        BY <2>1, <2>2, <2>4, <3>2
      <4>2. configs'[i] = configs[i]
        BY <2>1, <2>2, <4>1
      <4> QED
        BY <4>1, <4>2 DEF LoopInv
    <3> QED
      BY <3>1, <3>2
  <2>5. Results' = Results /\ \A i \in 1..idx' : At(i)' = At(i)
    BY <2>1 DEF Results, At
  <2>6. idx' \in 0..Len(swaps)
    BY <1>0, <2>1, <2>2
  <2>7. result'.outcome # "error"
    BY <2>1 DEF Running, Returned
  <2> QED
    BY <2>1, <2>3, <2>4, <2>5, <2>6, <2>7 DEF LoopInv
<1>2. CASE RenderNext /\ At(idx + 1).outcome # "ok"
  <2>1. /\ idx < Len(swaps) /\ UNCHANGED <<swaps, idx, configs>>
        /\ result' = Returned(At(idx + 1).outcome, <<>>)
    BY <1>2 DEF RenderNext, At, LoopInv
  <2>2. result' = Create(swaps)
    <3>1. /\ idx + 1 \in Nat /\ idx + 1 \in 1..Len(swaps) /\ (idx + 1) - 1 = idx
          /\ \A i \in 1..idx : render(i - 1, swaps[i]).outcome = "ok"
      BY <1>0, <2>1 DEF LoopInv, At
    <3> QED
      BY <1>0, <1>2, <2>1, <3>1, FirstFailure DEF Returned, At
  <2>3. idx + 1 \in 1..Len(swaps) /\ result'.outcome = At(idx + 1).outcome
    BY <1>0, <2>1 DEF LoopInv, Returned
  <2>4. result'.outcome = "error" => \E i \in 1..Len(swaps) : At(i).outcome = "error"
    BY <2>3
  <2> QED
    BY <2>1, <2>2, <2>4 DEF LoopInv, Results, At
<1>3. CASE ReturnConfigs
  <2>1. idx = Len(swaps) /\ UNCHANGED <<swaps, idx, configs>> /\ result' = Returned("ok", configs)
    BY <1>3 DEF ReturnConfigs
  <2>2. configs = [i \in 1..Len(swaps) |-> render(i - 1, swaps[i]).config]
    <3>1. configs \in Seq(Results) /\ Len(configs) = Len(swaps)
      BY <2>1 DEF LoopInv
    <3>2. \A i \in 1..Len(swaps) : configs[i] = render(i - 1, swaps[i]).config
      BY <2>1 DEF LoopInv, At
    <3>3. configs = [i \in 1..Len(swaps) |-> configs[i]]
      BY <3>1
    <3> QED
      BY <3>2, <3>3
  <2>3. result' = Create(swaps)
    BY <2>1, <2>2, NoFailure DEF Returned, LoopInv, At
  <2>4. result'.outcome # "error"
    BY <2>1 DEF Returned
  <2> QED
    BY <2>1, <2>3, <2>4 DEF LoopInv, Results, At
<1>4. CASE UNCHANGED vars
  BY <1>4 DEF vars, LoopInv, Results, At
<1> QED
  BY <1>1, <1>2, <1>3, <1>4 DEF Next

\* The loop of Create returns what the one expression says, for every list:
\* all configs in order, or how the first failing swap failed and no config.
THEOREM LoopReturnsCreate == Spec => []ReturnsCreate
<1>1. LoopInv => ReturnsCreate
  BY DEF LoopInv, ReturnsCreate
<1> QED
  BY <1>1, InitLoop, NextLoop, PTL DEF Spec

-----------------------------------------------------------------------------
(* The configs that are returned.                                          *)

LEMMA ReturnedConfigs ==
  ASSUME LoopInv, NEW i \in 1..Len(result.configs)
  PROVE  /\ i \in 1..Len(swaps) /\ At(i).outcome = "ok"
         /\ result.configs[i] = At(i).config
<1> DEFINE list == [j \in 1..Len(swaps) |-> render(j - 1, swaps[j]).config]
<1>0. Len(swaps) \in Nat
  BY ListLength DEF LoopInv
<1>1. result.configs # <<>>
  OBVIOUS
<1>2. result = Create(swaps)
  BY <1>1 DEF LoopInv, Running, Returned
<1>3. \A j \in 1..Len(swaps) : render(j - 1, swaps[j]).outcome = "ok"
  <2> SUFFICES ASSUME NEW j \in 1..Len(swaps), render(j - 1, swaps[j]).outcome # "ok"
               PROVE  FALSE
    OBVIOUS
  <2>1. Create(swaps).configs = <<>>
    BY DEF Create
  <2> QED
    BY <1>1, <1>2, <2>1
<1>4. result.configs = list
  <2>1. Create(swaps) = [outcome |-> "ok", configs |-> list]
    BY <1>3, NoFailure
  <2> HIDE DEF list
  <2> QED
    BY <1>2, <2>1
<1>5. Len(list) = Len(swaps)
  <2>1. list \in [1..Len(swaps) -> {list[j] : j \in 1..Len(swaps)}]
    OBVIOUS
  <2>2. list \in Seq({list[j] : j \in 1..Len(swaps)})
    BY <1>0, <2>1, SeqDef
  <2> QED
    BY <1>0, <2>2, LenProperties
<1> QED
  BY <1>3, <1>4, <1>5 DEF At

\* What render gives a swap that renders.
LEMMA GeneratedConfig ==
  ASSUME NEW file, generateFileBasedSwapConfig(file).outcome = "ok"
  PROVE  /\ file # NoFile /\ MkswapSizeArg(file.Size).ok
         /\ DOMAIN generateFileBasedSwapConfig(file).config = DOMAIN ZeroConfig
         /\ generateFileBasedSwapConfig(file).config.SwapFileSize = MkswapSizeArg(file.Size).arg
BY DEF generateFileBasedSwapConfig, Rendered, RenderError, RenderPanic, ZeroConfig

LEMMA RenderedConfig ==
  ASSUME NEW id, NEW swap, render(id, swap).outcome = "ok"
  PROVE  swap.SwapType = "file" =>
              /\ swap.File # NoFile /\ MkswapSizeArg(swap.File.Size).ok
              /\ render(id, swap).config.SwapFileSize = MkswapSizeArg(swap.File.Size).arg
<1> DEFINE named(generated) ==
      Rendered([generated.config EXCEPT !.Name = generateName(id, swap),
                                        !.SwapDevicePriotiry = Uint(swap.Priority)])
<1>1. ASSUME NEW generated, DOMAIN generated.config = DOMAIN ZeroConfig
      PROVE  named(generated).config.SwapFileSize = generated.config.SwapFileSize
  BY <1>1 DEF Rendered, ZeroConfig
<1>2. Rendered(ZeroConfig).outcome = "ok" /\ Rendered(ZeroConfig).config = ZeroConfig
      /\ RenderError.outcome = "error"
  BY DEF Rendered, RenderError
<1> HIDE DEF named
<1>3. CASE swap.SwapType = "file"
  <2>1. generateFileBasedSwapConfig(swap.File).outcome = "ok"
        /\ render(id, swap) = named(generateFileBasedSwapConfig(swap.File))
    BY <1>3 DEF render, named
  <2> QED
    BY <1>1, <2>1, GeneratedConfig
<1>4. CASE swap.SwapType \in {"disk", "zram"}
  <2>1. render(id, swap) = named(Rendered(ZeroConfig))
    BY <1>2, <1>4 DEF render, named, generateDiskBasedSwapConfig, generateZramBasedSwapConfig
  <2> QED
    BY <1>1, <1>2, <1>4, <2>1
<1>5. CASE swap.SwapType \notin {"file", "disk", "zram"}
  BY <1>2, <1>5 DEF render
<1> QED
  BY <1>3, <1>4, <1>5

-----------------------------------------------------------------------------
(* Sizes.                                                                  *)

\* Gi, Mi and Ki are positive, and in this order each is no smaller than the
\* next.
LEMMA UnitSizes ==
  /\ \A i \in 1..3 : units[i].size \in Nat /\ units[i].size > 0
  /\ \A i, j \in 1..3 : i <= j => units[j].size <= units[i].size
  /\ \A i, j \in 1..3 : units[i].name = units[j].name => i = j
<1>0. Ki \in Nat /\ Ki > 1
  BY KiAssumption DEF KiAssumption
<1>1. /\ units[1] = [name |-> "Gi", size |-> Ki * Ki * Ki]
      /\ units[2] = [name |-> "Mi", size |-> Ki * Ki]
      /\ units[3] = [name |-> "Ki", size |-> Ki]
  BY DEF units
<1>2. Ki * Ki \in Nat /\ Ki <= Ki * Ki
  BY <1>0
<1>3. Ki * Ki * Ki \in Nat /\ Ki * Ki <= Ki * Ki * Ki
  BY <1>0, <1>2
<1> QED
  BY <1>0, <1>1, <1>2, <1>3

\* In whole numbers, what divides divides exactly.
LEMMA ExactDivision ==
  ASSUME NEW n \in Nat, NEW d \in Nat, d > 0, n % d = 0
  PROVE  n \div d \in Nat /\ (n \div d) * d = n
OBVIOUS

LEMMA Multiplied ==
  ASSUME NEW a \in Nat, NEW b \in Nat, NEW c \in Nat, a <= b
  PROVE  a * c <= b * c
OBVIOUS

LEMMA CeilBytesType ==
  ASSUME NEW q \in Quantity
  PROVE  CeilBytes(q) \in Int
BY FracAssumption DEF FracAssumption, CeilBytes, Quantity

\* The size argument of a quantity that int64 holds.
LEMMA ExactSize ==
  ASSUME NEW q \in Quantity, FitsInt64(CeilBytes(q)), MkswapSizeArg(q).ok
  PROVE  LET bytes == CeilBytes(q)
             size  == MkswapSizeArg(q).arg
         IN  /\ bytes = SizeBytes(size)
             /\ \A j \in Dividing(bytes) : units[j].size * size.count <= bytes
<1> DEFINE bytes == CeilBytes(q)
           i == Min(Dividing(bytes))
           arg == [count |-> bytes \div units[i].size, unit |-> units[i].name]
<1>1. Value(q) = bytes
  BY DEF Value
<1>2. bytes \in Nat /\ Dividing(bytes) # {} /\ MkswapSizeArg(q).arg = arg
  BY <1>1, CeilBytesType DEF MkswapSizeArg, SizeError
<1> HIDE DEF bytes
<1>3. i \in Dividing(bytes) /\ \A j \in Dividing(bytes) : i <= j
  <2>1. \E k \in Dividing(bytes) : \A j \in Dividing(bytes) : k <= j
    BY <1>2 DEF Dividing
  <2> QED
    BY <2>1 DEF Min
<1> HIDE DEF i
<1>4. /\ i \in 1..3 /\ units[i].size \in Nat /\ units[i].size > 0 /\ bytes % units[i].size = 0
  BY <1>3, UnitSizes DEF Dividing
<1>5. arg.count \in Nat /\ arg.count * units[i].size = bytes
  BY <1>2, <1>4, ExactDivision
<1>6. SizeBytes(arg) = bytes
  <2>1. {k \in 1..3 : units[k].name = arg.unit} = {i}
    BY <1>4, UnitSizes
  <2>2. {arg.count * units[k].size : k \in {i}} = {bytes}
    BY <1>5
  <2> QED
    BY <2>1, <2>2 DEF SizeBytes
<1>7. ASSUME NEW j \in Dividing(bytes) PROVE units[j].size * arg.count <= bytes
  <2>1. j \in 1..3 /\ i <= j
    BY <1>3 DEF Dividing
  <2>2. units[j].size \in Nat /\ units[j].size <= units[i].size
    BY <1>4, <2>1, UnitSizes
  <2>3. units[j].size * arg.count <= units[i].size * arg.count
    BY <1>4, <1>5, <2>2, Multiplied
  <2>4. units[i].size * arg.count = arg.count * units[i].size
    BY <1>4, <1>5
  <2> QED
    BY <1>5, <2>3, <2>4
<1> QED
  BY <1>2, <1>6, <1>7 DEF bytes

\* A size of which there is no argument.
LEMMA RefusedSize ==
  ASSUME NEW q \in Quantity, ~MkswapSizeArg(q).ok, NEW bytes, bytes = CeilBytes(q)
  PROVE  bytes <= 0 \/ bytes % Ki # 0 \/ ~FitsInt64(bytes)
<1> SUFFICES ASSUME FitsInt64(bytes), bytes > 0, bytes % Ki = 0 PROVE FALSE
  BY CeilBytesType
<1>1. Value(q) = bytes
  BY DEF Value
<1>2. 3 \in Dividing(bytes)
  BY DEF Dividing, units
<1>3. q.amount > 0
  <2>1. Frac \in Nat /\ Frac > 0 /\ q.amount \in Int
    BY FracAssumption DEF FracAssumption, Quantity
  <2>2. ASSUME NEW a \in Nat PROVE a \div Frac \in Nat
    BY <2>1
  <2>3. SUFFICES ASSUME q.amount <= 0 PROVE FALSE
    BY <2>1
  <2>4. (-q.amount) \div Frac \in Nat
    BY <2>1, <2>2, <2>3
  <2> QED
    BY <2>4 DEF CeilBytes
<1>4. ~(q.amount <= 0) /\ ~(bytes <= 0)
  BY <1>3, CeilBytesType DEF Quantity
<1> QED
  BY <1>1, <1>2, <1>4 DEF MkswapSizeArg

\* A swap that does not render without a panic.
LEMMA RefusedSwap ==
  ASSUME NEW id, NEW swap, render(id, swap).outcome = "error",
         swap.File = NoFile \/ swap.File.Size \in Quantity
  PROVE  Refusable(swap)
<1>1. Rendered(ZeroConfig).outcome = "ok"
  BY DEF Rendered
<1>2. \A config : Rendered(config).outcome = "ok"
  BY DEF Rendered
<1>3. CASE swap.SwapType = "file"
  <2>1. generateFileBasedSwapConfig(swap.File).outcome = "error"
    BY <1>2, <1>3 DEF render
  <2>2. swap.File # NoFile /\ ~MkswapSizeArg(swap.File.Size).ok
    BY <1>2, <2>1 DEF generateFileBasedSwapConfig, RenderPanic
  <2> QED
    BY <1>3, <2>2, RefusedSize DEF Refusable
<1>4. CASE swap.SwapType \in {"disk", "zram"}
  BY <1>1, <1>2, <1>4 DEF render, generateDiskBasedSwapConfig, generateZramBasedSwapConfig
<1>5. CASE swap.SwapType \notin SwapTypes
  BY <1>5 DEF Refusable
<1> QED
  BY <1>3, <1>4, <1>5 DEF SwapTypes

\* When Create returns an error, one of the swaps is the reason.
LEMMA RefusedList ==
  ASSUME LoopInv, result.outcome = "error"
  PROVE  \E i \in 1..Len(swaps) : Refusable(swaps[i])
<1>1. PICK i \in 1..Len(swaps) : render(i - 1, swaps[i]).outcome = "error"
  BY DEF LoopInv, At
<1>2. swaps[i].File = NoFile \/ swaps[i].File.Size \in Quantity
  BY SwapListsAssumption DEF SwapListsAssumption, LoopInv
<1> QED
  BY <1>1, <1>2, RefusedSwap

\* Whatever the unit factor and the width of int64: a returned config asks for
\* the bytes of its swap, in the coarsest unit that divides them, and a list is
\* refused only for a swap of an unknown type or of a size that is not positive,
\* not in whole Ki, or more than int64 holds.
THEOREM SizesAreExact == Spec => []SizesExact
<1>1. ASSUME LoopInv, NEW i \in 1..Len(result.configs), swaps[i].SwapType = "file",
             FitsInt64(CeilBytes(swaps[i].File.Size))
      PROVE  LET size  == result.configs[i].SwapFileSize
                 bytes == CeilBytes(swaps[i].File.Size)
             IN  /\ bytes = SizeBytes(size)
                 /\ \A j \in Dividing(bytes) : units[j].size * size.count <= bytes
  <2>1. /\ i \in 1..Len(swaps) /\ swaps[i].File # NoFile
        /\ MkswapSizeArg(swaps[i].File.Size).ok
        /\ result.configs[i].SwapFileSize = MkswapSizeArg(swaps[i].File.Size).arg
    BY <1>1, ReturnedConfigs, RenderedConfig DEF At
  <2>2. swaps[i].File.Size \in Quantity
    BY <1>1, <2>1, SwapListsAssumption DEF SwapListsAssumption, LoopInv
  <2> QED
    BY <1>1, <2>1, <2>2, ExactSize
<1>2. LoopInv => SizesExact
  BY <1>1, RefusedList DEF SizesExact
<1> QED
  BY <1>2, InitLoop, NextLoop, PTL DEF Spec

-----------------------------------------------------------------------------
(* parseLabelSelector: texts, token by token.                              *)

LEMMA LeastOf ==
  ASSUME NEW S, S \subseteq Nat, NEW x \in S, \A y \in S : x <= y
  PROVE  Min(S) = x
<1>1. Min(S) \in S /\ \A y \in S : Min(S) <= y
  BY DEF Min
<1>2. Min(S) <= x /\ x <= Min(S) /\ x \in Nat /\ Min(S) \in Nat
  BY <1>1
<1> QED
  BY <1>2

LEMMA GreatestOf ==
  ASSUME NEW S, S \subseteq Nat, NEW x \in S, \A y \in S : x >= y
  PROVE  Max(S) = x
<1>1. Max(S) \in S /\ \A y \in S : Max(S) >= y
  BY DEF Max
<1>2. Max(S) >= x /\ x >= Max(S) /\ x \in Nat /\ Max(S) \in Nat
  BY <1>1
<1> QED
  BY <1>2

\* Two texts in a row, token by token.
LEMMA RowTokens ==
  ASSUME NEW S, NEW s \in Seq(S), NEW t \in Seq(S), NEW row, row = s \o t
  PROVE  /\ row \in Seq(S) /\ Len(row) = Len(s) + Len(t)
         /\ \A i \in 1..Len(s) : row[i] = s[i]
         /\ \A i \in 1..Len(t) : row[Len(s) + i] = t[i]
OBVIOUS

LEMMA ThreeTokens ==
  ASSUME NEW S, NEW r \in Seq(S), NEW s \in Seq(S), NEW t \in Seq(S),
         NEW row, row = (r \o s) \o t
  PROVE  /\ row \in Seq(S) /\ Len(row) = Len(r) + Len(s) + Len(t)
         /\ \A i \in 1..Len(r) : row[i] = r[i]
         /\ \A i \in 1..Len(s) : row[Len(r) + i] = s[i]
         /\ \A i \in 1..Len(t) : row[Len(r) + Len(s) + i] = t[i]
<1>1. PICK rs : rs = r \o s
  OBVIOUS
<1>2. /\ rs \in Seq(S) /\ Len(rs) = Len(r) + Len(s)
      /\ \A i \in 1..Len(r) : rs[i] = r[i]
      /\ \A i \in 1..Len(s) : rs[Len(r) + i] = s[i]
  BY <1>1, RowTokens
<1>3. row = rs \o t
  BY <1>1
<1>4. /\ row \in Seq(S) /\ Len(row) = Len(rs) + Len(t)
      /\ \A i \in 1..Len(rs) : row[i] = rs[i]
      /\ \A i \in 1..Len(t) : row[Len(rs) + i] = t[i]
  <2>1. rs \in Seq(S)
    BY <1>2
  <2> QED
    BY ONLY <2>1, <1>3, t \in Seq(S), RowTokens
<1>5. Len(r) \in Nat /\ Len(s) \in Nat /\ Len(t) \in Nat
  OBVIOUS
<1>6. ASSUME NEW i \in 1..Len(r) PROVE row[i] = r[i]
  <2>1. i \in 1..Len(rs)
    BY <1>2, <1>5
  <2> QED
    BY <2>1, <1>2, <1>4
<1>7. ASSUME NEW i \in 1..Len(s) PROVE row[Len(r) + i] = s[i]
  <2>1. Len(r) + i \in 1..Len(rs)
    BY <1>2, <1>5
  <2> QED
    BY <2>1, <1>2, <1>4
<1>8. Len(row) = Len(r) + Len(s) + Len(t)
  BY <1>2, <1>4
<1>9. \A i \in 1..Len(t) : row[Len(r) + Len(s) + i] = t[i]
  BY <1>2, <1>4
<1> QED
  BY <1>4, <1>6, <1>7, <1>8, <1>9

\* A padded part, token by token.
PaddedSo(t, a, part, b) ==
  /\ Len(t) = a + Len(part) + b
  /\ \A i \in 1..a : t[i] = Space
  /\ \A i \in 1..Len(part) : t[a + i] = part[i]
  /\ \A i \in 1..b : t[a + Len(part) + i] = Space

LEMMA PaddedTokens ==
  ASSUME NEW S, NEW part \in Seq(S), NEW a \in Nat, NEW b \in Nat
  PROVE  /\ Padded(a, part, b) \in Seq(S \cup {Space})
         /\ PaddedSo(Padded(a, part, b), a, part, b)
<1>0. PICK t, R : t = Padded(a, part, b) /\ R = S \cup {Space}
  OBVIOUS
<1>1. PICK A, B : A = Blanks(a) /\ B = Blanks(b)
  OBVIOUS
<1>2. /\ A \in Seq(R) /\ Len(A) = a /\ (\A i \in 1..a : A[i] = Space)
      /\ B \in Seq(R) /\ Len(B) = b /\ (\A i \in 1..b : B[i] = Space)
  BY <1>0, <1>1 DEF Blanks
<1>3. part \in Seq(R)
  BY <1>0
<1>4. t = (A \o part) \o B
  BY <1>0, <1>1 DEF Padded
<1>5. /\ t \in Seq(R) /\ Len(t) = Len(A) + Len(part) + Len(B)
      /\ \A i \in 1..Len(A) : t[i] = A[i]
      /\ \A i \in 1..Len(part) : t[Len(A) + i] = part[i]
      /\ \A i \in 1..Len(B) : t[Len(A) + Len(part) + i] = B[i]
  <2>1. A \in Seq(R) /\ B \in Seq(R)
    BY <1>2
  <2> QED
    BY ONLY <2>1, <1>3, <1>4, ThreeTokens
<1>6. PaddedSo(t, a, part, b)
  BY <1>2, <1>5 DEF PaddedSo
<1> QED
  BY <1>0, <1>5, <1>6

LEMMA SameTokens ==
  ASSUME NEW S, NEW s \in Seq(S), NEW t \in Seq(S), Len(s) = Len(t),
         \A i \in 1..Len(s) : s[i] = t[i]
  PROVE  s = t
OBVIOUS

\* A part of a text, token by token.
LEMMA PartTokens ==
  ASSUME NEW S, NEW t \in Seq(S), NEW i \in Nat, NEW j \in Nat, i >= 1, i <= j + 1, j <= Len(t)
  PROVE  /\ SubSeq(t, i, j) \in Seq(S) /\ Len(SubSeq(t, i, j)) = j - i + 1
         /\ \A k \in 1..(j - i + 1) : SubSeq(t, i, j)[k] = t[i + k - 1]
OBVIOUS

\* TrimSpace takes the padding off a trimmed part.
LEMMA TrimsPadding ==
  ASSUME NEW S, NEW part \in Seq(S), Trimmed(part), NEW a \in Nat, NEW b \in Nat
  PROVE  TrimSpace(Padded(a, part, b)) = part
<1>0. PICK t, R : t = Padded(a, part, b) /\ R = S \cup {Space}
  OBVIOUS
<1> DEFINE solid == (1..Len(t)) \ Positions(t, Space)
<1>1. /\ t \in Seq(R) /\ Len(t) = a + Len(part) + b
      /\ \A i \in 1..a : t[i] = Space
      /\ \A i \in 1..Len(part) : t[a + i] = part[i]
      /\ \A i \in 1..b : t[a + Len(part) + i] = Space
  <2>1. Padded(a, part, b) \in Seq(S \cup {Space}) /\ PaddedSo(Padded(a, part, b), a, part, b)
    BY PaddedTokens
  <2> QED
    BY <2>1, <1>0 DEF PaddedSo
<1>2. part \in Seq(R) /\ Len(part) \in Nat
  BY <1>0
<1>3. TrimSpace(t) = IF solid = {} THEN <<>> ELSE SubSeq(t, Min(solid), Max(solid))
  BY DEF TrimSpace
<1>4. \A i \in 1..Len(t) : i \in solid <=> t[i] # Space
  BY DEF Positions
<1>5. solid \subseteq 1..Len(t) /\ solid \subseteq Nat
  OBVIOUS
<1> HIDE DEF solid
<1>6. ASSUME NEW i \in solid PROVE i >= a + 1 /\ i <= a + Len(part)
  <2>1. i \in 1..Len(t) /\ t[i] # Space
    BY <1>4, <1>5
  <2>2. i <= a + Len(part) \/ (i - a - Len(part) \in 1..b /\ a + Len(part) + (i - a - Len(part)) = i)
    BY <2>1, <1>1, <1>2
  <2> QED
    <3>1. i >= a + 1
      BY <2>1, <1>1
    <3>2. i <= a + Len(part)
      BY <2>1, <2>2, <1>1
    <3> QED
      BY <3>1, <3>2
<1>7. CASE part = <<>>
  <2>1. Len(part) = 0
    BY <1>7
  <2>2. solid = {}
    BY <2>1, <1>5, <1>6
  <2> QED
    BY <2>2, <1>3, <1>7, <1>0
<1>8. CASE part # <<>>
  <2>0. Len(part) >= 1
    BY <1>8, <1>2
  <2>1. part[1] # Space /\ part[Len(part)] # Space
    BY <1>8 DEF Trimmed
  <2>2. a + 1 \in solid /\ a + Len(part) \in solid
    BY <2>0, <2>1, <1>1, <1>2, <1>4
  <2>3. Min(solid) = a + 1
    BY <2>2, <1>5, <1>6, LeastOf
  <2>4. Max(solid) = a + Len(part)
    BY <2>2, <1>5, <1>6, GreatestOf
  <2>5. TrimSpace(t) = SubSeq(t, a + 1, a + Len(part))
    BY <2>2, <2>3, <2>4, <1>3
  <2>6. /\ TrimSpace(t) \in Seq(R) /\ Len(TrimSpace(t)) = Len(part)
        /\ \A k \in 1..Len(part) : TrimSpace(t)[k] = t[a + k]
    <3>1. a + 1 \in Nat /\ a + Len(part) \in Nat /\ a + Len(part) <= Len(t) /\ a + 1 <= a + Len(part) + 1
      BY <2>0, <1>1, <1>2
    <3>2. /\ TrimSpace(t) \in Seq(R) /\ Len(TrimSpace(t)) = a + Len(part) - (a + 1) + 1
          /\ \A k \in 1..(a + Len(part) - (a + 1) + 1) : TrimSpace(t)[k] = t[a + 1 + k - 1]
      BY <3>1, <2>0, <2>5, <1>1, <1>2, PartTokens
    <3>3. a + Len(part) - (a + 1) + 1 = Len(part) /\ \A k \in 1..Len(part) : a + 1 + k - 1 = a + k
      BY <1>2
    <3> QED
      BY <3>2, <3>3
  <2>7. TrimSpace(t) = part
    BY <2>6, <1>1, <1>2, SameTokens
  <2> QED
    BY <2>7, <1>0
<1> QED
  BY <1>7, <1>8

LEMMA BoundsOf ==
  ASSUME NEW S, NEW n \in Nat, S \subseteq 1..n, S # {}
  PROVE  /\ Min(S) \in S /\ \A y \in S : Min(S) <= y
         /\ Max(S) \in S /\ \A y \in S : Max(S) >= y
<1> DEFINE Less == {pair \in Nat \X Nat : pair[1] < pair[2]}
<1>0. IsWellFoundedOn(Less, Nat)
  BY NatLessThanWellFounded, Zenon DEF OpToRel
<1>1. \E x \in S : \A y \in S : x <= y
  <2>1. PICK x \in S : \A y \in S : ~(<<y, x>> \in Less)
    BY <1>0, WFMin
  <2>2. ASSUME NEW y \in S PROVE x <= y
    <3>1. x \in Nat /\ y \in Nat
      OBVIOUS
    <3>2. <<y, x>> \in Nat \X Nat /\ <<y, x>>[1] = y /\ <<y, x>>[2] = x
      BY <3>1
    <3>3. ~(y < x)
      BY <2>1, <3>2
    <3> QED
      BY <3>1, <3>3
  <2> QED
    BY <2>2
<1>2. \E x \in S : \A y \in S : x >= y
  <2> DEFINE Above == {k \in Nat : \E x \in S : k = n - x}
  <2>1. Above \subseteq Nat /\ Above # {}
    <3>1. PICK x \in S : TRUE
      OBVIOUS
    <3>2. n - x \in Above
      BY <3>1
    <3> QED
      BY <3>2
  <2>2. PICK k \in Above : \A l \in Above : ~(<<l, k>> \in Less)
    BY <2>1, <1>0, WFMin
  <2>3. PICK x \in S : k = n - x
    OBVIOUS
  <2>4. ASSUME NEW y \in S PROVE x >= y
    <3>1. x \in Nat /\ y \in Nat /\ n - y \in Above /\ n - y \in Nat /\ k \in Nat
      OBVIOUS
    <3>2. <<n - y, k>> \in Nat \X Nat /\ <<n - y, k>>[1] = n - y /\ <<n - y, k>>[2] = k
      BY <3>1
    <3>3. ~(n - y < k)
      BY <2>2, <3>1, <3>2
    <3> QED
      BY <3>1, <3>3, <2>3
  <2> QED
    BY <2>4
<1> QED
  BY <1>1, <1>2 DEF Min, Max

\* Whatever TrimSpace leaves is trimmed, and was padded in the text.
LEMMA TrimLeavesPart ==
  ASSUME NEW S, NEW t \in Seq(S)
  PROVE  /\ TrimSpace(t) \in Seq(S) /\ Trimmed(TrimSpace(t))
         /\ \E a, b \in 0..Len(t) : t = Padded(a, TrimSpace(t), b)
<1> DEFINE solid == (1..Len(t)) \ Positions(t, Space)
<1>0. PICK R : R = S \cup {Space}
  OBVIOUS
<1>1. TrimSpace(t) = IF solid = {} THEN <<>> ELSE SubSeq(t, Min(solid), Max(solid))
  BY DEF TrimSpace
<1>2. \A i \in 1..Len(t) : i \in solid <=> t[i] # Space
  BY DEF Positions
<1>3. solid \subseteq 1..Len(t) /\ Len(t) \in Nat /\ t \in Seq(R)
  BY <1>0
<1> HIDE DEF solid
<1>4. CASE solid = {}
  <2>1. TrimSpace(t) = <<>> /\ <<>> \in Seq(S) /\ Len(<<>>) = 0
    BY <1>1, <1>4
  <2>2. PICK u : u = Padded(Len(t), <<>>, 0)
    OBVIOUS
  <2>3. u \in Seq(R) /\ PaddedSo(u, Len(t), <<>>, 0)
    BY <2>1, <2>2, <1>0, <1>3, PaddedTokens
  <2>4. Len(u) = Len(t) /\ \A i \in 1..Len(t) : u[i] = Space
    BY <2>1, <2>3, <1>3 DEF PaddedSo
  <2>5. \A i \in 1..Len(t) : t[i] = Space
    BY <1>2, <1>4
  <2>6. t = u
    BY <2>3, <2>4, <2>5, <1>3, SameTokens
  <2>7. Len(t) \in 0..Len(t) /\ 0 \in 0..Len(t)
    BY <1>3
  <2> QED
    BY <2>1, <2>2, <2>6, <2>7 DEF Trimmed
<1>5. CASE solid # {}
  <2>1. PICK m, n : m = Min(solid) /\ n = Max(solid)
    OBVIOUS
  <2>2. /\ m \in solid /\ \A i \in solid : m <= i
        /\ n \in solid /\ \A i \in solid : n >= i
    BY <2>1, <1>3, <1>5, BoundsOf
  <2>3. /\ m \in Nat /\ n \in Nat /\ m >= 1 /\ m <= n /\ n <= Len(t)
        /\ t[m] # Space /\ t[n] # Space
    BY <2>2, <1>2, <1>3
  <2>4. PICK part : part = SubSeq(t, m, n)
    OBVIOUS
  <2>5. TrimSpace(t) = part
    BY <2>1, <2>4, <1>1, <1>5
  <2>6. /\ part \in Seq(S) /\ Len(part) = n - m + 1
        /\ \A k \in 1..(n - m + 1) : part[k] = t[m + k - 1]
    BY <2>3, <2>4, PartTokens
  <2>7. Trimmed(part)
    <3>1. part[1] = t[m] /\ part[Len(part)] = t[n]
      BY <2>3, <2>6
    <3> QED
      BY <3>1, <2>3 DEF Trimmed
  <2>8. PICK a, b : a = m - 1 /\ b = Len(t) - n
    OBVIOUS
  <2>9. a \in Nat /\ b \in Nat /\ a \in 0..Len(t) /\ b \in 0..Len(t)
    BY <2>3, <2>8, <1>3
  <2>10. PICK u : u = Padded(a, part, b)
    OBVIOUS
  <2>11. u \in Seq(R) /\ PaddedSo(u, a, part, b)
    BY <2>6, <2>9, <2>10, <1>0, PaddedTokens
  <2>12. Len(u) = Len(t)
    BY <2>3, <2>6, <2>8, <2>11, <1>3 DEF PaddedSo
  <2>13. ASSUME NEW i \in 1..Len(t) PROVE u[i] = t[i]
    <3>1. CASE i < m
      <4>1. u[i] = Space
        BY <3>1, <2>3, <2>8, <2>11 DEF PaddedSo
      <4>2. i \notin solid
        BY <3>1, <2>2, <2>3, <1>3
      <4> QED
        BY <4>1, <4>2, <1>2
    <3>2. CASE i > n
      <4>1. i - n \in 1..b /\ a + Len(part) + (i - n) = i
        BY <3>2, <2>3, <2>6, <2>8, <1>3
      <4>2. u[i] = Space
        BY <4>1, <2>11 DEF PaddedSo
      <4>3. i \notin solid
        BY <3>2, <2>2, <2>3, <1>3
      <4> QED
        BY <4>2, <4>3, <1>2
    <3>3. CASE i >= m /\ i <= n
      <4>1. PICK k : k = i - a
        OBVIOUS
      <4>2. k \in 1..Len(part) /\ a + k = i /\ m + k - 1 = i
        BY <4>1, <3>3, <2>3, <2>6, <2>8
      <4>3. u[a + k] = part[k]
        BY <4>2, <2>11 DEF PaddedSo
      <4> QED
        BY <4>2, <4>3, <2>6
    <3> QED
      BY <3>1, <3>2, <3>3, <2>3
  <2>14. t = u
    BY <2>11, <2>12, <2>13, <1>3, SameTokens
  <2> QED
    BY <2>5, <2>6, <2>7, <2>9, <2>10, <2>14
<1> QED
  BY <1>4, <1>5

-----------------------------------------------------------------------------
LEMMA PartsAreTexts ==
  ASSUME NEW S, text \in Seq(S), NEW part \in Parts
  PROVE  part \in Seq(S)
<1>1. PICK i \in 1..Len(text), j \in 0..Len(text) : part = SubSeq(text, i, j)
  BY DEF Parts
<1>2. CASE i <= j + 1
  BY <1>1, <1>2, PartTokens
<1>3. CASE ~(i <= j + 1)
  <2>1. part = <<>>
    BY <1>1, <1>3
  <2> QED
    BY <2>1
<1> QED
  BY <1>2, <1>3

StandsAt(part, n) ==
  n + Len(part) <= Len(text) /\ \A k \in 1..Len(part) : part[k] = text[n + k]

\* What stands somewhere in the text is one of its parts.
LEMMA PartOfText ==
  ASSUME NEW S, text \in Seq(S), NEW part \in Seq(S), NEW n \in Nat,
         Len(text) >= 1, StandsAt(part, n)
  PROVE  part \in Parts
<1>0. /\ Len(text) \in Nat /\ Len(part) \in Nat /\ n + Len(part) <= Len(text)
      /\ \A k \in 1..Len(part) : part[k] = text[n + k]
  BY DEF StandsAt
<1>1. CASE part = <<>>
  <2>1. 1 \in 1..Len(text) /\ 0 \in 0..Len(text) /\ SubSeq(text, 1, 0) = <<>>
    BY <1>0
  <2> QED
    BY <1>1, <2>1 DEF Parts
<1>2. CASE part # <<>>
  <2>1. PICK i, j : i = n + 1 /\ j = n + Len(part)
    OBVIOUS
  <2>2. Len(part) >= 1
    BY <1>0, <1>2
  <2>3. /\ i \in 1..Len(text) /\ j \in 0..Len(text) /\ i \in Nat /\ j \in Nat
        /\ i >= 1 /\ i <= j + 1 /\ j <= Len(text) /\ j - i + 1 = Len(part)
    BY <2>1, <2>2, <1>0
  <2>4. PICK u : u = SubSeq(text, i, j)
    OBVIOUS
  <2>5. /\ u \in Seq(S) /\ Len(u) = j - i + 1
        /\ \A k \in 1..(j - i + 1) : u[k] = text[i + k - 1]
    BY <2>3, <2>4, PartTokens
  <2>6. ASSUME NEW k \in 1..Len(part) PROVE u[k] = part[k]
    <3>1. i + k - 1 = n + k
      BY <2>1
    <3> QED
      BY <3>1, <2>3, <2>5, <1>0
  <2>7. u = part
    BY <2>3, <2>5, <2>6, SameTokens
  <2>8. i \in 1..Len(text) /\ j \in 0..Len(text) /\ part = SubSeq(text, i, j)
    BY <2>3, <2>4, <2>7
  <2> QED
    BY ONLY <2>8 DEF Parts
<1> QED
  BY <1>1, <1>2

\* A text is what precedes a position, what is there, and what follows.
LEMMA SplitText ==
  ASSUME NEW S, NEW t \in Seq(S), NEW p \in 1..Len(t)
  PROVE  t = SubSeq(t, 1, p - 1) \o <<t[p]>> \o SubSeq(t, p + 1, Len(t))
<1>0. Len(t) \in Nat /\ p \in Nat /\ p >= 1 /\ p <= Len(t)
  OBVIOUS
<1>1. PICK x, y, z, row : /\ x = SubSeq(t, 1, p - 1) /\ y = <<t[p]>>
                          /\ z = SubSeq(t, p + 1, Len(t)) /\ row = (x \o y) \o z
  OBVIOUS
<1>2. x \in Seq(S) /\ Len(x) = p - 1 /\ \A k \in 1..(p - 1) : x[k] = t[k]
  <2>1. /\ x \in Seq(S) /\ Len(x) = (p - 1) - 1 + 1
        /\ \A k \in 1..((p - 1) - 1 + 1) : x[k] = t[1 + k - 1]
    <3>1. p - 1 \in Nat /\ 1 \in Nat /\ 1 >= 1 /\ 1 <= (p - 1) + 1 /\ p - 1 <= Len(t)
      BY <1>0
    <3> QED
      BY <1>1, <3>1, PartTokens
  <2> QED
    BY <2>1, <1>0
<1>3. y \in Seq(S) /\ Len(y) = 1 /\ y[1] = t[p]
  BY <1>0, <1>1
<1>4. z \in Seq(S) /\ Len(z) = Len(t) - p /\ \A k \in 1..(Len(t) - p) : z[k] = t[p + k]
  <2>1. /\ z \in Seq(S) /\ Len(z) = Len(t) - (p + 1) + 1
        /\ \A k \in 1..(Len(t) - (p + 1) + 1) : z[k] = t[(p + 1) + k - 1]
    <3>1. p + 1 \in Nat /\ p + 1 >= 1 /\ p + 1 <= Len(t) + 1 /\ Len(t) <= Len(t)
      BY <1>0
    <3> QED
      BY <1>0, <1>1, <3>1, PartTokens
  <2> QED
    BY <2>1, <1>0
<1>5. /\ row \in Seq(S) /\ Len(row) = Len(x) + Len(y) + Len(z)
      /\ \A i \in 1..Len(x) : row[i] = x[i]
      /\ \A i \in 1..Len(y) : row[Len(x) + i] = y[i]
      /\ \A i \in 1..Len(z) : row[Len(x) + Len(y) + i] = z[i]
  <2>1. x \in Seq(S) /\ y \in Seq(S) /\ z \in Seq(S)
    BY <1>2, <1>3, <1>4
  <2>2. row = (x \o y) \o z
    BY <1>1
  <2> QED
    BY ONLY <2>1, <2>2, ThreeTokens
<1>6. Len(row) = Len(t)
  BY <1>0, <1>2, <1>3, <1>4, <1>5
<1>7. ASSUME NEW i \in 1..Len(t) PROVE row[i] = t[i]
  <2>1. CASE i < p
    BY <2>1, <1>0, <1>2, <1>5
  <2>2. CASE i = p
    <3>1. row[Len(x) + 1] = t[p] /\ Len(x) + 1 = p
      BY <1>0, <1>2, <1>3, <1>5
    <3> QED
      BY <2>2, <3>1
  <2>3. CASE i > p
    <3>1. PICK k : k = i - p
      OBVIOUS
    <3>2. k \in 1..Len(z) /\ Len(x) + Len(y) + k = i /\ p + k = i
      BY <3>1, <2>3, <1>0, <1>2, <1>3, <1>4
    <3>3. row[Len(x) + Len(y) + k] = z[k] /\ z[k] = t[p + k]
      BY <3>2, <1>4, <1>5
    <3> QED
      BY <3>2, <3>3
  <2> QED
    BY <2>1, <2>2, <2>3, <1>0
<1>8. row = t
  BY <1>5, <1>6, <1>7, SameTokens
<1> QED
  BY <1>1, <1>8

\* An accepted text reads as the label it is parsed to.
LEMMA AcceptedReads ==
  ASSUME NEW S, text \in Seq(S), parseLabelSelector(text).ok
  PROVE  parseLabelSelector(text) \in Labels
<1>1. PICK colons, p, X, Y, key, value :
         /\ colons = Positions(text, Colon) /\ p = Min(colons)
         /\ X = SubSeq(text, 1, p - 1) /\ Y = SubSeq(text, p + 1, Len(text))
         /\ key = TrimSpace(X) /\ value = TrimSpace(Y)
  OBVIOUS
<1>2. parseLabelSelector(text) = IF colons = {} \/ key = <<>> THEN ParseError
                                 ELSE [ok |-> TRUE, key |-> key, value |-> value]
  BY <1>1 DEF parseLabelSelector
<1>3. /\ colons # {} /\ key # <<>>
      /\ parseLabelSelector(text) = [ok |-> TRUE, key |-> key, value |-> value]
  BY <1>2 DEF ParseError
<1>4. p \in 1..Len(text) /\ text[p] = Colon /\ \A i \in 1..Len(text) : i < p => text[i] # Colon
  <2>1. colons \subseteq 1..Len(text) /\ Len(text) \in Nat
    BY <1>1 DEF Positions
  <2>2. p \in colons /\ \A i \in colons : p <= i
    BY <2>1, <1>1, <1>3, BoundsOf
  <2>3. \A i : i \in colons <=> i \in 1..Len(text) /\ text[i] = Colon
    BY <1>1 DEF Positions
  <2>4. ASSUME NEW i \in 1..Len(text), i < p PROVE text[i] # Colon
    BY <2>1, <2>2, <2>3, <2>4
  <2> QED
    BY <2>2, <2>3, <2>4
<1>5. Len(text) \in Nat /\ p \in Nat /\ p >= 1 /\ p <= Len(text)
  BY <1>4
<1>6. X \in Seq(S) /\ Len(X) = p - 1 /\ \A k \in 1..(p - 1) : X[k] = text[k]
  <2>1. p - 1 \in Nat /\ 1 \in Nat /\ 1 >= 1 /\ 1 <= (p - 1) + 1 /\ p - 1 <= Len(text)
    BY <1>5
  <2>2. /\ X \in Seq(S) /\ Len(X) = (p - 1) - 1 + 1
        /\ \A k \in 1..((p - 1) - 1 + 1) : X[k] = text[1 + k - 1]
    BY <1>1, <2>1, PartTokens
  <2> QED
    BY <2>2, <1>5
<1>7. Y \in Seq(S) /\ Len(Y) = Len(text) - p /\ \A k \in 1..(Len(text) - p) : Y[k] = text[p + k]
  <2>1. p + 1 \in Nat /\ p + 1 >= 1 /\ p + 1 <= Len(text) + 1 /\ Len(text) <= Len(text)
    BY <1>5
  <2>2. /\ Y \in Seq(S) /\ Len(Y) = Len(text) - (p + 1) + 1
        /\ \A k \in 1..(Len(text) - (p + 1) + 1) : Y[k] = text[(p + 1) + k - 1]
    BY <1>1, <1>5, <2>1, PartTokens
  <2> QED
    BY <2>2, <1>5
<1>8. text = X \o <<Colon>> \o Y
  BY <1>1, <1>4, SplitText
<1>9. /\ key \in Seq(S) /\ Trimmed(key) /\ value \in Seq(S) /\ Trimmed(value)
      /\ \E a, b \in 0..Len(X) : X = Padded(a, key, b)
      /\ \E c, d \in 0..Len(Y) : Y = Padded(c, value, d)
  <2>1. X \in Seq(S) /\ Y \in Seq(S) /\ key = TrimSpace(X) /\ value = TrimSpace(Y)
    BY <1>1, <1>6, <1>7
  <2>2. /\ TrimSpace(X) \in Seq(S) /\ Trimmed(TrimSpace(X))
        /\ \E a, b \in 0..Len(X) : X = Padded(a, TrimSpace(X), b)
    BY ONLY <2>1, TrimLeavesPart
  <2>3. /\ TrimSpace(Y) \in Seq(S) /\ Trimmed(TrimSpace(Y))
        /\ \E a, b \in 0..Len(Y) : Y = Padded(a, TrimSpace(Y), b)
    BY ONLY <2>1, TrimLeavesPart
  <2> QED
    BY <2>1, <2>2, <2>3
<1>10. PICK a, b \in 0..Len(X), c, d \in 0..Len(Y) :
          X = Padded(a, key, b) /\ Y = Padded(c, value, d)
  BY <1>9
<1>11. PaddedSo(X, a, key, b) /\ PaddedSo(Y, c, value, d)
  <2>1. a \in Nat /\ b \in Nat /\ c \in Nat /\ d \in Nat
    BY <1>5, <1>6, <1>7
  <2> QED
    BY <2>1, <1>9, <1>10, PaddedTokens
<1>12. key \in Parts /\ Positions(key, Colon) = {}
  <2>1. /\ a \in Nat /\ Len(key) \in Nat /\ a + Len(key) <= Len(X)
        /\ \A k \in 1..Len(key) : X[a + k] = key[k]
    <3>1. Len(key) \in Nat /\ Len(X) \in Nat /\ a \in Nat /\ b \in Nat
      BY <1>5, <1>6, <1>9
    <3>2. Len(X) = a + Len(key) + b /\ \A k \in 1..Len(key) : X[a + k] = key[k]
      BY <1>11 DEF PaddedSo
    <3> QED
      BY <3>1, <3>2
  <2>2. ASSUME NEW k \in 1..Len(key)
        PROVE  key[k] = text[a + k] /\ key[k] # Colon
    <3>1. a + k \in 1..(p - 1) /\ a + k < p /\ a + k \in 1..Len(text)
      BY <2>1, <1>5, <1>6
    <3> QED
      BY <3>1, <2>1, <1>4, <1>6
  <2>3. key \in Parts
    <3>1. StandsAt(key, a)
      BY <2>1, <2>2, <1>5, <1>6 DEF StandsAt
    <3> QED
      BY <3>1, <2>1, <1>5, <1>9, PartOfText
  <2> QED
    BY <2>2, <2>3 DEF Positions
<1>13. value \in Parts
  <2>1. /\ c \in Nat /\ Len(value) \in Nat /\ c + Len(value) <= Len(Y)
        /\ \A k \in 1..Len(value) : Y[c + k] = value[k]
    <3>1. Len(value) \in Nat /\ Len(Y) \in Nat /\ c \in Nat /\ d \in Nat
      BY <1>5, <1>7, <1>9
    <3>2. Len(Y) = c + Len(value) + d /\ \A k \in 1..Len(value) : Y[c + k] = value[k]
      BY <1>11 DEF PaddedSo
    <3> QED
      BY <3>1, <3>2
  <2>2. PICK n : n = p + c
    OBVIOUS
  <2>3. n \in Nat /\ n + Len(value) <= Len(text)
    BY <2>1, <2>2, <1>5, <1>7
  <2>4. ASSUME NEW k \in 1..Len(value) PROVE value[k] = text[n + k]
    <3>1. c + k \in 1..(Len(text) - p) /\ p + (c + k) = n + k
      BY <2>1, <2>2, <1>5, <1>7
    <3> QED
      BY <3>1, <2>1, <1>7
  <2>5. StandsAt(value, n)
    BY <2>3, <2>4 DEF StandsAt
  <2> QED
    BY <2>3, <2>5, <1>5, <1>9, PartOfText
<1>14. Reads(key, value)
  <2>1. a \in 0..Len(text) /\ b \in 0..Len(text) /\ c \in 0..Len(text) /\ d \in 0..Len(text)
    BY <1>5, <1>6, <1>7
  <2>2. text = Padded(a, key, b) \o <<Colon>> \o Padded(c, value, d)
    BY <1>8, <1>10
  <2> QED
    BY <2>1, <2>2, <1>3, <1>9, <1>12 DEF Reads
<1> QED
  BY <1>3, <1>12, <1>13, <1>14 DEF Labels

\* A text that can be read as a label is parsed to it.
LEMMA ReadIsParsed ==
  ASSUME NEW S, text \in Seq(S), NEW label \in Labels
  PROVE  parseLabelSelector(text) = label /\ label.ok
<1>1. PICK key, value : key = label.key /\ value = label.value
  OBVIOUS
<1>2. /\ label = [ok |-> TRUE, key |-> key, value |-> value]
      /\ key \in Parts /\ value \in Parts /\ Reads(key, value)
  BY <1>1 DEF Labels
<1>3. key \in Seq(S) /\ value \in Seq(S)
  BY <1>2, PartsAreTexts
<1>4. PICK a, b, c, d \in 0..Len(text) :
         text = Padded(a, key, b) \o <<Colon>> \o Padded(c, value, d)
  BY <1>2 DEF Reads
<1>5. PICK X, Y, R : /\ X = Padded(a, key, b) /\ Y = Padded(c, value, d)
                     /\ R = (S \cup {Space}) \cup {Colon}
  OBVIOUS
<1>6. a \in Nat /\ b \in Nat /\ c \in Nat /\ d \in Nat
  OBVIOUS
<1>7. X \in Seq(S \cup {Space}) /\ PaddedSo(X, a, key, b) /\ Y \in Seq(S \cup {Space})
  BY <1>3, <1>5, <1>6, PaddedTokens
<1>8. X \in Seq(R) /\ <<Colon>> \in Seq(R) /\ Y \in Seq(R)
  BY <1>5, <1>7
<1>9. text = (X \o <<Colon>>) \o Y
  BY <1>4, <1>5
<1>10. PICK mid : mid = <<Colon>>
  OBVIOUS
<1>11. /\ text \in Seq(R) /\ Len(text) = Len(X) + Len(mid) + Len(Y)
       /\ \A i \in 1..Len(X) : text[i] = X[i]
       /\ \A i \in 1..Len(mid) : text[Len(X) + i] = mid[i]
       /\ \A i \in 1..Len(Y) : text[Len(X) + Len(mid) + i] = Y[i]
  <2>1. X \in Seq(R) /\ mid \in Seq(R) /\ Y \in Seq(R) /\ text = (X \o mid) \o Y
    BY <1>8, <1>9, <1>10
  <2> QED
    BY ONLY <2>1, ThreeTokens
<1>12. PICK p : p = Len(X) + 1
  OBVIOUS
<1>13. /\ Len(mid) = 1 /\ mid[1] = Colon /\ Len(X) \in Nat /\ Len(Y) \in Nat
       /\ Len(text) \in Nat /\ p \in Nat /\ p \in 1..Len(text) /\ text[p] = Colon
       /\ Len(text) = p + Len(Y)
  BY <1>8, <1>10, <1>11, <1>12
<1>14. ASSUME NEW i \in 1..Len(X) PROVE X[i] # Colon
  <2>1. Space # Colon
    BY DEF Space, Colon
  <2>2. \A k \in 1..Len(key) : key[k] # Colon
    BY <1>2 DEF Reads, Positions
  <2>3. Len(key) \in Nat /\ Len(X) = a + Len(key) + b
    BY <1>3, <1>7 DEF PaddedSo
  <2>4. CASE i <= a
    BY <2>1, <2>4, <1>6, <1>7 DEF PaddedSo
  <2>5. CASE i > a /\ i <= a + Len(key)
    <3>1. i - a \in 1..Len(key) /\ a + (i - a) = i
      BY <2>3, <2>5, <1>6
    <3> QED
      BY <3>1, <2>2, <1>7 DEF PaddedSo
  <2>6. CASE i > a + Len(key)
    <3>1. i - a - Len(key) \in 1..b /\ a + Len(key) + (i - a - Len(key)) = i
      BY <2>3, <2>6, <1>6
    <3> QED
      BY <3>1, <2>1, <1>7 DEF PaddedSo
  <2> QED
    BY <2>3, <2>4, <2>5, <2>6, <1>6
<1>15. PICK colons : colons = Positions(text, Colon)
  OBVIOUS
<1>16. colons \subseteq Nat /\ p \in colons /\ \A i \in colons : p <= i
  <2>1. \A i : i \in colons <=> i \in 1..Len(text) /\ text[i] = Colon
    BY <1>15 DEF Positions
  <2>2. ASSUME NEW i \in colons PROVE i \in Nat /\ p <= i
    <3>1. i \in 1..Len(text) /\ text[i] = Colon
      BY <2>1
    <3>2. ~(i \in 1..Len(X))
      BY <3>1, <1>11, <1>14
    <3> QED
      BY <3>1, <3>2, <1>12, <1>13
  <2> QED
    BY <2>1, <2>2, <1>13
<1>17. Min(colons) = p
  BY <1>16, LeastOf
<1>18. SubSeq(text, 1, p - 1) = X
  <2>1. PICK u : u = SubSeq(text, 1, p - 1)
    OBVIOUS
  <2>2. /\ p - 1 \in Nat /\ 1 \in Nat /\ 1 >= 1 /\ 1 <= (p - 1) + 1 /\ p - 1 <= Len(text)
        /\ p - 1 = Len(X)
    BY <1>12, <1>13
  <2>3. /\ u \in Seq(R) /\ Len(u) = (p - 1) - 1 + 1
        /\ \A k \in 1..((p - 1) - 1 + 1) : u[k] = text[1 + k - 1]
    BY <2>1, <2>2, <1>11, PartTokens
  <2>4. Len(u) = Len(X) /\ \A k \in 1..Len(X) : u[k] = text[k]
    BY <2>2, <2>3, <1>13
  <2>5. \A k \in 1..Len(u) : u[k] = X[k]
    BY <2>4, <1>11
  <2> QED
    BY <2>1, <2>3, <2>4, <2>5, <1>8, SameTokens
<1>19. SubSeq(text, p + 1, Len(text)) = Y
  <2>1. PICK u : u = SubSeq(text, p + 1, Len(text))
    OBVIOUS
  <2>2. /\ p + 1 \in Nat /\ p + 1 >= 1 /\ p + 1 <= Len(text) + 1 /\ Len(text) <= Len(text)
        /\ Len(text) - (p + 1) + 1 = Len(Y)
    BY <1>13
  <2>3. /\ u \in Seq(R) /\ Len(u) = Len(text) - (p + 1) + 1
        /\ \A k \in 1..(Len(text) - (p + 1) + 1) : u[k] = text[(p + 1) + k - 1]
    BY <2>1, <2>2, <1>11, <1>13, PartTokens
  <2>4. ASSUME NEW k \in 1..Len(Y) PROVE u[k] = Y[k]
    <3>1. (p + 1) + k - 1 = Len(X) + Len(mid) + k
      BY <1>12, <1>13
    <3> QED
      BY <3>1, <2>2, <2>3, <1>11
  <2> QED
    BY <2>1, <2>2, <2>3, <2>4, <1>8, SameTokens
<1>20. TrimSpace(X) = key /\ TrimSpace(Y) = value
  BY <1>2, <1>3, <1>5, <1>6, TrimsPadding DEF Reads
<1>21. parseLabelSelector(text)
         = IF colons = {} \/ key = <<>> THEN ParseError
           ELSE [ok |-> TRUE, key |-> key, value |-> value]
  BY <1>15, <1>17, <1>18, <1>19, <1>20 DEF parseLabelSelector
<1>22. colons # {} /\ key # <<>>
  BY <1>2, <1>16 DEF Reads
<1> QED
  BY <1>2, <1>21, <1>22

\* parseLabelSelector, on texts of any length over any words.
THEOREM SelectorsMeanKeyValue == TextSpec => []ParsesAsKeyValue
<1> DEFINE TextOK == text \in Seq(Tokens)
<1>1. TextInit => TextOK
  BY DEF TextInit
<1>2. TextOK /\ [TypeToken]_text => TextOK'
  BY DEF TypeToken
<1>3. ASSUME TextOK PROVE ParsesAsKeyValue
  <2>1. PICK label : label = parseLabelSelector(text)
    OBVIOUS
  <2>2. \A l \in Labels : l = label /\ label.ok
    BY <2>1, <1>3, ReadIsParsed
  <2>3. label.ok => label \in Labels
    BY <2>1, <1>3, AcceptedReads
  <2>4. Labels = IF label.ok THEN {label} ELSE {}
    BY <2>2, <2>3
  <2> QED
    BY <2>1, <2>4 DEF ParsesAsKeyValue
<1> QED
  BY <1>1, <1>2, <1>3, PTL DEF TextSpec

=============================================================================
