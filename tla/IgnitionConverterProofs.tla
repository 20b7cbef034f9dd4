----------------------- MODULE IgnitionConverterProofs -----------------------
(***************************************************************************)
(* The converter, for every list of converters and every order in which    *)
(* its map of source versions is ranged over, under the calls of Convert   *)
(* and of ParseAndConvertConfig.                                           *)
(***************************************************************************)
EXTENDS IgnitionConfig, FiniteSetTheorems, TLAPS

Given == ToSet(converters)

\* Each converter takes what the one before it gives.
Linked(path) == \A i \in 1..(Len(path) - 1) : path[i].target = path[i + 1].source

\* All of them go where the path as a whole goes.
OneWay(path) == \A i \in 1..Len(path) : IsUp(path[i]) = IsUp(PathTuple(path))

\* A call of the registration continues a path that ends at its version.
Frames == [version : ToVersions, next : Nat, path : Seq(Given)]

Continuing(frame) ==
  frame.path # <<>> => /\ Linked(frame.path) /\ OneWay(frame.path)
                       /\ PathTuple(frame.path).target = frame.version

StackInv == stack \in Seq(Frames) /\ \A i \in 1..Len(stack) : Continuing(stack[i])

\* The chain registered for a tuple.
ChainOf(tuple, chain) ==
  /\ chain \in Seq(Given) /\ chain # <<>>
  /\ PathTuple(chain) = tuple
  /\ Linked(chain) /\ OneWay(chain)

ChainsInv == \A tuple \in DOMAIN converterPaths : ChainOf(tuple, converterPaths[tuple])

\* What is left of the chain starts at the type the config has by now, and leads
\* to the version asked for.
CallInv ==
  /\ call \in [chain : Seq(Given), type : Version, target : Version]
  /\ Linked(call.chain)
  /\ IF call.chain = <<>> THEN call.type = call.target
     ELSE PathTuple(call.chain) = Tuple(call.type, call.target)

ConverterInv ==
  /\ converters \in Seq(Converter)
  /\ todo \subseteq ToVersions
  /\ StackInv /\ ChainsInv /\ CallInv
  /\ ConvertNeverMistyped

ConfigInv ==
  /\ ConverterInv
  /\ stage = "converting" => call.target = v35
  /\ NeverPanics

-----------------------------------------------------------------------------
(* Induction and recursion over the natural numbers.                      *)

\* Induction, on the set of numbers that have the property.
LEMMA SetInduction ==
  ASSUME NEW B, 0 \in B, \A n \in Nat : n \in B => n + 1 \in B
  PROVE  Nat \subseteq B
<1> DEFINE Less == {pair \in Nat \X Nat : pair[1] < pair[2]}
           Bad  == Nat \ B
<1>1. IsWellFoundedOn(Less, Nat)
  BY NatLessThanWellFounded, Zenon DEF OpToRel
<1> SUFFICES ASSUME Bad # {} PROVE FALSE
  OBVIOUS
<1>2. PICK x \in Bad : \A y \in Bad : ~(<<y, x>> \in Less)
  BY <1>1, WFMin
<1>3. x \in Nat /\ x # 0 /\ x - 1 \in Nat /\ (x - 1) + 1 = x
  OBVIOUS
<1>4. x - 1 \in Bad
  BY <1>3
<1>5. <<x - 1, x>> \in Nat \X Nat /\ <<x - 1, x>>[1] = x - 1 /\ <<x - 1, x>>[2] = x
  BY <1>3
<1>6. <<x - 1, x>> \in Less
  BY <1>3, <1>5
<1> QED
  BY <1>2, <1>4, <1>6

\* The first n values of a recursion.
Begun(S, s0, F, n) ==
  {g \in [0..n -> S] : g[0] = s0 /\ \A i \in 0..(n - 1) : g[i + 1] = F[<<i, g[i]>>]}

LEMMA BegunAgree ==
  ASSUME NEW S, NEW s0 \in S, NEW F \in [Nat \X S -> S],
         NEW m \in Nat, NEW n \in Nat, NEW g \in Begun(S, s0, F, m), NEW h \in Begun(S, s0, F, n)
  PROVE  \A i \in 0..m : i <= n => g[i] = h[i]
<1> DEFINE B == {i \in Nat : i <= m /\ i <= n => g[i] = h[i]}
<1>1. 0 \in B
  BY DEF Begun
<1>2. ASSUME NEW i \in Nat, i \in B PROVE i + 1 \in B
  <2> SUFFICES ASSUME i + 1 <= m, i + 1 <= n PROVE g[i + 1] = h[i + 1]
    OBVIOUS
  <2>1. i \in 0..(m - 1) /\ i \in 0..(n - 1) /\ g[i] = h[i]
    BY <1>2
  <2> QED
    BY <2>1 DEF Begun
<1> HIDE DEF B
<1>3. Nat \subseteq B
  BY <1>1, <1>2, SetInduction
<1> QED
  BY <1>3 DEF B

Recurs(f, S, s0, F) ==
  f \in [Nat -> S] /\ f[0] = s0 /\ \A n \in Nat : f[n + 1] = F[<<n, f[n]>>]

\* A recursion over the natural numbers defines a function.
LEMMA Recursion ==
  ASSUME NEW S, NEW s0 \in S, NEW F \in [Nat \X S -> S]
  PROVE  \E f : Recurs(f, S, s0, F)
<1> DEFINE G(n) == Begun(S, s0, F, n)
           B    == {n \in Nat : G(n) # {}}
<1>1. 0 \in B
  <2>1. PICK g : g = [i \in 0..0 |-> s0]
    OBVIOUS
  <2>2. g \in G(0)
    BY <2>1 DEF Begun
  <2> QED
    BY <2>2
<1>2. ASSUME NEW n \in Nat, n \in B PROVE n + 1 \in B
  <2>1. PICK g : g \in G(n)
    BY <1>2
  <2>2. /\ g \in [0..n -> S] /\ g[0] = s0
        /\ \A i \in 0..(n - 1) : g[i + 1] = F[<<i, g[i]>>]
    BY <2>1 DEF Begun
  <2>3. F[<<n, g[n]>>] \in S
    BY <2>2
  <2>4. PICK h : h = [i \in 0..(n + 1) |-> IF i <= n THEN g[i] ELSE F[<<n, g[n]>>]]
    OBVIOUS
  <2>5. h \in [0..(n + 1) -> S] /\ h[0] = s0
    BY <2>2, <2>3, <2>4
  <2>6. ASSUME NEW i \in 0..((n + 1) - 1) PROVE h[i + 1] = F[<<i, h[i]>>]
    <3>1. CASE i = n
      <4>1. n \in 0..(n + 1) /\ n + 1 \in 0..(n + 1) /\ ~(n + 1 <= n)
        OBVIOUS
      <4>2. h[n] = g[n] /\ h[n + 1] = F[<<n, g[n]>>]
        BY <4>1, <2>4
      <4> QED
        BY <3>1, <4>2
    <3>2. CASE i # n
      <4>1. i \in 0..(n - 1) /\ i + 1 <= n /\ i + 1 \in 0..(n + 1) /\ i \in 0..(n + 1)
        BY <3>2
      <4> QED
        BY <4>1, <2>2, <2>4
    <3> QED
      BY <3>1, <3>2
  <2>7. h \in G(n + 1)
    BY <2>5, <2>6 DEF Begun
  <2> QED
    BY <2>7
<1>3. Nat \subseteq B
  <2> HIDE DEF B
  <2> QED
    BY <1>1, <1>2, SetInduction
<1>4. \A n \in Nat : G(n) # {}
  BY <1>3
<1> DEFINE pick(n) == CHOOSE g : g \in G(n)
<1>5. \A n \in Nat : pick(n) \in G(n)
  BY <1>4
<1> HIDE DEF pick
<1>6. PICK f : f = [n \in Nat |-> pick(n)[n]]
  OBVIOUS
<1>7. f \in [Nat -> S]
  <2>1. ASSUME NEW n \in Nat PROVE pick(n)[n] \in S
    <3>1. pick(n) \in [0..n -> S] /\ n \in 0..n
      BY <1>5 DEF Begun
    <3> QED
      BY <3>1
  <2> QED
    BY <2>1, <1>6
<1>8. f[0] = s0
  BY <1>5, <1>6 DEF Begun
<1>9. ASSUME NEW n \in Nat PROVE f[n + 1] = F[<<n, f[n]>>]
  <2>1. pick(n) \in G(n) /\ pick(n + 1) \in G(n + 1) /\ n + 1 \in Nat
    BY <1>5
  <2>2. pick(n + 1)[n + 1] = F[<<n, pick(n + 1)[n]>>]
    BY <2>1 DEF Begun
  <2>3. pick(n + 1)[n] = pick(n)[n]
    <3>1. \A i \in 0..n : i <= n + 1 => pick(n)[i] = pick(n + 1)[i]
      BY <2>1, BegunAgree
    <3> QED
      BY <3>1
  <2>4. f[n] = pick(n)[n] /\ f[n + 1] = pick(n + 1)[n + 1]
    BY <1>6
  <2> QED
    BY <2>2, <2>3, <2>4
<1> QED
  BY <1>7, <1>8, <1>9 DEF Recurs

-----------------------------------------------------------------------------
(* Versions, paths and the positions of converters.                        *)

LEMMA GivenConverters ==
  ASSUME converters \in Seq(Converter)
  PROVE  Given \subseteq Converter /\ ToVersions \subseteq Version
<1>1. Given \subseteq Converter
  BY DEF Given, ToSet
<1>2. \A conv \in Given : conv.source \in Version /\ conv.target \in Version
  BY <1>1 DEF Converter
<1> QED
  BY <1>1, <1>2 DEF Given, ToVersions

\* Two conversions of one direction make up one of that direction.
LEMMA SameDirection ==
  ASSUME NEW a \in Version, NEW b \in Version, NEW c \in Version,
         IsUp(Tuple(a, b)) = IsUp(Tuple(b, c))
  PROVE  IsUp(Tuple(a, c)) = IsUp(Tuple(a, b))
BY DEF Version, IsUp, Tuple, Precedes

LEMMA LeastPosition ==
  ASSUME NEW S, S \subseteq Nat, S # {}
  PROVE  Min(S) \in S /\ \A i \in S : Min(S) <= i
<1> DEFINE Less == {pair \in Nat \X Nat : pair[1] < pair[2]}
<1>1. IsWellFoundedOn(Less, Nat)
  BY NatLessThanWellFounded, Zenon DEF OpToRel
<1>2. PICK x \in S : \A y \in S : ~(<<y, x>> \in Less)
  BY <1>1, WFMin
<1>3. ASSUME NEW y \in S PROVE x <= y
  <2>1. x \in Nat /\ y \in Nat
    OBVIOUS
  <2>2. <<y, x>> \in Nat \X Nat /\ <<y, x>>[1] = y /\ <<y, x>>[2] = x
    BY <2>1
  <2>3. ~(y < x)
    BY <1>2, <2>2
  <2> QED
    BY <2>1, <2>3
<1> QED
  BY <1>3 DEF Min

\* The converter the loop is at is one of the list, from the version of the call.
LEMMA ConvOfTop ==
  ASSUME converters \in Seq(Converter), Rest # {}
  PROVE  /\ Conv \in Given /\ Conv \in Converter /\ Conv.source = Top.version
         /\ Min(Rest) \in Nat
<1>1. Rest \subseteq 1..Len(converters) /\ Rest \subseteq Nat
  BY DEF Rest, ConvertersFrom
<1>2. Min(Rest) \in Rest
  BY <1>1, LeastPosition
<1>3. \A i \in Rest : /\ converters[i] \in Given /\ converters[i] \in Converter
                      /\ converters[i].source = Top.version
  BY DEF Rest, ConvertersFrom, Given, ToSet
<1> QED
  BY <1>1, <1>2, <1>3 DEF Conv

\* A path that a converter continues is a path again.
LEMMA PathContinued ==
  ASSUME NEW S, S \subseteq Converter, NEW path \in Seq(S), NEW conv \in S,
         path # <<>> => /\ Linked(path) /\ OneWay(path)
                        /\ PathTuple(path).target = conv.source,
         Continues(path, conv),
         NEW chain, chain = newConverterConversionPathFromExisting(path, conv)
  PROVE  /\ chain \in Seq(S) /\ chain # <<>>
         /\ PathTuple(chain) = NewTuple(path, conv)
         /\ PathTuple(chain).target = conv.target
         /\ Linked(chain) /\ OneWay(chain)
<1>1. chain = Append(path, conv)
  BY DEF newConverterConversionPathFromExisting
<1>2. /\ chain \in Seq(S) /\ chain # <<>> /\ Len(chain) = Len(path) + 1
      /\ chain[Len(chain)] = conv
      /\ \A i \in 1..Len(path) : chain[i] = path[i]
  BY ONLY <1>1, path \in Seq(S), conv \in S
<1>3. PathTuple(chain) = NewTuple(path, conv) /\ PathTuple(chain).target = conv.target
  BY <1>2 DEF PathTuple, NewTuple, Tuple
<1>4. conv.source \in Version /\ conv.target \in Version
  BY DEF Converter
<1>5. IsUp(conv) = IsUp(Tuple(conv.source, conv.target))
  BY DEF IsUp, Tuple
<1>6. CASE path = <<>>
  <2>1. Len(chain) = 1 /\ chain[1] = conv
    BY <1>2, <1>6
  <2>2. PathTuple(chain) = Tuple(conv.source, conv.target)
    BY <2>1 DEF PathTuple
  <2>3. Linked(chain) /\ OneWay(chain)
    BY <2>1, <2>2, <1>5 DEF Linked, OneWay
  <2> QED
    BY <1>2, <1>3, <2>3
<1>7. CASE path # <<>>
  <2>1. path[1] \in Converter /\ Len(path) \in Nat /\ Len(path) >= 1
    BY <1>7
  <2>2. path[1].source \in Version
    BY <2>1 DEF Converter
  <2>3. PathTuple(path) = Tuple(path[1].source, conv.source)
    BY <1>7 DEF PathTuple, Tuple
  <2>4. IsUp(PathTuple(path)) = IsUp(Tuple(conv.source, conv.target))
    BY <1>7 DEF Continues
  <2>5. PathTuple(chain) = Tuple(path[1].source, conv.target)
    BY <1>3, <1>7 DEF NewTuple
  <2>6. IsUp(PathTuple(chain)) = IsUp(PathTuple(path))
    BY <2>2, <2>3, <2>4, <2>5, <1>4, SameDirection
  <2>7. path[Len(path)].target = conv.source
    BY <1>7 DEF PathTuple, Tuple
  <2>8. Linked(chain)
    BY <1>2, <1>7, <2>1, <2>7 DEF Linked
  <2>9. ASSUME NEW i \in 1..Len(chain)
        PROVE  IsUp(chain[i]) = IsUp(PathTuple(chain))
    <3>1. CASE i = Len(chain)
      BY <3>1, <1>2, <1>5, <2>4, <2>6
    <3>2. CASE i # Len(chain)
      <4>1. i \in 1..Len(path) /\ chain[i] = path[i]
        BY <3>2, <1>2, <2>1
      <4>2. IsUp(path[i]) = IsUp(PathTuple(path))
        BY <4>1, <1>7 DEF OneWay
      <4> QED
        BY <4>1, <4>2, <2>6
    <3> QED
      BY <3>1, <3>2
  <2> QED
    BY <1>2, <1>3, <2>8, <2>9 DEF OneWay
<1> QED
  BY <1>6, <1>7

-----------------------------------------------------------------------------
(* The registration.                                                       *)

LEMMA InitInv == Init => ConverterInv
<1> SUFFICES ASSUME Init PROVE ConverterInv
  OBVIOUS
<1>1. converters \in Seq(Converter)
  BY ConvertersAssumption DEF Init, ConvertersAssumption
<1>2. todo \subseteq ToVersions
  BY DEF Init, ToVersions
<1>3. StackInv
  BY DEF Init, StackInv
<1>4. ChainsInv
  BY DEF Init, ChainsInv
<1>5. CallInv
  BY DEF Init, CallInv, NoCall, Version, Linked
<1> QED
  BY <1>1, <1>2, <1>3, <1>4, <1>5 DEF Init, ConverterInv, ConvertNeverMistyped

\* What depends on the list of converters stays with it.
LEMMA SameConverters ==
  ASSUME converters' = converters
  PROVE  Given' = Given /\ ToVersions' = ToVersions /\ Frames' = Frames
BY DEF Given, ToVersions, Frames

LEMMA SameChains ==
  ASSUME ChainsInv, UNCHANGED <<converters, converterPaths>>
  PROVE  ChainsInv'
BY SameConverters DEF ChainsInv, ChainOf

LEMMA SameCall ==
  ASSUME CallInv, UNCHANGED <<converters, call>>
  PROVE  CallInv'
BY SameConverters DEF CallInv

LEMMA SameStack ==
  ASSUME StackInv, UNCHANGED <<converters, stack>>
  PROVE  StackInv'
BY SameConverters DEF StackInv

\* The loop of the call on top goes on to the next converter.
LEMMA LoopAdvances ==
  ASSUME StackInv, Building, Min(Rest) \in Nat
  PROVE  /\ Advanced \in Seq(Frames) /\ Len(Advanced) = Len(stack)
         /\ \A i \in 1..Len(stack) : Continuing(Advanced[i])
<1>1. stack \in Seq(Frames) /\ Len(stack) \in Nat /\ Len(stack) \in 1..Len(stack)
  BY DEF StackInv, Building
<1> DEFINE top == [stack[Len(stack)] EXCEPT !.next = Min(Rest) + 1]
<1>2. Advanced = [stack EXCEPT ![Len(stack)] = top]
  BY DEF Advanced
<1>3. /\ top \in Frames
      /\ top.path = stack[Len(stack)].path /\ top.version = stack[Len(stack)].version
  <2>1. stack[Len(stack)] \in Frames
    BY <1>1
  <2>2. ASSUME NEW frame \in Frames, NEW n \in Nat,
               NEW moved, moved = [frame EXCEPT !.next = n]
        PROVE  moved \in Frames /\ moved.path = frame.path /\ moved.version = frame.version
    BY <2>2 DEF Frames
  <2>3. Min(Rest) + 1 \in Nat
    OBVIOUS
  <2> QED
    BY <2>1, <2>2, <2>3, Zenon
<1> HIDE DEF top
<1>4. Advanced \in Seq(Frames) /\ Len(Advanced) = Len(stack)
  BY <1>1, <1>2, <1>3
<1>5. ASSUME NEW i \in 1..Len(stack) PROVE Continuing(Advanced[i])
  <2>1. Continuing(stack[i])
    BY DEF StackInv
  <2>2. Advanced[i].path = stack[i].path /\ Advanced[i].version = stack[i].version
    BY <1>1, <1>2, <1>3
  <2> QED
    BY <2>1, <2>2 DEF Continuing
<1> QED
  BY <1>4, <1>5

LEMMA VisitInv ==
  ASSUME ConverterInv, NEW version \in todo, VisitVersion(version)
  PROVE  ConverterInv'
<1>1. /\ UNCHANGED <<converters, converterPaths, call, outcome>>
      /\ todo' \subseteq todo /\ stack' = <<Frame(version, <<>>)>>
  BY DEF VisitVersion
<1>2. Frame(version, <<>>) \in Frames /\ Continuing(Frame(version, <<>>))
  BY DEF ConverterInv, Frame, Frames, Continuing
<1>3. StackInv'
  <2>1. stack' \in Seq(Frames) /\ \A i \in 1..Len(stack') : Continuing(stack'[i])
    BY <1>1, <1>2
  <2> QED
    BY <1>1, <2>1, SameConverters DEF StackInv
<1>4. ChainsInv' /\ CallInv'
  BY <1>1, SameChains, SameCall DEF ConverterInv
<1> QED
  BY <1>1, <1>3, <1>4, SameConverters DEF ConverterInv, ConvertNeverMistyped

\* The copy is as long as the path, so no registered chain is written to when a
\* path is continued.
LEMMA RegistersOneChain ==
  ASSUME ConverterInv, RegisterChain, NEW chain, NEW tuple,
         chain = newConverterConversionPathFromExisting(Top.path, Conv),
         tuple = NewTuple(Top.path, Conv)
  PROVE  converterPaths' = [t \in DOMAIN converterPaths \cup {tuple} |->
                              IF t = tuple THEN chain ELSE converterPaths[t]]
<1>1. Top.path \in Seq(Given)
  <2>1. stack \in Seq(Frames) /\ stack # <<>>
    BY DEF RegisterChain, ConverterInv, StackInv, Building
  <2>2. Top \in Frames
    BY <2>1 DEF Top
  <2> QED
    BY <2>2 DEF Frames
<1>2. ASSUME NEW t \in DOMAIN converterPaths
      PROVE  Written(converterPaths[t], Top.path, Conv) = converterPaths[t]
  <2>1. converterPaths[t] \in Seq(Given)
    BY DEF ConverterInv, ChainsInv, ChainOf
  <2>2. Len(converterPaths[t]) \in Nat /\ Len(Top.path) \in Nat
    BY <1>1, <2>1
  <2>3. ~SharesArray(converterPaths[t], Top.path)
    BY <2>2 DEF SharesArray, Capacity
  <2> QED
    BY <2>3 DEF Written
<1>3. converterPaths' = [t \in DOMAIN converterPaths \cup {tuple} |->
                           IF t = tuple THEN chain
                           ELSE Written(converterPaths[t], Top.path, Conv)]
  BY DEF RegisterChain, Registering
<1> QED
  BY <1>2, <1>3

LEMMA RegisterInv ==
  ASSUME ConverterInv, RegisterChain
  PROVE  ConverterInv'
<1> DEFINE chain == newConverterConversionPathFromExisting(Top.path, Conv)
           tuple == NewTuple(Top.path, Conv)
           frame == Frame(Conv.target, chain)
<1>1. /\ UNCHANGED <<converters, todo, call, outcome>> /\ Building /\ Rest # {}
      /\ Continues(Top.path, Conv)
      /\ converterPaths' = [t \in DOMAIN converterPaths \cup {tuple} |->
                              IF t = tuple THEN chain ELSE converterPaths[t]]
      /\ stack' = Append(Advanced, frame)
  BY RegistersOneChain DEF RegisterChain
<1>2. /\ Conv \in Given /\ Conv \in Converter /\ Conv.source = Top.version
      /\ Min(Rest) \in Nat
  BY <1>1, ConvOfTop DEF ConverterInv
<1>3. Top \in Frames /\ Continuing(Top)
  BY <1>1 DEF ConverterInv, StackInv, Building, Top
<1>4. Given \subseteq Converter
  BY GivenConverters DEF ConverterInv
<1>5. /\ chain \in Seq(Given) /\ chain # <<>>
      /\ PathTuple(chain) = tuple /\ PathTuple(chain).target = Conv.target
      /\ Linked(chain) /\ OneWay(chain)
  <2>1. Top.path \in Seq(Given)
    BY <1>3 DEF Frames
  <2>2. Top.path # <<>> => /\ Linked(Top.path) /\ OneWay(Top.path)
                           /\ PathTuple(Top.path).target = Conv.source
    BY <1>2, <1>3 DEF Continuing
  <2> QED
    BY <1>1, <1>2, <1>4, <2>1, <2>2, PathContinued
<1>6. Conv.target \in ToVersions
  BY <1>2 DEF ToVersions, Given
<1> HIDE DEF chain, tuple
<1>7. frame \in Frames /\ Continuing(frame)
  BY <1>5, <1>6 DEF Frame, Frames, Continuing
<1> HIDE DEF frame
<1>8. StackInv'
  <2>1. /\ Advanced \in Seq(Frames) /\ Len(Advanced) = Len(stack)
        /\ \A i \in 1..Len(stack) : Continuing(Advanced[i])
    BY <1>1, <1>2, LoopAdvances DEF ConverterInv
  <2>2. stack' \in Seq(Frames) /\ \A i \in 1..Len(stack') : Continuing(stack'[i])
    BY ONLY <1>1, <1>7, <2>1
  <2> QED
    BY <1>1, <2>2, SameConverters DEF StackInv
<1>9. ChainsInv'
  <2>1. ChainOf(tuple, chain)
    BY <1>5 DEF ChainOf
  <2>2. \A t \in DOMAIN converterPaths' : ChainOf(t, converterPaths'[t])
    BY <1>1, <2>1 DEF ConverterInv, ChainsInv
  <2> QED
    BY <1>1, <2>2, SameConverters DEF ChainsInv, ChainOf
<1>10. CallInv'
  BY <1>1, SameCall DEF ConverterInv
<1> QED
  BY <1>1, <1>8, <1>9, <1>10, SameConverters DEF ConverterInv, ConvertNeverMistyped

LEMMA SkipInv ==
  ASSUME ConverterInv, SkipConverter
  PROVE  ConverterInv'
<1>1. /\ UNCHANGED <<converters, todo, converterPaths, call, outcome>>
      /\ Building /\ Rest # {} /\ stack' = Advanced
  BY DEF SkipConverter
<1>2. StackInv'
  <2>1. Min(Rest) \in Nat
    BY <1>1, ConvOfTop DEF ConverterInv
  <2> QED
    BY <1>1, <2>1, LoopAdvances, SameConverters DEF ConverterInv, StackInv
<1>3. ChainsInv' /\ CallInv'
  BY <1>1, SameChains, SameCall DEF ConverterInv
<1> QED
  BY <1>1, <1>2, <1>3, SameConverters DEF ConverterInv, ConvertNeverMistyped

LEMMA FrontShorter ==
  ASSUME NEW S, NEW s \in Seq(S), s # <<>>
  PROVE  /\ Front(s) \in Seq(S) /\ Len(Front(s)) = Len(s) - 1
         /\ \A i \in 1..Len(Front(s)) : Front(s)[i] = s[i]
<1>1. ASSUME NEW n \in Nat, n <= Len(s)
      PROVE  /\ SubSeq(s, 1, n) \in Seq(S) /\ Len(SubSeq(s, 1, n)) = n
             /\ \A i \in 1..n : SubSeq(s, 1, n)[i] = s[i]
  BY <1>1
<1>2. Len(s) - 1 \in Nat /\ Len(s) - 1 <= Len(s)
  OBVIOUS
<1> QED
  BY <1>1, <1>2 DEF Front

LEMMA ReturnInv ==
  ASSUME ConverterInv, ReturnFromCall
  PROVE  ConverterInv'
<1>1. /\ UNCHANGED <<converters, todo, converterPaths, call, outcome>>
      /\ Building /\ stack' = Front(stack)
  BY DEF ReturnFromCall
<1>2. StackInv'
  <2>1. stack \in Seq(Frames) /\ stack # <<>>
    BY <1>1 DEF ConverterInv, StackInv, Building
  <2>2. /\ stack' \in Seq(Frames) /\ Len(stack') = Len(stack) - 1
        /\ \A i \in 1..Len(stack') : stack'[i] = stack[i]
    BY <1>1, <2>1, FrontShorter
  <2> QED
    BY <1>1, <2>1, <2>2, SameConverters DEF ConverterInv, StackInv
<1>3. ChainsInv' /\ CallInv'
  BY <1>1, SameChains, SameCall DEF ConverterInv
<1> QED
  BY <1>1, <1>2, <1>3, SameConverters DEF ConverterInv, ConvertNeverMistyped

-----------------------------------------------------------------------------
(* Convert.                                                                *)

\* Steps that leave the registered chains and the stack alone.
LEMMA OutsideRegistration ==
  ASSUME ConverterInv, UNCHANGED <<converters, todo, stack, converterPaths>>,
         CallInv', ConvertNeverMistyped'
  PROVE  ConverterInv'
<1>1. StackInv' /\ ChainsInv'
  BY SameStack, SameChains DEF ConverterInv
<1> QED
  BY <1>1, SameConverters DEF ConverterInv

\* No call comes or goes.
LEMMA NoCallInv ==
  ASSUME ConverterInv, UNCHANGED <<converters, todo, stack, converterPaths, call>>,
         outcome' \in {outcome, "none", "converted", "unsupported"}
  PROVE  ConverterInv'
<1>1. CallInv' /\ ConvertNeverMistyped'
  BY SameCall DEF ConverterInv, ConvertNeverMistyped
<1> QED
  BY <1>1, OutsideRegistration

\* A call starts with the chain of the pair it was made for.
LEMMA StartsInv ==
  ASSUME ConverterInv, NEW source, NEW target, ConvertStarts(source, target)
  PROVE  ConverterInv' /\ call'.target = target
<1> DEFINE chain == converterPaths[Tuple(source, target)]
<1>1. /\ UNCHANGED <<converters, todo, stack, converterPaths>> /\ outcome' = "none"
      /\ Tuple(source, target) \in DOMAIN converterPaths
      /\ call' = [chain |-> chain, type |-> source, target |-> target]
  BY DEF ConvertStarts
<1>2. ChainOf(Tuple(source, target), chain)
  BY <1>1 DEF ConverterInv, ChainsInv
<1> HIDE DEF chain
<1>3. /\ chain \in Seq(Given) /\ chain # <<>> /\ Linked(chain)
      /\ PathTuple(chain) = Tuple(source, target)
  BY <1>2 DEF ChainOf
<1>4. source \in Version /\ target \in Version
  <2>1. chain[1] \in Converter /\ chain[Len(chain)] \in Converter
    BY <1>3, GivenConverters DEF ConverterInv
  <2>2. source = chain[1].source /\ target = chain[Len(chain)].target
    BY <1>3 DEF PathTuple, Tuple
  <2> QED
    BY <2>1, <2>2 DEF Converter
<1>5. CallInv'
  BY <1>1, <1>3, <1>4, SameConverters DEF CallInv
<1>6. ConvertNeverMistyped'
  BY <1>1 DEF ConvertNeverMistyped
<1> QED
  BY <1>1, <1>5, <1>6, OutsideRegistration

\* A step of a call leaves a shorter chain to the same target.
LEMMA StepInv ==
  ASSUME ConverterInv, ConvertStep
  PROVE  ConverterInv' /\ call'.target = call.target
<1> DEFINE chain == call.chain
           left  == Tail(chain)
<1>1. /\ UNCHANGED <<converters, todo, stack, converterPaths, outcome>>
      /\ chain # <<>>
      /\ call' = [call EXCEPT !.chain = left, !.type = Head(chain).target]
  BY DEF ConvertStep
<1>2. /\ call \in [chain : Seq(Given), type : Version, target : Version]
      /\ Linked(chain) /\ PathTuple(chain) = Tuple(call.type, call.target)
  BY <1>1 DEF ConverterInv, CallInv
<1>3. chain \in Seq(Given)
  BY <1>2
<1>4. call'.chain = left /\ call'.type = Head(chain).target /\ call'.target = call.target
  BY <1>1, <1>2
<1>5. Head(chain).target \in Version
  <2>1. Head(chain) \in Converter
    BY <1>1, <1>3, GivenConverters DEF ConverterInv
  <2> QED
    BY <2>1 DEF Converter
<1> HIDE DEF chain
<1>6. /\ left \in Seq(Given) /\ Len(left) = Len(chain) - 1 /\ Head(chain) = chain[1]
      /\ \A i \in 1..Len(left) : left[i] = chain[i + 1]
  BY <1>1, <1>3
<1>7. chain[Len(chain)].target = call.target
  BY <1>2 DEF PathTuple, Tuple
<1> HIDE DEF left
<1>8. Linked(left)
  BY <1>2, <1>3, <1>6 DEF Linked
<1>9. IF left = <<>> THEN Head(chain).target = call.target
      ELSE PathTuple(left) = Tuple(Head(chain).target, call.target)
  <2>1. CASE left = <<>>
    <3>1. Len(chain) = 1
      BY <2>1, <1>3, <1>6
    <3> QED
      BY <2>1, <3>1, <1>6, <1>7
  <2>2. CASE left # <<>>
    <3>1. Len(left) \in Nat /\ Len(left) >= 1
      BY <2>2, <1>6
    <3>2. left[Len(left)] = chain[Len(chain)] /\ left[1] = chain[2]
      BY <3>1, <1>3, <1>6
    <3>3. chain[2].source = chain[1].target
      BY <3>1, <1>2, <1>3, <1>6 DEF Linked
    <3> QED
      BY <2>2, <3>2, <3>3, <1>6, <1>7 DEF PathTuple
  <2> QED
    BY <2>1, <2>2
<1>10. CallInv'
  <2>1. call' \in [chain : Seq(Given), type : Version, target : Version]
    BY <1>1, <1>2, <1>5, <1>6
  <2> QED
    BY <1>1, <1>4, <1>8, <1>9, <2>1, SameConverters DEF CallInv
<1>11. ConvertNeverMistyped'
  BY <1>1 DEF ConverterInv, ConvertNeverMistyped
<1> QED
  BY <1>1, <1>4, <1>10, <1>11, OutsideRegistration

LEMMA NoCallOK ==
  ASSUME call' = NoCall
  PROVE  CallInv'
BY DEF CallInv, NoCall, Version, Linked

\* A call that fails was refused by a translation.
LEMMA FailsInv ==
  ASSUME ConverterInv, NEW error, ConvertFails(error)
  PROVE  ConverterInv' /\ error = "untranslatable"
<1>1. /\ UNCHANGED <<converters, todo, stack, converterPaths>>
      /\ call.chain # <<>> /\ outcome' = error /\ call' = NoCall
  BY DEF ConvertFails
<1>2. call.chain \in Seq(Given) /\ PathTuple(call.chain) = Tuple(call.type, call.target)
  BY <1>1 DEF ConverterInv, CallInv
<1>3. Head(call.chain).source = call.type
  BY <1>1, <1>2 DEF PathTuple, Tuple
<1>4. error = "untranslatable"
  BY <1>3 DEF ConvertFails
<1>5. CallInv' /\ ConvertNeverMistyped'
  BY <1>1, <1>4, NoCallOK DEF ConvertNeverMistyped
<1> QED
  BY <1>1, <1>4, <1>5, OutsideRegistration

\* A call that returns gives the version asked for.
LEMMA ReturnsInv ==
  ASSUME ConverterInv, ConvertReturns
  PROVE  ConverterInv' /\ call.type = call.target
<1>1. /\ UNCHANGED <<converters, todo, stack, converterPaths>>
      /\ call.chain = <<>> /\ call' = NoCall
      /\ outcome' = IF call.type = call.target THEN "converted"
                    ELSE "converted to another version"
  BY DEF ConvertReturns
<1>2. call.type = call.target
  BY <1>1 DEF ConverterInv, CallInv
<1>3. CallInv' /\ ConvertNeverMistyped'
  BY <1>1, <1>2, NoCallOK DEF ConvertNeverMistyped
<1> QED
  BY <1>1, <1>2, <1>3, OutsideRegistration

LEMMA NextInv == ConverterInv /\ [Next]_vars => ConverterInv'
<1> SUFFICES ASSUME ConverterInv, [Next]_vars PROVE ConverterInv'
  OBVIOUS
<1>1. ASSUME NEW version \in todo, VisitVersion(version) PROVE ConverterInv'
  BY <1>1, VisitInv
<1>2. CASE RegisterChain
  BY <1>2, RegisterInv
<1>3. CASE SkipConverter
  BY <1>3, SkipInv
<1>4. CASE ReturnFromCall
  BY <1>4, ReturnInv
<1>5. CASE ReturnInstance
  BY <1>5, NoCallInv DEF ReturnInstance
<1>6. ASSUME NEW source, NEW target, Convert(source, target) PROVE ConverterInv'
  <2>1. CASE ConvertsToItself(source, target)
    BY <2>1, NoCallInv DEF ConvertsToItself
  <2>2. CASE ConvertUnsupported(source, target)
    BY <2>2, NoCallInv DEF ConvertUnsupported
  <2>3. CASE ConvertStarts(source, target)
    BY <2>3, StartsInv
  <2> QED
    BY <1>6, <2>1, <2>2, <2>3 DEF Convert
<1>7. CASE ConvertStep
  BY <1>7, StepInv
<1>8. CASE ConvertReturns
  BY <1>8, ReturnsInv
<1>9. ASSUME NEW error, ConvertFails(error) PROVE ConverterInv'
  BY <1>9, FailsInv
<1>10. CASE UNCHANGED vars
  BY <1>10, NoCallInv DEF vars
<1> QED
  BY <1>1, <1>2, <1>3, <1>4, <1>5, <1>6, <1>7, <1>8, <1>9, <1>10 DEF Next, Registration

-----------------------------------------------------------------------------
(* ParseAndConvertConfig.                                                  *)

LEMMA ConfigInitInv == ConfigInit => ConfigInv
BY InitInv DEF ConfigInit, ConfigInv, NeverPanics

LEMMA ParsedInv ==
  ASSUME ConfigInv, Ready, NEW c \in RawConfigs, ConfigIsParsed(c)
  PROVE  ConfigInv'
<1>1. /\ UNCHANGED <<converters, todo, stack, converterPaths, call>> /\ outcome' = "none"
      /\ stage' \in {"parsed", "done"}
      /\ result' \in {result, IgnParseWrapper(c)}
  BY DEF ConfigIsParsed, Finish
<1>2. ConverterInv'
  BY <1>1, NoCallInv DEF ConfigInv
<1>3. IgnParseWrapper(c) \in {"v3", "invalid version", "v2", "unknown version",
                             "spec v2 failed", "spec v3 failed"}
  BY DEF IgnParseWrapper
<1> QED
  BY <1>1, <1>2, <1>3 DEF ConfigInv, NeverPanics

LEMMA ConfigNextInv == ConfigInv /\ [ConfigNext]_allVars => ConfigInv'
<1> SUFFICES ASSUME ConfigInv, [ConfigNext]_allVars PROVE ConfigInv'
  OBVIOUS
<1> USE DEF ConfigInv, NeverPanics
<1>1. CASE stage = "idle" /\ Next /\ UNCHANGED configVars
  BY <1>1, NextInv DEF configVars
<1>2. ASSUME Ready, NEW c \in RawConfigs, ConfigIsParsed(c) PROVE ConfigInv'
  BY <1>2, ParsedInv
<1>3. CASE removeIgnDuplicateFilesUnitsUsers
  <2>1. ConverterInv'
    BY <1>3, NoCallInv DEF removeIgnDuplicateFilesUnitsUsers, vars
  <2>2. stage' \in {"convert", "done"} /\ result' \in {result, "unexpected user"}
    BY <1>3 DEF removeIgnDuplicateFilesUnitsUsers, Finish
  <2> QED
    BY <2>1, <2>2
<1>4. CASE ConfigConversionStarts
  <2>1. CASE Tuple(config.version, v35) \in DOMAIN converterPaths
    <3>1. ConvertStarts(config.version, v35) /\ stage' = "converting" /\ result' = result
      BY <1>4, <2>1 DEF ConfigConversionStarts
    <3> QED
      BY <3>1, StartsInv
  <2>2. CASE Tuple(config.version, v35) \notin DOMAIN converterPaths
    <3>1. /\ ConvertUnsupported(config.version, v35)
          /\ stage' = "done" /\ result' = "unsupported"
      BY <1>4, <2>2 DEF ConfigConversionStarts, Finish
    <3>2. ConverterInv'
      BY <3>1, NoCallInv DEF ConvertUnsupported
    <3> QED
      BY <3>1, <3>2
  <2> QED
    BY <2>1, <2>2
<1>5. CASE ConfigIsTranslated
  <2>1. ConvertStep /\ stage = "converting" /\ stage' = stage /\ result' = result
    BY <1>5 DEF ConfigIsTranslated, configVars
  <2> QED
    BY <2>1, StepInv
<1>6. CASE ConfigIsConverted
  <2>1. /\ ConvertReturns /\ stage = "converting" /\ stage' = "done"
        /\ result' = IF call.type = v35 THEN "v3" ELSE "panic"
    BY <1>6 DEF ConfigIsConverted, Finish
  <2>2. ConverterInv' /\ call.type = v35
    BY <2>1, ReturnsInv
  <2> QED
    BY <2>1, <2>2
<1>7. ASSUME NEW error, ConfigIsRefused(error) PROVE ConfigInv'
  <2>1. ConvertFails(error) /\ stage' = "done" /\ result' = error
    BY <1>7 DEF ConfigIsRefused, Finish
  <2>2. ConverterInv' /\ error = "untranslatable"
    BY <2>1, FailsInv
  <2> QED
    BY <2>1, <2>2
<1>8. CASE ConfigIsReturned
  <2>1. ConverterInv'
    BY <1>8, NoCallInv DEF ConfigIsReturned
  <2> QED
    BY <1>8, <2>1 DEF ConfigIsReturned
<1>9. CASE UNCHANGED allVars
  <2>1. ConverterInv'
    BY <1>9, NoCallInv DEF allVars, vars
  <2> QED
    BY <1>9, <2>1 DEF allVars, vars, configVars
<1> QED
  BY <1>1, <1>2, <1>3, <1>4, <1>5, <1>6, <1>7, <1>8, <1>9
  DEF ConfigNext, ParseAndConvertConfig

LEMMA ConfigInvariant == ConfigSpec => []ConfigInv
BY ConfigInitInv, ConfigNextInv, PTL DEF ConfigSpec

-----------------------------------------------------------------------------
(* What the walk of the registration has come to.                          *)

\* The positions of the converters from a version; known are the pairs with chains.
From(list, version) == {i \in 1..Len(list) : list[i].source = version}

\* Of the converters from its version, a call has seen to those before next.
DoneSoFar(frame, list, known) ==
  \A i \in From(list, frame.version) :
    i < frame.next /\ Continues(frame.path, list[i]) => NewTuple(frame.path, list[i]) \in known

\* A path comes to no version twice, and what it came through is known.
Simple(path) == \A i, j \in 1..Len(path) : path[i].target = path[j].target => i = j

Traced(path, known) ==
  \A i \in 1..Len(path) : Tuple(path[1].source, path[i].target) \in known

FrameDone(frame, list, known) ==
  DoneSoFar(frame, list, known) /\ Simple(frame.path) /\ Traced(frame.path, known)

\* Whatever continues a pair in its direction is known, or starts at a version.
Continued(tuple, list, known) ==
  \A i \in From(list, tuple.target) :
    IsUp(list[i]) = IsUp(tuple) => Tuple(tuple.source, list[i].target) \in known

Started(version, list, known) ==
  \A i \in From(list, version) : Tuple(version, list[i].target) \in known

\* A call is at it.
Underway(tuple, calls) ==
  \E k \in 1..Len(calls) : calls[k].path # <<>> /\ PathTuple(calls[k].path) = tuple

Starting(version, calls) ==
  \E k \in 1..Len(calls) : calls[k].path = <<>> /\ calls[k].version = version

Known == DOMAIN converterPaths

\* What the walk has not come to is still on the stack or to be visited.
FramesInv == \A k \in 1..Len(stack) : FrameDone(stack[k], converters, Known)

PairsInv ==
  \A tuple \in Known :
    /\ Simple(converterPaths[tuple])
    /\ Continued(tuple, converters, Known) \/ Underway(tuple, stack)

VersionsInv ==
  \A version \in ToVersions :
    version \in todo \/ Started(version, converters, Known) \/ Starting(version, stack)

WalkInv ==
  /\ FramesInv /\ PairsInv /\ VersionsInv
  /\ built => stack = <<>> /\ todo = {}

LEMMA WalkInit == Init => WalkInv
<1> SUFFICES ASSUME Init PROVE WalkInv
  OBVIOUS
<1>1. stack = <<>> /\ Known = {} /\ built = FALSE
  BY DEF Init, Known
<1>2. ASSUME NEW version \in ToVersions
      PROVE  version \in todo \/ Started(version, converters, Known)
  <2>1. \A i \in From(converters, version) :
          converters[i] \in ToSet(converters) /\ converters[i].source = version
    BY DEF From, ToSet
  <2> QED
    BY <2>1 DEF Init, Started
<1> QED
  BY <1>1, <1>2 DEF WalkInv, FramesInv, PairsInv, VersionsInv

\* More chains leave nothing undone.
LEMMA MoreKnown ==
  ASSUME NEW list, NEW known, NEW more, known \subseteq more
  PROVE  /\ \A frame : FrameDone(frame, list, known) => FrameDone(frame, list, more)
         /\ \A tuple : Continued(tuple, list, known) => Continued(tuple, list, more)
         /\ \A version : Started(version, list, known) => Started(version, list, more)
BY DEF FrameDone, DoneSoFar, Traced, Continued, Started

LEMMA WalkOutside ==
  ASSUME WalkInv, UNCHANGED <<converters, todo, stack, converterPaths, built>>
  PROVE  WalkInv'
BY DEF WalkInv, FramesInv, PairsInv, VersionsInv, Known, ToVersions

LEMMA VisitWalk ==
  ASSUME ConverterInv, WalkInv, NEW version \in todo, VisitVersion(version)
  PROVE  WalkInv'
<1>1. /\ UNCHANGED <<converters, converterPaths, built>> /\ stack = <<>> /\ ~built
      /\ todo' = todo \ {version} /\ stack' = <<Frame(version, <<>>)>>
  BY DEF VisitVersion, Building, WalkInv
<1>2. ToVersions' = ToVersions /\ Known' = Known
  BY <1>1 DEF ToVersions, Known
<1>3. FrameDone(Frame(version, <<>>), converters, Known)
  <2>1. \A i \in From(converters, version) : ~(i < 1)
    BY DEF From
  <2> QED
    BY <2>1 DEF FrameDone, DoneSoFar, Simple, Traced, Frame
<1>4. FramesInv'
  BY <1>1, <1>2, <1>3 DEF FramesInv
<1>5. PairsInv'
  <2>1. \A tuple : ~Underway(tuple, stack)
    BY <1>1 DEF Underway
  <2> QED
    BY <2>1, <1>1, <1>2 DEF WalkInv, PairsInv
<1>6. ASSUME NEW v \in ToVersions
      PROVE  v \in todo' \/ Started(v, converters, Known) \/ Starting(v, stack')
  <2>1. ~Starting(v, stack)
    BY <1>1 DEF Starting
  <2>2. CASE v = version
    <3>1. 1 \in 1..Len(stack') /\ stack'[1].path = <<>> /\ stack'[1].version = version
      BY <1>1 DEF Frame
    <3> QED
      BY <2>2, <3>1 DEF Starting
  <2>3. CASE v # version
    BY <2>1, <2>3, <1>1 DEF WalkInv, VersionsInv
  <2> QED
    BY <2>2, <2>3
<1> QED
  BY <1>1, <1>2, <1>4, <1>5, <1>6 DEF WalkInv, VersionsInv

\* The converters the call on top has still to look at.
LEMMA RestOfTop ==
  ASSUME converters \in Seq(Converter)
  PROVE  /\ Rest = {i \in From(converters, Top.version) : i >= Top.next}
         /\ Rest \subseteq Nat
         /\ From(converters, Top.version) \subseteq Nat
BY DEF Rest, ConvertersFrom, From

\* The loop of the call on top has seen to one more converter.
LEMMA AdvancedDone ==
  ASSUME ConverterInv, FramesInv, Building, Rest # {}, NEW known, Known \subseteq known,
         Continues(Top.path, Conv) => NewTuple(Top.path, Conv) \in known
  PROVE  /\ Advanced \in Seq(Frames) /\ Len(Advanced) = Len(stack)
         /\ \A k \in 1..Len(stack) :
              /\ FrameDone(Advanced[k], converters, known)
              /\ Advanced[k].path = stack[k].path /\ Advanced[k].version = stack[k].version
<1>1. converters \in Seq(Converter)
  BY DEF ConverterInv
<1>2. stack \in Seq(Frames) /\ Len(stack) \in Nat /\ Len(stack) \in 1..Len(stack)
  BY DEF ConverterInv, StackInv, Building
<1>3. /\ Min(Rest) \in Rest /\ \A i \in Rest : Min(Rest) <= i
      /\ Min(Rest) \in Nat
  BY <1>1, RestOfTop, LeastPosition
<1>4. PICK n : n = Min(Rest) + 1
  OBVIOUS
<1>5. PICK top : top = [stack[Len(stack)] EXCEPT !.next = n]
  OBVIOUS
<1>6. Advanced = [stack EXCEPT ![Len(stack)] = top]
  BY <1>4, <1>5 DEF Advanced
<1>7. Top = stack[Len(stack)] /\ Top \in Frames
  BY <1>2 DEF Top
<1>8. /\ top \in Frames /\ top.next = n /\ n \in Nat
      /\ top.path = Top.path /\ top.version = Top.version
  <2>1. ASSUME NEW frame \in Frames, NEW m \in Nat,
               NEW moved, moved = [frame EXCEPT !.next = m]
        PROVE  /\ moved \in Frames /\ moved.next = m
               /\ moved.path = frame.path /\ moved.version = frame.version
    BY <2>1 DEF Frames
  <2>2. n \in Nat /\ top = [Top EXCEPT !.next = n]
    BY <1>3, <1>4, <1>5, <1>7
  <2> QED
    BY <1>7, <2>1, <2>2
<1>9. FrameDone(Top, converters, known)
  BY <1>2, <1>7, MoreKnown DEF FramesInv
<1>10. DoneSoFar(top, converters, known)
  <2> SUFFICES ASSUME NEW i \in From(converters, Top.version), i < n, Continues(Top.path, converters[i])
               PROVE  NewTuple(Top.path, converters[i]) \in known
    BY <1>8 DEF DoneSoFar
  <2>1. i \in Nat /\ Top.next \in Nat
    BY <1>1, <1>7, RestOfTop DEF Frames
  <2>2. CASE i < Top.next
    BY <2>2, <1>9 DEF FrameDone, DoneSoFar
  <2>3. CASE ~(i < Top.next)
    <3>1. i \in Rest
      BY <2>1, <2>3, <1>1, RestOfTop
    <3>2. i = Min(Rest)
      BY <3>1, <2>1, <1>3, <1>4
    <3> QED
      BY <3>2 DEF Conv
  <2> QED
    BY <2>2, <2>3
<1>11. FrameDone(top, converters, known)
  BY <1>8, <1>9, <1>10 DEF FrameDone
<1>12. Advanced \in Seq(Frames) /\ Len(Advanced) = Len(stack)
  BY <1>2, <1>6, <1>8
<1>13. ASSUME NEW k \in 1..Len(stack)
       PROVE  /\ FrameDone(Advanced[k], converters, known)
              /\ Advanced[k].path = stack[k].path /\ Advanced[k].version = stack[k].version
  <2>1. FrameDone(stack[k], converters, known)
    BY MoreKnown DEF FramesInv
  <2>2. CASE k = Len(stack)
    <3>1. Advanced[k] = top
      BY <2>2, <1>2, <1>6
    <3> QED
      BY <3>1, <2>2, <1>7, <1>8, <1>11
  <2>3. CASE k # Len(stack)
    <3>1. Advanced[k] = stack[k]
      BY <2>3, <1>2, <1>6
    <3> QED
      BY <3>1, <2>1
  <2> QED
    BY <2>2, <2>3
<1> QED
  BY <1>12, <1>13

\* Calls that keep their version and path go on with what they are at.
LEMMA SameCalls ==
  ASSUME NEW calls, NEW more, Len(calls) \in Nat, Len(more) \in Nat, Len(calls) <= Len(more),
         \A k \in 1..Len(calls) : more[k].path = calls[k].path /\ more[k].version = calls[k].version
  PROVE  /\ \A tuple : Underway(tuple, calls) => Underway(tuple, more)
         /\ \A version : Starting(version, calls) => Starting(version, more)
<1>1. 1..Len(calls) \subseteq 1..Len(more)
  OBVIOUS
<1> QED
  BY <1>1 DEF Underway, Starting

LEMMA SkipWalk ==
  ASSUME ConverterInv, WalkInv, SkipConverter
  PROVE  WalkInv'
<1>1. /\ UNCHANGED <<converters, todo, converterPaths, built>>
      /\ Building /\ Rest # {} /\ stack' = Advanced
      /\ Continues(Top.path, Conv) => NewTuple(Top.path, Conv) \in Known
  BY DEF SkipConverter, Known
<1>2. /\ Advanced \in Seq(Frames) /\ Len(Advanced) = Len(stack)
      /\ \A k \in 1..Len(stack) :
           /\ FrameDone(Advanced[k], converters, Known)
           /\ Advanced[k].path = stack[k].path /\ Advanced[k].version = stack[k].version
  BY <1>1, AdvancedDone DEF WalkInv
<1>3. ToVersions' = ToVersions /\ Known' = Known
  BY <1>1 DEF ToVersions, Known
<1>4. FramesInv'
  BY <1>1, <1>2, <1>3 DEF FramesInv
<1>5. /\ \A tuple : Underway(tuple, stack) => Underway(tuple, stack')
      /\ \A version : Starting(version, stack) => Starting(version, stack')
  <2>1. Len(stack) \in Nat /\ Len(Advanced) \in Nat /\ Len(stack) <= Len(Advanced)
    BY <1>2 DEF ConverterInv, StackInv
  <2> QED
    BY <1>1, <1>2, <2>1, SameCalls
<1>6. PairsInv'
  BY <1>1, <1>3, <1>5 DEF WalkInv, PairsInv
<1>7. VersionsInv'
  BY <1>1, <1>3, <1>5 DEF WalkInv, VersionsInv
<1> QED
  BY <1>1, <1>4, <1>6, <1>7 DEF WalkInv, Building

LEMMA ReturnWalk ==
  ASSUME ConverterInv, WalkInv, ReturnFromCall
  PROVE  WalkInv'
<1>1. converters \in Seq(Converter)
  BY DEF ConverterInv
<1>2. /\ UNCHANGED <<converters, todo, converterPaths, built>>
      /\ Building /\ Rest = {} /\ stack' = Front(stack)
  BY DEF ReturnFromCall
<1>3. ToVersions' = ToVersions /\ Known' = Known
  BY <1>2 DEF ToVersions, Known
<1>4. stack \in Seq(Frames) /\ stack # <<>> /\ Len(stack) \in Nat /\ Len(stack) \in 1..Len(stack)
  BY <1>2 DEF ConverterInv, StackInv, Building
<1>5. /\ stack' \in Seq(Frames) /\ Len(stack') = Len(stack) - 1
      /\ \A i \in 1..Len(stack') : stack'[i] = stack[i]
  BY <1>2, <1>4, FrontShorter
<1>6. FramesInv'
  BY <1>2, <1>3, <1>4, <1>5 DEF WalkInv, FramesInv
<1>7. /\ Top = stack[Len(stack)] /\ Top \in Frames /\ Continuing(Top)
      /\ FrameDone(Top, converters, Known)
  BY <1>4 DEF Top, ConverterInv, StackInv, WalkInv, FramesInv
<1>8. \A i \in From(converters, Top.version) :
        Continues(Top.path, converters[i]) => NewTuple(Top.path, converters[i]) \in Known
  <2>1. ASSUME NEW i \in From(converters, Top.version) PROVE i < Top.next
    <3>1. i \in Nat /\ Top.next \in Nat
      BY <1>1, <1>7, RestOfTop DEF Frames
    <3>2. i \notin Rest
      BY <1>2
    <3> QED
      BY <3>1, <3>2, <1>1, RestOfTop
  <2> QED
    BY <2>1, <1>7 DEF FrameDone, DoneSoFar
<1>9. ASSUME NEW tuple \in Known
      PROVE  Continued(tuple, converters, Known) \/ Underway(tuple, stack')
  <2>1. CASE Continued(tuple, converters, Known)
    BY <2>1
  <2>2. CASE Underway(tuple, stack)
    <3>1. PICK k \in 1..Len(stack) : stack[k].path # <<>> /\ PathTuple(stack[k].path) = tuple
      BY <2>2 DEF Underway
    <3>2. CASE k # Len(stack)
      <4>1. k \in 1..Len(stack')
        BY <3>2, <1>4, <1>5
      <4> QED
        BY <3>1, <4>1, <1>5 DEF Underway
    <3>3. CASE k = Len(stack)
      <4>1. Top.path # <<>> /\ PathTuple(Top.path) = tuple /\ tuple.target = Top.version
        BY <3>1, <3>3, <1>7 DEF Continuing
      <4>2. tuple.source = Top.path[1].source
        BY <4>1 DEF PathTuple, Tuple
      <4>3. ASSUME NEW i \in From(converters, tuple.target), IsUp(converters[i]) = IsUp(tuple)
            PROVE  Tuple(tuple.source, converters[i].target) \in Known
        <5>1. Continues(Top.path, converters[i])
          BY <4>1, <4>3 DEF Continues, IsUp, Tuple
        <5>2. NewTuple(Top.path, converters[i]) = Tuple(tuple.source, converters[i].target)
          BY <4>1, <4>2 DEF NewTuple
        <5> QED
          BY <4>1, <5>1, <5>2, <1>8
      <4> QED
        BY <4>3 DEF Continued
    <3> QED
      BY <3>2, <3>3
  <2> QED
    BY <2>1, <2>2 DEF WalkInv, PairsInv
<1>10. ASSUME NEW version \in ToVersions
      PROVE  version \in todo \/ Started(version, converters, Known) \/ Starting(version, stack')
  <2>1. CASE Starting(version, stack)
    <3>1. PICK k \in 1..Len(stack) : stack[k].path = <<>> /\ stack[k].version = version
      BY <2>1 DEF Starting
    <3>2. CASE k # Len(stack)
      <4>1. k \in 1..Len(stack')
        BY <3>2, <1>4, <1>5
      <4> QED
        BY <3>1, <4>1, <1>5 DEF Starting
    <3>3. CASE k = Len(stack)
      <4>1. Top.path = <<>> /\ Top.version = version
        BY <3>1, <3>3, <1>7
      <4>2. ASSUME NEW i \in From(converters, version)
            PROVE  Tuple(version, converters[i].target) \in Known
        <5>1. NewTuple(Top.path, converters[i]) = Tuple(version, converters[i].target)
          BY <4>1 DEF NewTuple, From
        <5> QED
          BY <4>1, <5>1, <1>8 DEF Continues
      <4> QED
        BY <4>2 DEF Started
    <3> QED
      BY <3>2, <3>3
  <2> QED
    BY <2>1 DEF WalkInv, VersionsInv
<1> QED
  BY <1>2, <1>3, <1>6, <1>9, <1>10 DEF WalkInv, PairsInv, VersionsInv, Building

LEMMA RegisterWalk ==
  ASSUME ConverterInv, WalkInv, RegisterChain
  PROVE  WalkInv'
<1>1. converters \in Seq(Converter)
  BY DEF ConverterInv
<1>2. PICK chain, tuple, frame :
        /\ chain = newConverterConversionPathFromExisting(Top.path, Conv)
        /\ tuple = NewTuple(Top.path, Conv) /\ frame = Frame(Conv.target, chain)
  OBVIOUS
<1>3. /\ UNCHANGED <<converters, todo, built>> /\ Building /\ Rest # {}
      /\ Continues(Top.path, Conv) /\ tuple \notin Known
      /\ converterPaths' = [t \in Known \cup {tuple} |->
                              IF t = tuple THEN chain ELSE converterPaths[t]]
      /\ stack' = Append(Advanced, frame)
  BY <1>2, RegistersOneChain DEF RegisterChain, Known
<1>4. /\ ToVersions' = ToVersions /\ Known' = Known \cup {tuple} /\ converterPaths'[tuple] = chain
      /\ \A t \in Known : t # tuple => converterPaths'[t] = converterPaths[t]
  BY <1>3 DEF ToVersions, Known
<1>5. /\ Advanced \in Seq(Frames) /\ Len(Advanced) = Len(stack)
      /\ \A k \in 1..Len(stack) :
           /\ FrameDone(Advanced[k], converters, Known')
           /\ Advanced[k].path = stack[k].path /\ Advanced[k].version = stack[k].version
  <2>1. Known \subseteq Known' /\ NewTuple(Top.path, Conv) \in Known'
    BY <1>2, <1>4
  <2> QED
    BY <2>1, <1>3, AdvancedDone DEF WalkInv
<1>6. stack \in Seq(Frames) /\ Len(stack) \in Nat /\ Len(stack) \in 1..Len(stack)
  BY <1>3 DEF ConverterInv, StackInv, Building
<1>7. /\ Top \in Frames /\ Top.path \in Seq(Given)
      /\ Simple(Top.path) /\ Traced(Top.path, Known)
  <2>1. Top \in Frames /\ FrameDone(Top, converters, Known)
    BY <1>6 DEF Top, WalkInv, FramesInv
  <2> QED
    BY <2>1 DEF Frames, FrameDone
<1>8. Conv \in Given
  BY <1>1, <1>3, ConvOfTop
<1>9. /\ chain \in Seq(Given) /\ Len(chain) = Len(Top.path) + 1 /\ chain # <<>>
      /\ Len(Top.path) \in Nat
      /\ chain[Len(chain)] = Conv /\ \A i \in 1..Len(Top.path) : chain[i] = Top.path[i]
  <2>1. ASSUME NEW S, NEW s \in Seq(S), NEW e \in S, NEW t, t = Append(s, e)
        PROVE  /\ t \in Seq(S) /\ Len(t) = Len(s) + 1 /\ t # <<>> /\ Len(s) \in Nat
               /\ t[Len(t)] = e /\ \A i \in 1..Len(s) : t[i] = s[i]
    BY ONLY <2>1
  <2>2. chain = Append(Top.path, Conv)
    BY <1>2 DEF newConverterConversionPathFromExisting
  <2> QED
    BY <2>1, <2>2, <1>7, <1>8
<1>10. tuple = Tuple(chain[1].source, Conv.target) /\ PathTuple(chain) = tuple
  <2>1. chain[1].source = IF Top.path = <<>> THEN Conv.source ELSE Top.path[1].source
    BY <1>7, <1>9
  <2> QED
    BY <2>1, <1>2, <1>9 DEF NewTuple, PathTuple
<1>11. ASSUME NEW i \in 1..Len(Top.path)
       PROVE  /\ Tuple(chain[1].source, chain[i].target) \in Known
              /\ chain[i].target # Conv.target
  <2>1. Tuple(Top.path[1].source, Top.path[i].target) \in Known
    BY <1>7 DEF Traced
  <2>2. chain[1] = Top.path[1] /\ chain[i] = Top.path[i]
    BY <1>9
  <2> QED
    BY <2>1, <2>2, <1>3, <1>10
<1>12. Simple(chain)
  <2> SUFFICES ASSUME NEW i \in 1..Len(chain), NEW j \in 1..Len(chain), chain[i].target = chain[j].target
               PROVE  i = j
    BY DEF Simple
  <2>1. CASE i \in 1..Len(Top.path) /\ j \in 1..Len(Top.path)
    BY <2>1, <1>7, <1>9 DEF Simple
  <2>2. CASE i = Len(chain) /\ j \in 1..Len(Top.path)
    BY <2>2, <1>9, <1>11
  <2>3. CASE j = Len(chain) /\ i \in 1..Len(Top.path)
    BY <2>3, <1>9, <1>11
  <2> QED
    BY <2>1, <2>2, <2>3, <1>9
<1>13. Traced(chain, Known')
  <2> SUFFICES ASSUME NEW i \in 1..Len(chain)
               PROVE  Tuple(chain[1].source, chain[i].target) \in Known'
    BY DEF Traced
  <2>1. CASE i \in 1..Len(Top.path)
    BY <2>1, <1>4, <1>11
  <2>2. CASE i = Len(chain)
    BY <2>2, <1>4, <1>9, <1>10
  <2> QED
    BY <2>1, <2>2, <1>9
<1>14. FrameDone(frame, converters, Known') /\ frame.path = chain
  <2>1. frame.path = chain /\ frame.next = 1
    BY <1>2 DEF Frame
  <2>2. \A i \in From(converters, frame.version) : ~(i < 1)
    BY <1>1 DEF From
  <2> QED
    BY <2>1, <2>2, <1>12, <1>13 DEF FrameDone, DoneSoFar
<1>15. /\ Len(stack') = Len(stack) + 1 /\ stack'[Len(stack')] = frame
       /\ \A k \in 1..Len(stack) : stack'[k] = Advanced[k]
  BY <1>3, <1>5, <1>6
<1>16. FramesInv'
  <2>1. ASSUME NEW k \in 1..Len(stack') PROVE FrameDone(stack'[k], converters, Known')
    <3>1. CASE k \in 1..Len(stack)
      BY <3>1, <1>5, <1>15
    <3>2. CASE k = Len(stack')
      BY <3>2, <1>14, <1>15
    <3> QED
      BY <3>1, <3>2, <1>6, <1>15
  <2> QED
    BY <2>1, <1>3 DEF FramesInv
<1>17. /\ \A t : Underway(t, stack) => Underway(t, stack')
       /\ \A version : Starting(version, stack) => Starting(version, stack')
  <2>1. Len(stack) \in Nat /\ Len(stack') \in Nat /\ Len(stack) <= Len(stack')
    BY <1>6, <1>15
  <2>2. \A k \in 1..Len(stack) :
           stack'[k].path = stack[k].path /\ stack'[k].version = stack[k].version
    BY <1>5, <1>15
  <2> QED
    BY <2>1, <2>2, SameCalls
<1>18. PairsInv'
  <2>1. ASSUME NEW t \in Known'
        PROVE  /\ Simple(converterPaths'[t])
               /\ Continued(t, converters, Known') \/ Underway(t, stack')
    <3>1. CASE t = tuple
      <4>1. Len(stack') \in 1..Len(stack') /\ stack'[Len(stack')].path = chain
        BY <1>6, <1>14, <1>15
      <4>2. Underway(tuple, stack')
        BY <4>1, <1>9, <1>10 DEF Underway
      <4> QED
        BY <3>1, <4>2, <1>4, <1>12
    <3>2. CASE t # tuple
      <4>1. t \in Known /\ Known \subseteq Known'
        BY <3>2, <1>4
      <4>2. Simple(converterPaths[t]) /\ (Continued(t, converters, Known) \/ Underway(t, stack))
        BY <4>1 DEF WalkInv, PairsInv
      <4> QED
        BY <4>1, <4>2, <3>2, <1>4, <1>17, MoreKnown
    <3> QED
      BY <3>1, <3>2
  <2> QED
    BY <2>1, <1>3 DEF PairsInv
<1>19. VersionsInv'
  <2>1. Known \subseteq Known'
    BY <1>4
  <2> QED
    BY <2>1, <1>3, <1>4, <1>17, MoreKnown DEF WalkInv, VersionsInv
<1> QED
  BY <1>3, <1>16, <1>18, <1>19 DEF WalkInv, Building

-----------------------------------------------------------------------------
(* The pairs that converters of one direction connect.                     *)

\* The pairs that up to n more steps lead to.
Reaches(reach, steps) ==
  reach[0] = steps /\ \A n \in Nat : reach[n + 1] = reach[n] \cup Joined(reach[n], steps)

LEMMA ReachDefined ==
  ASSUME NEW V, NEW steps, steps \subseteq V \X V
  PROVE  \E reach : /\ Reaches(reach, steps)
                    /\ ConnectedBy(steps) = reach[Cardinality(ToVersions)]
<1> DEFINE S == SUBSET (V \X V)
           F == [p \in Nat \X S |-> p[2] \cup Joined(p[2], steps)]
<1>1. ASSUME NEW known \in S PROVE known \cup Joined(known, steps) \in S
  <2>1. ASSUME NEW joint \in known \X steps PROVE <<joint[1][1], joint[2][2]>> \in V \X V
    <3>1. joint[1] \in V \X V /\ joint[2] \in V \X V
      OBVIOUS
    <3>2. joint[1][1] \in V /\ joint[2][2] \in V
      BY <3>1
    <3> QED
      BY <3>2
  <2> QED
    BY <2>1 DEF Joined
<1>2. F \in [Nat \X S -> S]
  BY <1>1
<1>3. steps \in S
  OBVIOUS
<1>4. \A n \in Nat, known \in S : F[<<n, known>>] = known \cup Joined(known, steps)
  OBVIOUS
<1> HIDE DEF F, S
<1>5. PICK f : f \in [Nat -> S] /\ f[0] = steps /\ \A n \in Nat : f[n + 1] = F[<<n, f[n]>>]
  <2>1. \E f : Recurs(f, S, steps, F)
    BY <1>2, <1>3, Recursion
  <2> QED
    BY <2>1 DEF Recurs
<1>6. ASSUME NEW n \in Nat PROVE f[n + 1] = f[n] \cup Joined(f[n], steps)
  <2>1. f[n] \in S
    BY <1>5
  <2> QED
    BY <2>1, <1>4, <1>5
<1>7. f = [n \in Nat |-> IF n = 0 THEN steps ELSE f[n - 1] \cup Joined(f[n - 1], steps)]
  <2>1. ASSUME NEW n \in Nat
        PROVE  f[n] = IF n = 0 THEN steps ELSE f[n - 1] \cup Joined(f[n - 1], steps)
    <3>1. CASE n = 0
      BY <3>1, <1>5
    <3>2. CASE n # 0
      <4>1. n - 1 \in Nat /\ (n - 1) + 1 = n
        BY <3>2
      <4> QED
        BY <3>2, <4>1, <1>6
    <3> QED
      BY <3>1, <3>2
  <2> QED
    BY <2>1, <1>5
<1> DEFINE reach == CHOOSE g : g = [n \in Nat |-> IF n = 0 THEN steps ELSE g[n - 1] \cup Joined(g[n - 1], steps)]
<1>8. reach = [n \in Nat |-> IF n = 0 THEN steps ELSE reach[n - 1] \cup Joined(reach[n - 1], steps)]
  BY <1>7, Zenon
<1>9. ConnectedBy(steps) = reach[Cardinality(ToVersions)]
  BY DEF ConnectedBy
<1> HIDE DEF reach
<1>10. Reaches(reach, steps)
  <2>1. reach[0] = steps
    BY <1>8
  <2>2. ASSUME NEW n \in Nat PROVE reach[n + 1] = reach[n] \cup Joined(reach[n], steps)
    <3>1. n + 1 \in Nat /\ n + 1 # 0 /\ (n + 1) - 1 = n
      OBVIOUS
    <3> QED
      BY <3>1, <1>8
  <2> QED
    BY <2>1, <2>2 DEF Reaches
<1> QED
  BY <1>9, <1>10

LEMMA InJoined ==
  ASSUME NEW known, NEW steps, NEW a, NEW b, NEW c, <<a, b>> \in known, <<b, c>> \in steps
  PROVE  <<a, c>> \in Joined(known, steps)
<1>1. PICK joint : joint = <<<<a, b>>, <<b, c>>>>
  OBVIOUS
<1>2. joint \in {pair \in known \X steps : pair[1][2] = pair[2][1]}
  BY <1>1
<1>3. <<a, c>> = <<joint[1][1], joint[2][2]>>
  BY <1>1
<1> QED
  BY <1>2, <1>3 DEF Joined

LEMMA OfJoined ==
  ASSUME NEW known, NEW steps, NEW pair \in Joined(known, steps)
  PROVE  \E q \in known, s \in steps : q[2] = s[1] /\ pair = <<q[1], s[2]>>
<1>1. PICK joint \in known \X steps : joint[1][2] = joint[2][1] /\ pair = <<joint[1][1], joint[2][2]>>
  BY DEF Joined
<1>2. joint[1] \in known /\ joint[2] \in steps
  OBVIOUS
<1> QED
  BY <1>1, <1>2

LEMMA ReachGrows ==
  ASSUME NEW reach, NEW steps, Reaches(reach, steps), NEW m \in Nat, NEW n \in Nat, m <= n
  PROVE  reach[m] \subseteq reach[n]
<1> DEFINE B == {k \in Nat : m <= k => reach[m] \subseteq reach[k]}
<1>1. 0 \in B
  OBVIOUS
<1>2. ASSUME NEW k \in Nat, k \in B PROVE k + 1 \in B
  <2>1. reach[k] \subseteq reach[k + 1]
    BY DEF Reaches
  <2>2. CASE m = k + 1
    BY <2>2
  <2>3. CASE m # k + 1
    <3> SUFFICES ASSUME m <= k + 1 PROVE reach[m] \subseteq reach[k + 1]
      OBVIOUS
    <3>1. m <= k
      BY <2>3
    <3> QED
      BY <1>2, <2>1, <3>1
  <2> QED
    BY <2>2, <2>3
<1>3. Nat \subseteq B
  <2> HIDE DEF B
  <2> QED
    BY <1>1, <1>2, SetInduction
<1> QED
  BY <1>3

LEMMA FiniteVersions ==
  ASSUME converters \in Seq(Converter)
  PROVE  IsFiniteSet(ToVersions) /\ Cardinality(ToVersions) \in Nat
<1> DEFINE D == 1..Len(converters)
           S == {conv.source : conv \in ToSet(converters)}
           T == {conv.target : conv \in ToSet(converters)}
           f == [i \in D |-> converters[i].source]
           g == [i \in D |-> converters[i].target]
<1>1. Len(converters) \in Nat /\ IsFiniteSet(D)
  BY FS_Interval
<1>2. f \in Surjection(D, S)
  BY DEF Surjection, ToSet
<1>3. g \in Surjection(D, T)
  BY DEF Surjection, ToSet
<1> HIDE DEF D, f, g, S, T
<1>4. IsFiniteSet(S) /\ IsFiniteSet(T)
  BY <1>1, <1>2, <1>3, FS_Surjection
<1>5. IsFiniteSet(T \cup S)
  BY <1>4, FS_Union
<1>6. ToVersions = T \cup S
  BY DEF ToVersions, S, T
<1> QED
  BY <1>5, <1>6, FS_CardinalityType

\* A chain that comes to no version twice is no longer than there are versions.
LEMMA SimpleIsShort ==
  ASSUME converters \in Seq(Converter), NEW chain \in Seq(Given), Simple(chain)
  PROVE  Len(chain) <= Cardinality(ToVersions)
<1> DEFINE D == 1..Len(chain)
           f == [i \in D |-> chain[i].target]
<1>1. Len(chain) \in Nat
  OBVIOUS
<1>2. IsFiniteSet(D) /\ Cardinality(D) = Len(chain)
  <2>1. ASSUME NEW n \in Nat PROVE IsFiniteSet(1..n) /\ Cardinality(1..n) = n
    <3>1. Cardinality(1..n) = (IF 1 > n THEN 0 ELSE n - 1 + 1) /\ IsFiniteSet(1..n)
      BY ONLY FS_Interval, 1 \in Int, n \in Int
    <3> QED
      BY ONLY <3>1, n \in Nat
  <2> QED
    BY <1>1, <2>1
<1>3. \A i \in D : chain[i].target \in ToVersions
  <2>1. \A i \in D : chain[i] \in Given
    OBVIOUS
  <2> QED
    BY <2>1 DEF Given, ToVersions
<1>4. f \in [D -> ToVersions]
  BY <1>3
<1>5. f \in Injection(D, ToVersions)
  <2>1. \A i, j \in D : f[i] = f[j] => i = j
    BY DEF Simple
  <2> QED
    BY <1>4, <2>1 DEF Injection, IsInjective
<1> HIDE DEF f, D
<1> QED
  BY <1>1, <1>2, <1>5, FiniteVersions, FS_Injection

LEMMA StepsOfVersions == Steps(TRUE) \subseteq ToVersions \X ToVersions
                         /\ Steps(FALSE) \subseteq ToVersions \X ToVersions
BY DEF Steps, ToVersions

\* A chain makes its pair one of the connected pairs.
LEMMA ChainConnects ==
  ASSUME converters \in Seq(Converter),
         NEW tuple, NEW chain, ChainOf(tuple, chain), Simple(chain), NEW up, up = IsUp(tuple)
  PROVE  <<tuple.source, tuple.target>> \in ConnectedBy(Steps(up))
<1>1. /\ chain \in Seq(Given) /\ Len(chain) \in Nat /\ Len(chain) >= 1
      /\ PathTuple(chain) = tuple /\ Linked(chain) /\ OneWay(chain)
  BY DEF ChainOf
<1>2. PICK reach : /\ Reaches(reach, Steps(up))
                   /\ ConnectedBy(Steps(up)) = reach[Cardinality(ToVersions)]
  <2>1. up \in BOOLEAN
    BY DEF IsUp
  <2>2. Steps(up) \subseteq ToVersions \X ToVersions
    BY <2>1, StepsOfVersions
  <2> QED
    BY <2>2, ReachDefined
<1>3. ASSUME NEW i \in 1..Len(chain) PROVE <<chain[i].source, chain[i].target>> \in Steps(up)
  <2>1. chain[i] \in Given /\ IsUp(chain[i]) = up
    BY <1>1 DEF OneWay
  <2> QED
    BY <2>1 DEF Steps, Given
<1> DEFINE B == {i \in Nat : i + 1 <= Len(chain) =>
                               <<chain[1].source, chain[i + 1].target>> \in reach[i]}
<1>4. 0 \in B
  BY <1>1, <1>2, <1>3 DEF Reaches
<1>5. ASSUME NEW i \in Nat, i \in B PROVE i + 1 \in B
  <2> SUFFICES ASSUME (i + 1) + 1 <= Len(chain)
               PROVE  <<chain[1].source, chain[(i + 1) + 1].target>> \in reach[i + 1]
    OBVIOUS
  <2>1. <<chain[1].source, chain[i + 1].target>> \in reach[i]
    BY <1>1, <1>5
  <2>2. i + 1 \in 1..(Len(chain) - 1) /\ (i + 1) + 1 \in 1..Len(chain)
    BY <1>1
  <2>3. chain[i + 1].target = chain[(i + 1) + 1].source
    BY <2>2, <1>1 DEF Linked
  <2>4. <<chain[(i + 1) + 1].source, chain[(i + 1) + 1].target>> \in Steps(up)
    BY <2>2, <1>3
  <2>5. <<chain[1].source, chain[(i + 1) + 1].target>> \in Joined(reach[i], Steps(up))
    BY <2>1, <2>3, <2>4, InJoined
  <2> QED
    BY <2>5, <1>2 DEF Reaches
<1>6. Nat \subseteq B
  <2> HIDE DEF B
  <2> QED
    BY <1>4, <1>5, SetInduction
<1>7. PICK last \in Nat : last = Len(chain) - 1
  BY <1>1
<1>8. <<chain[1].source, chain[Len(chain)].target>> \in reach[last]
  <2>1. last \in B /\ last + 1 = Len(chain)
    BY <1>1, <1>6, <1>7
  <2> QED
    BY <2>1, <1>1
<1>9. reach[last] \subseteq reach[Cardinality(ToVersions)]
  <2>1. last <= Cardinality(ToVersions) /\ Cardinality(ToVersions) \in Nat
    BY <1>1, <1>7, SimpleIsShort, FiniteVersions
  <2> QED
    BY <2>1, <1>2, ReachGrows
<1>10. tuple.source = chain[1].source /\ tuple.target = chain[Len(chain)].target
  BY <1>1 DEF PathTuple, Tuple
<1> QED
  BY <1>2, <1>8, <1>9, <1>10

\* A pair of versions, of a direction, that has a chain.
Reached(pair, up, known) ==
  /\ pair \in Version \X Version
  /\ Tuple(pair[1], pair[2]) \in known /\ IsUp(Tuple(pair[1], pair[2])) = up

\* When the walk has come to everything, every connected pair has a chain.
LEMMA ConnectedKnown ==
  ASSUME converters \in Seq(Converter),
         \A tuple \in Known : Continued(tuple, converters, Known),
         \A version \in ToVersions : Started(version, converters, Known),
         NEW up \in BOOLEAN, NEW pair \in ConnectedBy(Steps(up))
  PROVE  Reached(pair, up, Known)
<1>1. PICK reach : /\ Reaches(reach, Steps(up))
                   /\ ConnectedBy(Steps(up)) = reach[Cardinality(ToVersions)]
  <2>1. Steps(up) \subseteq ToVersions \X ToVersions
    BY StepsOfVersions
  <2> QED
    BY <2>1, ReachDefined
<1>2. ASSUME NEW s \in Steps(up)
      PROVE  \E i \in From(converters, s[1]) :
               /\ converters[i] \in Converter /\ IsUp(converters[i]) = up
               /\ s = <<converters[i].source, converters[i].target>>
  <2>1. PICK conv \in ToSet(converters) : IsUp(conv) = up /\ s = <<conv.source, conv.target>>
    BY DEF Steps
  <2>2. PICK i \in 1..Len(converters) : converters[i] = conv
    BY <2>1 DEF ToSet
  <2>3. s[1] = conv.source
    BY <2>1
  <2> QED
    BY <2>1, <2>2, <2>3 DEF From
<1> DEFINE B == {n \in Nat : \A p \in reach[n] : Reached(p, up, Known)}
<1>3. 0 \in B
  <2>1. ASSUME NEW s \in Steps(up) PROVE Reached(s, up, Known)
    <3>1. PICK i \in From(converters, s[1]) :
               /\ converters[i] \in Converter /\ IsUp(converters[i]) = up
               /\ s = <<converters[i].source, converters[i].target>>
      BY <1>2
    <3>2. /\ s[1] = converters[i].source /\ s[2] = converters[i].target
          /\ s[1] \in Version /\ s[2] \in Version
      BY <3>1 DEF Converter
    <3>3. s[1] \in ToVersions
      BY <3>2 DEF ToVersions, From, ToSet
    <3>4. Tuple(s[1], s[2]) \in Known
      BY <3>2, <3>3 DEF Started
    <3>5. IsUp(Tuple(s[1], s[2])) = up
      BY <3>1, <3>2 DEF IsUp, Tuple
    <3>6. s \in Version \X Version
      BY <3>1, <3>2
    <3> QED
      BY <3>4, <3>5, <3>6 DEF Reached
  <2> QED
    BY <2>1, <1>1 DEF Reaches
<1>4. ASSUME NEW n \in Nat, n \in B PROVE n + 1 \in B
  <2>1. ASSUME NEW p \in Joined(reach[n], Steps(up)) PROVE Reached(p, up, Known)
    <3>1. PICK q \in reach[n], s \in Steps(up) : q[2] = s[1] /\ p = <<q[1], s[2]>>
      BY OfJoined
    <3>2. Reached(q, up, Known)
      BY <1>4
    <3>3. PICK i \in From(converters, s[1]) :
               /\ converters[i] \in Converter /\ IsUp(converters[i]) = up
               /\ s = <<converters[i].source, converters[i].target>>
      BY <1>2
    <3>4. /\ s[1] = converters[i].source /\ s[2] = converters[i].target
          /\ s[1] \in Version /\ s[2] \in Version
      BY <3>3 DEF Converter
    <3>5. PICK tuple : tuple = Tuple(q[1], q[2])
      OBVIOUS
    <3>6. /\ tuple \in Known /\ tuple.source = q[1] /\ tuple.target = s[1] /\ IsUp(tuple) = up
          /\ q[1] \in Version
      BY <3>1, <3>2, <3>5 DEF Reached, Tuple
    <3>7. Tuple(q[1], s[2]) \in Known
      <4>1. Continued(tuple, converters, Known)
        BY <3>6
      <4> QED
        BY <4>1, <3>3, <3>4, <3>6 DEF Continued
    <3>8. IsUp(Tuple(q[1], s[2])) = up
      <4>1. IsUp(Tuple(s[1], s[2])) = up
        BY <3>3, <3>4 DEF IsUp, Tuple
      <4>2. IsUp(Tuple(q[1], s[1])) = up
        BY <3>1, <3>5, <3>6
      <4> QED
        BY <4>1, <4>2, <3>4, <3>6, SameDirection
    <3>9. p[1] = q[1] /\ p[2] = s[2] /\ p \in Version \X Version
      BY <3>1, <3>4, <3>6
    <3> QED
      BY <3>7, <3>8, <3>9 DEF Reached
  <2>2. reach[n + 1] = reach[n] \cup Joined(reach[n], Steps(up))
    BY <1>1 DEF Reaches
  <2> QED
    BY <2>1, <2>2, <1>4
<1>5. Nat \subseteq B
  <2> HIDE DEF B
  <2> QED
    BY <1>3, <1>4, SetInduction
<1> QED
  BY <1>1, <1>5, FiniteVersions

LEMMA AllPairs ==
  ASSUME ConverterInv, WalkInv, stack = <<>>, todo = {}
  PROVE  {<<tuple.source, tuple.target>> : tuple \in DOMAIN converterPaths}
           = ConnectedBy(Steps(TRUE)) \cup ConnectedBy(Steps(FALSE))
<1>1. converters \in Seq(Converter)
  BY DEF ConverterInv
<1>2. \A tuple \in Known : Continued(tuple, converters, Known)
  BY DEF WalkInv, PairsInv, Underway
<1>3. \A version \in ToVersions : Started(version, converters, Known)
  BY DEF WalkInv, VersionsInv, Starting
<1>4. ASSUME NEW tuple \in Known
      PROVE  <<tuple.source, tuple.target>> \in ConnectedBy(Steps(TRUE)) \cup ConnectedBy(Steps(FALSE))
  <2>1. PICK chain : chain = converterPaths[tuple] /\ ChainOf(tuple, chain) /\ Simple(chain)
    BY DEF ConverterInv, ChainsInv, WalkInv, PairsInv, Known
  <2>2. PICK up \in BOOLEAN : up = IsUp(tuple)
    BY DEF IsUp
  <2>3. <<tuple.source, tuple.target>> \in ConnectedBy(Steps(up))
    BY <1>1, <2>1, <2>2, ChainConnects
  <2> QED
    BY <2>2, <2>3
<1>5. ASSUME NEW up \in BOOLEAN, NEW pair \in ConnectedBy(Steps(up))
      PROVE  \E tuple \in Known : pair = <<tuple.source, tuple.target>>
  <2>1. Reached(pair, up, Known)
    BY <1>1, <1>2, <1>3, ConnectedKnown
  <2>2. PICK tuple \in Known : tuple = Tuple(pair[1], pair[2])
    BY <2>1 DEF Reached
  <2>3. pair = <<pair[1], pair[2]>>
    BY <2>1 DEF Reached
  <2> QED
    BY <2>2, <2>3 DEF Tuple
<1> QED
  BY <1>4, <1>5 DEF Known

LEMMA ReturnInstanceWalk ==
  ASSUME WalkInv, ReturnInstance
  PROVE  WalkInv'
BY DEF ReturnInstance, Building, WalkInv, FramesInv, PairsInv, VersionsInv, Known, ToVersions

LEMMA ConfigWalk == ConfigInv /\ WalkInv /\ [ConfigNext]_allVars => WalkInv'
<1> SUFFICES ASSUME ConfigInv, WalkInv, [ConfigNext]_allVars PROVE WalkInv'
  OBVIOUS
<1>1. ConverterInv
  BY DEF ConfigInv
<1>2. ASSUME NEW version \in todo, VisitVersion(version) PROVE WalkInv'
  BY <1>1, <1>2, VisitWalk
<1>3. CASE RegisterChain
  BY <1>1, <1>3, RegisterWalk
<1>4. CASE SkipConverter
  BY <1>1, <1>4, SkipWalk
<1>5. CASE ReturnFromCall
  BY <1>1, <1>5, ReturnWalk
<1>6. CASE ReturnInstance
  BY <1>6, ReturnInstanceWalk
<1>7. ASSUME NEW source, NEW target, Convert(source, target) PROVE WalkInv'
  BY <1>7, WalkOutside DEF Convert, ConvertsToItself, ConvertUnsupported, ConvertStarts
<1>8. CASE ConvertStep
  BY <1>8, WalkOutside DEF ConvertStep
<1>9. CASE ConvertReturns
  BY <1>9, WalkOutside DEF ConvertReturns
<1>10. ASSUME NEW error, ConvertFails(error) PROVE WalkInv'
  BY <1>10, WalkOutside DEF ConvertFails
<1>11. CASE UNCHANGED vars
  BY <1>11, WalkOutside DEF vars
<1>12. CASE Next
  BY <1>12, <1>2, <1>3, <1>4, <1>5, <1>6, <1>7, <1>8, <1>9, <1>10 DEF Next, Registration
<1>13. ASSUME NEW c, ConfigIsParsed(c) PROVE WalkInv'
  BY <1>13, WalkOutside DEF ConfigIsParsed
<1>14. CASE removeIgnDuplicateFilesUnitsUsers
  BY <1>14, <1>11 DEF removeIgnDuplicateFilesUnitsUsers
<1>15. CASE ConfigConversionStarts
  BY <1>15, WalkOutside DEF ConfigConversionStarts, ConvertStarts, ConvertUnsupported
<1>16. CASE ConfigIsTranslated \/ ConfigIsConverted
  BY <1>16, <1>8, <1>9 DEF ConfigIsTranslated, ConfigIsConverted
<1>17. ASSUME NEW error, ConfigIsRefused(error) PROVE WalkInv'
  BY <1>10, <1>17 DEF ConfigIsRefused
<1>18. CASE ConfigIsReturned
  BY <1>18, WalkOutside DEF ConfigIsReturned
<1>19. CASE UNCHANGED allVars
  BY <1>11, <1>19 DEF allVars
<1> QED
  BY <1>12, <1>13, <1>14, <1>15, <1>16, <1>17, <1>18, <1>19 DEF ConfigNext, ParseAndConvertConfig

LEMMA BuiltOnce ==
  ASSUME [ConfigNext]_allVars, ~built, built'
  PROVE  ReturnInstance
BY DEF ConfigNext, ParseAndConvertConfig, Next, Registration, VisitVersion, RegisterChain, SkipConverter,
       ReturnFromCall, Convert, ConvertsToItself, ConvertUnsupported, ConvertStarts, ConvertStep,
       ConvertReturns, ConvertFails, ConfigIsParsed, removeIgnDuplicateFilesUnitsUsers,
       ConfigConversionStarts, ConfigIsTranslated, ConfigIsConverted, ConfigIsRefused,
       ConfigIsReturned, vars, allVars

\* What is walked and registered is made of the converters of the list.
LEMMA WalksTheGivenList == ConfigSpec => []MadeOfConverters
<1>1. ASSUME ConfigInv PROVE MadeOfConverters
  <2>1. ASSUME NEW i \in 1..Len(stack)
        PROVE  stack[i].version \in ToVersions /\ stack[i].next \in Nat
    <3>1. stack[i] \in Frames
      BY <1>1 DEF ConfigInv, ConverterInv, StackInv
    <3> QED
      BY <3>1 DEF Frames
  <2>2. \A tuple \in DOMAIN converterPaths : converterPaths[tuple] \in Seq(Given)
    BY <1>1 DEF ConfigInv, ConverterInv, ChainsInv, ChainOf
  <2>3. todo \subseteq ToVersions /\ call.chain \in Seq(Given)
    BY <1>1 DEF ConfigInv, ConverterInv, CallInv
  <2> QED
    BY <2>1, <2>2, <2>3 DEF MadeOfConverters, Given
<1> QED
  BY <1>1, ConfigInvariant, PTL

-----------------------------------------------------------------------------
(* Theorems.                                                               *)

\* What the registration builds, for every list of converters and every order of
\* the walk: a chain starts at its source, ends at its target, connects, and
\* goes in one direction.
THEOREM ChainsAlwaysConnect == ConfigSpec => []ChainsConnect
<1>1. ConfigInv => ChainsConnect
  BY DEF ConfigInv, ConverterInv, ChainsInv, ChainOf, ChainsConnect, Linked, OneWay
<1> QED
  BY <1>1, ConfigInvariant, PTL

\* Convert, called by anyone, never hands a config to a converter for another
\* version and never returns another version than asked for.
THEOREM ConvertGivesTheTarget == ConfigSpec => []ConvertNeverMistyped
<1>1. ConfigInv => ConvertNeverMistyped
  BY DEF ConfigInv, ConverterInv
<1> QED
  BY <1>1, ConfigInvariant, PTL

\* For every list of converters, circles included, and every order of the walk:
\* when newIgnitionConverter returns, exactly the pairs that converters of one
\* direction connect have a chain.
THEOREM RegistersEveryPair == ConfigSpec => RegistersAllPairs
<1>1. ConfigInit => WalkInv
  BY WalkInit DEF ConfigInit
<1>2. ASSUME ConfigInv, WalkInv, [ConfigNext]_allVars, ~built, built'
      PROVE  {<<tuple.source, tuple.target>> : tuple \in DOMAIN converterPaths}
                = ConnectedBy(Steps(TRUE)) \cup ConnectedBy(Steps(FALSE))
  <2>1. ReturnInstance
    BY <1>2, BuiltOnce
  <2>2. stack = <<>> /\ todo = {}
    BY <2>1 DEF ReturnInstance, Building
  <2> QED
    BY <1>2, <2>2, AllPairs DEF ConfigInv
<1>3. ConfigInv /\ WalkInv /\ [ConfigNext]_allVars =>
        [~built /\ built' =>
           {<<tuple.source, tuple.target>> : tuple \in DOMAIN converterPaths}
             = ConnectedBy(Steps(TRUE)) \cup ConnectedBy(Steps(FALSE))]_vars
  BY <1>2
<1> QED
  BY <1>1, <1>3, ConfigInvariant, ConfigWalk, PTL DEF ConfigSpec, RegistersAllPairs

=============================================================================
