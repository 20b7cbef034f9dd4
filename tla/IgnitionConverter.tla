-------------------------- MODULE IgnitionConverter --------------------------
(***************************************************************************)
(* internal/common/ignition_converter.go: from a list of converters, each  *)
(* from one Ignition version to another, newIgnitionConverter registers a  *)
(* chain of them for every pair of versions it can, and Convert walks the  *)
(* chain of a pair.                                                        *)
(*                                                                         *)
(* The recursion of the registration is a stack of calls.  The order in    *)
(* which Go ranges over the map of source versions is any order.  What a   *)
(* translation does to a config is left out, except for the Go type of the *)
(* config, which a converter checks before it translates, and that some    *)
(* translations refuse what they cannot express.                           *)
(***************************************************************************)
EXTENDS Integers, Sequences, FiniteSets, SequencesExt

CONSTANT ConverterLists    \* the lists of converters considered

(***************************************************************************)
(* semver.Version: major, minor and patch, compared in that order.         *)
(***************************************************************************)
Version == Nat \X Nat \X Nat

Precedes(v, w) ==
  \/ v[1] < w[1]
  \/ v[1] = w[1] /\ v[2] < w[2]
  \/ v[1] = w[1] /\ v[2] = w[2] /\ v[3] < w[3]

Tuple(source, target) == [source |-> source, target |-> target]

\* A conversion of a version to itself counts as upwards.
IsUp(tuple) == ~Precedes(tuple.target, tuple.source)

\* A converter is known by its Versions(); fails tells whether its translation
\* has an error result.  An Ignition config is known by the version of its Go
\* type.
Converter == [source : Version, target : Version, fails : BOOLEAN]

ASSUME ConvertersAssumption == ConverterLists \subseteq Seq(Converter)

Typed(source, target)        == [source |-> source, target |-> target, fails |-> TRUE]
TypedNoError(source, target) == [source |-> source, target |-> target, fails |-> FALSE]

buildConverterList ==
  << Typed(<<3, 5, 0>>, <<3, 4, 0>>), TypedNoError(<<3, 4, 0>>, <<3, 5, 0>>),
     Typed(<<3, 4, 0>>, <<3, 3, 0>>), TypedNoError(<<3, 3, 0>>, <<3, 4, 0>>),
     Typed(<<3, 3, 0>>, <<3, 2, 0>>), TypedNoError(<<3, 2, 0>>, <<3, 3, 0>>),
     Typed(<<3, 2, 0>>, <<3, 1, 0>>),
     Typed(<<3, 2, 0>>, <<2, 2, 0>>), Typed(<<2, 2, 0>>, <<3, 2, 0>>),
     TypedNoError(<<3, 0, 0>>, <<3, 2, 0>>) >>

-----------------------------------------------------------------------------
VARIABLES
  converters,         \* the list newIgnitionConverter was given
  todo,               \* source versions the range has not come to
  stack,              \* calls of recursiveConverterRegistration, the last on top
  converterPaths,     \* tuple -> chain of converters
  supportedVersions,  \* list of versions
  built,              \* newIgnitionConverter has returned
  call,               \* a call of Convert under way, or NoCall
  outcome             \* how the last call of Convert ended

vars == <<converters, todo, stack, converterPaths, supportedVersions, built, call, outcome>>

NoCall == [chain |-> <<>>, type |-> <<0, 0, 0>>, target |-> <<0, 0, 0>>]

\* convertersMap[version]: the converters from version, as positions in the list.
ConvertersFrom(version) == {i \in 1..Len(converters) : converters[i].source = version}

\* An entry is appended unless it is there.
AppendOnce(list, entry) == IF Contains(list, entry) THEN list ELSE Append(list, entry)

\* Mutant: only the sources are registered.
RegisteredSources(list) ==
  LET versions[n \in 0..Len(list)] ==
        IF n = 0 THEN <<>> ELSE AppendOnce(versions[n - 1], list[n].source)
  IN  versions[Len(list)]

\* registerConverterVersions over the whole list: source, then target, each once.
Registered(list) ==
  LET versions[n \in 0..Len(list)] ==
        IF n = 0 THEN <<>>
        ELSE AppendOnce(AppendOnce(versions[n - 1], list[n].source), list[n].target)
  IN  versions[Len(list)]

Init ==
  /\ converters \in ConverterLists
  /\ todo = {conv.source : conv \in ToSet(converters)}
  /\ stack = <<>>
  /\ converterPaths = <<>>
  /\ supportedVersions = Registered(converters)
  /\ built = FALSE
  /\ call = NoCall /\ outcome = "none"

-----------------------------------------------------------------------------
(* Registration.                                                           *)

\* A call: the version it converts from, the position from which its loop looks for
\* that version's converters, and the conversionPath it continues, <<>> being nil.
Frame(version, path) == [version |-> version, next |-> 1, path |-> path]

\* The tuple of a conversionPath.
PathTuple(path) == Tuple(path[1].source, path[Len(path)].target)

\* The tuple a path gets when conv continues it, or starts it.
NewTuple(path, conv) ==
  Tuple(IF path = <<>> THEN conv.source ELSE path[1].source, conv.target)

newConverterConversionPathFromExisting(path, conv) == Append(path, conv)

\* Mutant: the converter is appended to the array of the path itself, which earlier
\* appends have grown by doubling it.
GrownCapacity(path) ==
  IF path = <<>> THEN 0 ELSE Min({n \in {2^k : k \in 0..Len(path)} : n >= Len(path)})

\* How much the array holds that a converter is appended to: a copy of the path's,
\* made as long as the path, so that append has to take another array.
Capacity(path) == Len(path)

\* A chain continues the path in the array of the path: with room in it, append
\* writes the converter into a cell that the chain has too.
SharesArray(chain, path) ==
  /\ Len(path) < Len(chain) /\ Len(chain) <= Capacity(path)
  /\ SubSeq(chain, 1, Len(path)) = path

\* A registered chain, after conv was appended to path.
Written(chain, path, conv) ==
  IF SharesArray(chain, path) THEN [chain EXCEPT ![Len(path) + 1] = conv] ELSE chain

Building == stack # <<>>
Top      == stack[Len(stack)]
Rest     == {i \in ConvertersFrom(Top.version) : i >= Top.next}
Conv     == converters[Min(Rest)]

VisitVersion(version) ==
  /\ ~Building /\ version \in todo
  /\ todo' = todo \ {version}
  /\ stack' = <<Frame(version, <<>>)>>
  /\ UNCHANGED <<converters, converterPaths, supportedVersions, built, call, outcome>>

\* Mutant: chains are continued whatever their direction.
AnyDirection(path, conv) == TRUE

\* A chain goes on in one direction only.
Continues(path, conv) ==
  path # <<>> => IsUp(PathTuple(path)) = IsUp(Tuple(conv.source, conv.target))

\* Mutant: the loop looks at the same converter again.
NotAdvanced == stack

Advanced == [stack EXCEPT ![Len(stack)].next = Min(Rest) + 1]

Registering(path, conv) ==
  [t \in DOMAIN converterPaths \cup {NewTuple(path, conv)} |->
     IF t = NewTuple(path, conv) THEN newConverterConversionPathFromExisting(path, conv)
     ELSE Written(converterPaths[t], path, conv)]

\* Mutant: a chain is registered and not continued.
RegistersOneStep ==
  /\ Building /\ Rest # {}
  /\ Continues(Top.path, Conv)
  /\ NewTuple(Top.path, Conv) \notin DOMAIN converterPaths
  /\ converterPaths' = Registering(Top.path, Conv)
  /\ stack' = Advanced
  /\ UNCHANGED <<converters, todo, supportedVersions, built, call, outcome>>

\* The converter starts or extends a chain between versions not yet connected:
\* the chain is registered and the walk goes on from where it ends.
RegisterChain ==
  /\ Building /\ Rest # {}
  /\ Continues(Top.path, Conv)
  /\ NewTuple(Top.path, Conv) \notin DOMAIN converterPaths
  /\ converterPaths' = Registering(Top.path, Conv)
  /\ stack' = Append(Advanced,
                     Frame(Conv.target, newConverterConversionPathFromExisting(Top.path, Conv)))
  /\ UNCHANGED <<converters, todo, supportedVersions, built, call, outcome>>

SkipConverter ==
  /\ Building /\ Rest # {}
  /\ Continues(Top.path, Conv) => NewTuple(Top.path, Conv) \in DOMAIN converterPaths
  /\ stack' = Advanced
  /\ UNCHANGED <<converters, todo, converterPaths, supportedVersions, built, call, outcome>>

\* The end of the loop, or a version nothing converts from.
ReturnFromCall ==
  /\ Building /\ Rest = {}
  /\ stack' = Front(stack)
  /\ UNCHANGED <<converters, todo, converterPaths, supportedVersions, built, call, outcome>>

Registration ==
  \/ \E version \in todo : VisitVersion(version)
  \/ RegisterChain \/ SkipConverter \/ ReturnFromCall

\* semver.Sort, of a list without duplicates.
Sort(versions) ==
  [i \in 1..Len(versions) |->
     CHOOSE v \in ToSet(versions) :
       Cardinality({w \in ToSet(versions) : Precedes(w, v)}) = i - 1]

\* newIgnitionConverter returns.
ReturnInstance ==
  /\ ~built /\ ~Building /\ todo = {}
  /\ supportedVersions' = Sort(supportedVersions)
  /\ built' = TRUE
  /\ UNCHANGED <<converters, todo, stack, converterPaths, call, outcome>>

-----------------------------------------------------------------------------
(* Convert, on a config of the type that belongs to source.                *)

ConvertsToItself(source, target) ==
  /\ built /\ call = NoCall
  /\ source = target
  /\ outcome' = "converted"
  /\ UNCHANGED <<converters, todo, stack, converterPaths, supportedVersions, built, call>>

ConvertUnsupported(source, target) ==
  /\ built /\ call = NoCall
  /\ source # target /\ Tuple(source, target) \notin DOMAIN converterPaths
  /\ outcome' = "unsupported"
  /\ UNCHANGED <<converters, todo, stack, converterPaths, supportedVersions, built, call>>

ConvertStarts(source, target) ==
  /\ built /\ call = NoCall
  /\ source # target /\ Tuple(source, target) \in DOMAIN converterPaths
  /\ call' = [chain |-> converterPaths[Tuple(source, target)], type |-> source, target |-> target]
  /\ outcome' = "none"
  /\ UNCHANGED <<converters, todo, stack, converterPaths, supportedVersions, built>>

ConvertStep ==
  /\ call # NoCall /\ call.chain # <<>>
  /\ Head(call.chain).source = call.type
  /\ call' = [call EXCEPT !.chain = Tail(@), !.type = Head(call.chain).target]
  /\ UNCHANGED <<converters, todo, stack, converterPaths, supportedVersions, built, outcome>>

\* The loop breaks: the config is of another type, or cannot be expressed in
\* the older version.
ConvertFails(error) ==
  /\ call # NoCall /\ call.chain # <<>>
  /\ IF Head(call.chain).source # call.type THEN error = "wrong source type"
     ELSE Head(call.chain).fails /\ error = "untranslatable"
  /\ outcome' = error
  /\ call' = NoCall
  /\ UNCHANGED <<converters, todo, stack, converterPaths, supportedVersions, built>>

ConvertReturns ==
  /\ call # NoCall /\ call.chain = <<>>
  /\ outcome' = IF call.type = call.target THEN "converted" ELSE "converted to another version"
  /\ call' = NoCall
  /\ UNCHANGED <<converters, todo, stack, converterPaths, supportedVersions, built>>

Convert(source, target) ==
  \/ ConvertsToItself(source, target) \/ ConvertUnsupported(source, target)
  \/ ConvertStarts(source, target)

-----------------------------------------------------------------------------
(* Lookups: a version to the supported one with its major and minor.       *)

errIgnitionConverterUnknownVersion == <<>>

GetSupportedMinorVersion(version) ==
  LET minorVersion == <<version[1], version[2], 0>>
  IN  IF Contains(supportedVersions, minorVersion) THEN minorVersion
      ELSE errIgnitionConverterUnknownVersion

GetSupportedMinorVersions ==
  [i \in 1..Len(supportedVersions) |-> <<supportedVersions[i][1], supportedVersions[i][2]>>]

-----------------------------------------------------------------------------
Next ==
  \/ Registration
  \/ ReturnInstance
  \/ \E source, target \in ToSet(supportedVersions) : Convert(source, target)
  \/ ConvertStep \/ ConvertReturns
  \/ \E error \in {"wrong source type", "untranslatable"} : ConvertFails(error)

Spec == Init /\ [][Next]_vars

\* newIgnitionConverter runs to its end when the package is initialised.
FairSpec == Spec /\ WF_vars(Registration \/ ReturnInstance)

-----------------------------------------------------------------------------
(* Properties.                                                             *)

ToVersions == {conv.target : conv \in ToSet(converters)} \cup {conv.source : conv \in ToSet(converters)}

\* Calls and chains are made of the converters given.
MadeOfConverters ==
  /\ todo \subseteq ToVersions
  /\ \A i \in 1..Len(stack) : stack[i].version \in ToVersions /\ stack[i].next \in Nat
  /\ \A tuple \in DOMAIN converterPaths : converterPaths[tuple] \in Seq(ToSet(converters))
  /\ call.chain \in Seq(ToSet(converters))

\* The types, and the supported versions are exactly the sources and targets of
\* the converters.
TypeOK == MadeOfConverters /\ ToSet(supportedVersions) = ToVersions

\* Whatever a chain is registered under is what it does: it starts at the
\* source, ends at the target, each converter takes what the one before it
\* gives, and all go in one direction.
ChainsConnect ==
  \A tuple \in DOMAIN converterPaths :
    LET chain == converterPaths[tuple]
    IN  /\ chain # <<>>
        /\ PathTuple(chain) = tuple
        /\ \A i \in 1..(Len(chain) - 1) : chain[i].target = chain[i + 1].source
        /\ \A i \in 1..Len(chain) : IsUp(chain[i]) = IsUp(tuple)

\* The pairs some converters of one direction connect, step by step.
Steps(up) == {<<conv.source, conv.target>> :
                conv \in {c \in ToSet(converters) : IsUp(c) = up}}

\* Pairs that one more step leads to.
Joined(known, steps) ==
  {<<joint[1][1], joint[2][2]>> : joint \in {pair \in known \X steps : pair[1][2] = pair[2][1]}}

ConnectedBy(steps) ==
  LET reach[n \in Nat] == IF n = 0 THEN steps
                          ELSE reach[n - 1] \cup Joined(reach[n - 1], steps)
  IN  reach[Cardinality(ToVersions)]

\* Registration misses nothing and makes nothing up: when newIgnitionConverter
\* returns, the pairs it has a chain for are the ones connected upwards or
\* connected downwards, although a walk stops at every pair it already knows.
RegistersAllPairs ==
  [][~built /\ built' =>
       {<<tuple.source, tuple.target>> : tuple \in DOMAIN converterPaths}
         = ConnectedBy(Steps(TRUE)) \cup ConnectedBy(Steps(FALSE))]_vars

\* Convert never fails for a reason of its own: a chain is walked to its end
\* and gives the version asked for, or one of its translations refuses.  That is
\* why newConverterConversionPathFromExisting copies a chain before it extends it:
\* two chains that part ways must not share an array.
ConvertNeverMistyped ==
  outcome \notin {"wrong source type", "converted to another version"}

\* The registration ends, also where converters go round in a circle.
RegistrationEnds == <>built

=============================================================================
