# Verification of the swap operator

The swap operator watches `NodeSwap` objects and turns them into a
`MachineConfig` that lets the kubelets of an OpenShift cluster use swap. This
directory holds TLA+ models of its code, the TLC configurations that check them
on small instances, and TLAPS proofs of the facts that matter most.
`PROJECT.json` maps every definition to the lines it models.

## The system

| component | source | state | operations |
|---|---|---|---|
| NodeSwap controller | `internal/controller/nodeswap_controller.go` | `r.desiredNodeSwap`, `r.config`, `r.mcpReady`; at the API server the NodeSwaps and the one MachineConfig `99-swap-kubelet-cgroups` | `Reconcile`, `ReconcileSpec`, `ReconcileKubeletCgroups`, `ReconcileStatus`, `SetupWithManager` |
| label selector | same file | none | `parseLabelSelector` |
| render config | `internal/renderconfig/config.go` | none | `Create`, `render`, `generateName`, `MkswapSizeArg` |
| template rendering | `internal/template/render.go` | none (reads files) | `generateTemplateMachineConfigs`, `GenerateMachineConfigsForRole`, `GenerateMachineConfigForName`, `filterTemplates` |
| Ignition helpers | `internal/common/helpers.go` | none | `TranspileCoreOSConfigToIgn`, `MachineConfigFromRawIgnConfig`, `ParseAndConvertConfig`, `removeIgnDuplicateFilesUnitsUsers` |
| Ignition converter | `internal/common/ignition_converter.go` | `converterPaths`, `supportedVersions` | `newIgnitionConverter`, `recursiveConverterRegistration`, `Convert`, lookups of versions |
| API types | `api/v1alpha1` | the fields of a NodeSwap | none |
| process start | `cmd/main.go` | flags | sets up the manager |

**How they interact.** The manager's informers keep caches of NodeSwaps,
MachineConfigs and MachineConfigPools, fed by watch streams, and put requests on
a work queue. One worker (controller-runtime's default of one concurrent
reconcile) takes a request and calls `Reconcile`: it reads the NodeSwap from the
cache into `r.desiredNodeSwap`, `ReconcileSpec` renders the list of swaps, parses
the selector, looks at the pools and creates the MachineConfig when the cache has
none, and `ReconcileStatus` writes conditions back, to the server. An error, or a
panic controller-runtime recovers, is retried with a growing delay. The
MachineConfig's contents come from the templates, through the helpers, which use
the converter.

**What is hard.** The caches lag the server, so a reconcile works on a copy that
may be stale when its status is written; calls fail, or time out at the client
and take effect later, also after a successor of the process has taken over; the
process ends anywhere; several NodeSwaps share the worker and
the one MachineConfig; and progress depends on events that only some writes
cause (the second reconcile that turns Progressing into Available comes from the
operator's own status write; no event of the MachineConfig or of a pool ever
leads to a reconcile). In the pure parts the hard cases are the ends of `int64`,
lists that fail half way, texts with several colons, a recursive registration
in the random order of a Go map, and lists of duplicates of which the newest has
to win. `hazards` in `PROJECT.json` lists them with
their lines.

**What makes each component correct.** The controller: statuses that are one
verdict, deserved by the spec beside them; nobody forgotten; good specs settle,
bad ones are reported; the MachineConfig is made once and comes back. Render
config: all or nothing, exact sizes, refused only with a reason. Templates: who
wins among templates of one name or one path, nothing from a tree that is broken
somewhere, and the same for all roles that use one directory. Selector: it means what its
grammar says. Converter: the registered pairs are the connected ones, chains fit,
the registration ends. Ignition helpers: removing duplicates keeps the newest and
loses nothing else, and a config is refused only for its own sake.

## Modules

| module | models |
|---|---|
| `NodeSwapController` | the controller with server, watch streams, caches, queue and environment; extends `RenderConfig` and `LabelSelector` |
| `NodeSwapProperties` | its invariants, contract, liveness, and the promises of comments it breaks |
| `SwapOperatorContract` | the abstract specification: what users may rely on, without caches, queues, revisions or faults |
| `NodeSwapProofs` | the theorems about types, copies and statuses of the controller |
| `NodeSwapWakeupProofs` | that no NodeSwap is forgotten; extends `NodeSwapProofs` |
| `NodeSwapContractProofs` | that the controller implements the contract; extends `NodeSwapProofs` |
| `RenderConfig` | `renderconfig/config.go` as operators |
| `CreateLoop` | the loop of `Create` as a state machine |
| `SelectorText` | the grammar a selector is held to, on every text; extends `LabelSelector` |
| `NodeSwapSpecProofs` | the theorems about `CreateLoop` and `SelectorText` |
| `TemplateRender` | `GenerateMachineConfigForName` with `filterTemplates`, `renderTemplate`, `existsDir` and `TranspileCoreOSConfigToIgn` |
| `TemplateLoops` | the loops over roles and names around it; extends `TemplateRender` |
| `TemplateProofs` | that MachineConfigs come from trees read whole, and roles share them |
| `PrecedenceProofs` | which template wins; extends `TemplateProofs` |
| `LabelSelector` | `parseLabelSelector` |
| `IgnitionConverter` | the converter: registration as a stack of calls, `Convert`, and the lookups of versions |
| `IgnitionConfig` | `ParseAndConvertConfig`: parsing, removal of duplicates, and the converter's steps on the config; extends `IgnitionConverter` |
| `IgnitionConverterProofs` | the theorems about chains, their registration and `Convert`, under the steps of both |
| `IgnitionConfigProofs` | the supported versions, the removal of duplicates, and refused configs; extends `IgnitionConverterProofs` |
| `MC*` | constants for TLC |

Definitions whose comment starts with "Mutant:" are plausible bugs, one for each
property; nothing uses them in the specifications.

### NodeSwapController

*Server*: `nodeswap`, `kubeletMC` (labels of the MachineConfig), `pool`, and the
revision counter `rev`. *Informers*: a first-in-first-out watch stream and a
cache for each kind. *Queue*: `queue` holds the ready requests (the work queue
keeps each once), `backoff` the ones the rate limiter holds back. *Worker*: `pc`
(`idle`, `spec`, `kubelet`, `create`, `status`), `req`, `reconcileErr`, `desired`
and `mcpReady`. *Late calls*: `lateStatus` and `lateCreate` hold calls whose
sender waits no more. `deployed` and `submitted` are history.

A reconcile is cut where it reads a cache or calls the server:

| step of the code | actions |
|---|---|
| `r.Get` of the NodeSwap (81) | `ReconcileStarts`, `ReconcileIgnores`, `ReconcileGetFails` |
| `ReconcileSpec` to the pools (228-282) | `SpecPanics`, `SpecDoesNotRender`, `ListPoolsFails`, `SelectorDoesNotParse`, `SpecIsAccepted` |
| `r.Get` of the MachineConfig (175) | `KubeletMCIsCached`, `KubeletMCIsMissing`, `GetKubeletMCFails` |
| `r.Create` (179-219) | `CreatesKubeletMC`, `KubeletMCAlreadyExists`, `KubeletMCIsRefused`, `CreateKubeletMCFails`, `CreateTimesOut` |
| `ReconcileStatus` and the return (107-161, 94-104) | `StatusIsUpdated`, `StatusIsRefused`, `StatusUpdateFails`, `StatusTimesOut` |

The environment creates, edits and deletes NodeSwaps, deletes the MachineConfig
and changes pools; `Restart` ends the process anywhere and starts a new one.

A call that times out (`CreateTimesOut`, `StatusTimesOut`), and one the old
process sent before `Restart`, goes into the set of late calls. It takes effect
at any later time or never (`LateCreateArrives`, `LateStatusArrives`), and the
server then treats it as it would have at once: it refuses an outdated revision
and a name that is taken. A lost answer is the case where it arrives before
anything else happens. A process that has lost its lease and not yet noticed can
do harm only through such calls, so `Restart` with one on its way also stands for
a change of the leader (`cmd/main.go:174`).

What the model abstracts: a condition's message is the kind of error it quotes;
the MachineConfig is its label map, since nothing else of it depends on the
NodeSwap; a template that does not render is one of the ways
`CreateKubeletMCFails` (`TemplateRender` has that step in full); `r.config` is left out because nothing reads it. The
server refuses labels with a blank or a colon in key or value. An update that
changes nothing makes no revision and no event, as at the API server. `Resync`
is the informers' replay of everything they hold; it reaches NodeSwaps too, which
is what repairs a deleted MachineConfig.

### RenderConfig and CreateLoop

Quantities are counted in steps of 1/`Frac` byte and remember whether the parser
kept them as scaled `int64` or as decimal, because `Value` treats the two
differently when they do not fit. `Half` stands for 2^63 and `Ki` for 1024, so
small numbers reach every unit and every overflow. `Create` is one expression;
`CreateLoop` is the loop as written, and `ReturnsCreate` says that they agree.

### TemplateRender

One call of `GenerateMachineConfigForName` as a state machine: the platform
directories, the subdirectories in turn, one step for each template file
(`EmptyTemplate`, `BlankTemplate`, `TextTemplate`, `BrokenTemplate`), one for
each text that is transpiled and merged. `ReadFails` is any failing read of the
file system, which does not change during the call. A text is the entry it
describes, a key with the attributes it sets; `ign3.Merge`, which is vendored, is
modelled attribute by attribute: an entry of the same key keeps its place and
what the new one does not set. The one list inside a file that a merge
concatenates, `append`, is in the model an attribute of its own for each text that
appends, so that nothing is lost in a merge and nothing replaced; the order within
that list is left out. The reference in `PrecedenceByName` has neither
maps nor merges: of the files of one name the last that is empty or renders to
something decides, and each attribute of a path comes from the greatest name that
sets it. Two things the model makes plain: a role's template that renders to
nothing does *not* override the common one of its name, only an empty file does;
and a directory that is missing altogether gives an empty MachineConfig, not an
error.

`TemplateLoops` adds the loops of `generateTemplateMachineConfigs` and
`GenerateMachineConfigsForRole`, which the operator does not call. Its behaviours
start either with one call, as the operator makes it, or with a whole template
directory. `RolesShareTemplates` holds the loops to what they say of custom
roles: these get what the workers get, name by name, or, when one name of one role
fails, nobody gets anything, whatever was already in the list. It asks nothing of
`common`: the comment at `render.go:84` says that the function "doesn't process
common" and that "common templates are only added to 00-<role>", while in the code,
and in the model, `generateTemplateMachineConfigs` takes the directory `common` for
a custom role, and common templates go into every name.

### IgnitionConverter

A converter is its pair of versions and whether its translation can fail; a
config is the version of its Go type. `recursiveConverterRegistration` is a stack
of frames; `VisitVersion` picks any source version not yet visited, as the range
over a map does.

A chain is a Go slice, and `append` writes into the array of the slice it is given
when there is room. `Capacity` is the room of the array that
`newConverterConversionPathFromExisting` appends to, `SharesArray` tells which
registered chains lie in that array, and `Written` is what the append leaves of
them. The code appends to a copy that is made exactly as long as the path, so no
chain shares it; without the copy (`GrownCapacity`) the second of two chains that
continue one path overwrites the first, and `ConvertNeverMistyped` and
`ChainsConnect` both break.

### IgnitionConfig

A config has a version, three lists (files, units with dropins, users with keys),
the versions whose Go types its JSON fits (`reads`) and two bits: whether it is
valid to its parser and whether version 3 can express it apart from duplicates.
`Contents` is what an entry may have in it; in the run it is positions in the raw
config, so that who won is visible. The parsers and the translators' check for
duplicates are vendored and modelled from that code. A parser of version 2 hands
what it cannot unmarshal, or finds older than itself, to the parser before it
(`ParseOwn`), down to the first version's, whose answer is the final one: so a 2.2
config with a mistyped value is refused as of an "unknown version" (run
`unknown_version`), and `RefusedForItsOwnSake` excepts just those configs
(`Mistyped`). The translators take two spellings of one path for one inode; that a
file shares its path with a directory or a link counts as not expressible.
`removeIgnDuplicateFilesUnitsUsers` is one
step; each of its loops is a recursive function of the entries so far, from the
end as in the code; the conversion
that follows is the converter's own steps, with the registration it was left
with. `NewestWins` compares the lists with a definition without loops.

## Runs

All passing runs check deadlock except where a computation simply ends
(`nodeswap_spec`, `template_render`).

| run | bounds | what it shows |
|---|---|---|
| `safety` | 2 NodeSwaps (symmetric), 4 specs, 2 edits, 1 fault | `TypeOK`, `OneVerdict`, `NoLostWakeup`, `StatusExplained` |
| `liveness` | 1 NodeSwap, all 6 specs, 2 edits, 1 fault | `KeepsContract` (refinement of `SwapOperatorContract`), `GoodSpecSettles`, `BadSpecIsReported` |
| `resync` | 1 NodeSwap, 1 pool, 3 edits | `MachineConfigComesBack`, `PoolReadinessCatchesUp` |
| `nodeswap_spec` | lists of up to 3 swaps of 7 kinds; single file swaps of every size from -1 to 40 bytes in half bytes, `int64` ending at 15; every selector of up to 5 tokens | `ReturnsCreate`, `SizesExact`, `ParsesAsKeyValue` |
| `template_render` | every pair of a common and a role directory with up to 2 templates each out of 10 (3 names, 2 paths, 2 attributes and what is appended; empty, conditional, broken, invalid), then units and extensions, then missing directories and files in their place; template directories with 2 to 3 roles of 2 names and 6 kinds of contents; both values of the flag | `PrecedenceByName`, `AllOrNothing`, `RolesShareTemplates` |
| `ignition_config` | the repository's list of converters; every list of up to 3 converters between 3 versions; configs of 9 versions, of one that is no version and of one that cannot be read, well typed or mistyped for some or all versions, and of 2.2 every list of up to 3 files, units (with up to 2 dropins) or users (with up to 2 keys) | `TypeOK`, `ChainsConnect`, `RegistersAllPairs`, `ConvertNeverMistyped`, `RegistrationEnds`, `NewestWins`, `RefusedForItsOwnSake` |

Why the bounds are enough: there are six specs, one for each way `ReconcileSpec`
can end (good, good with another label, selector that does not parse, label the
server refuses, size that does not render, panic). `liveness` takes them all;
`safety` leaves out the other good label and the selector (another error of the
spec, treated like the size). Two edits and one fault give create-then-edit,
create-then-delete and delete-then-create around a reconcile with a late call or a
restart in it, and the deletion of the MachineConfig after the NodeSwap was made;
longer histories are the proofs'. Two NodeSwaps are all
that share a worker pairwise. With `Ki` = 2 and `int64` up to 15 every unit,
every remainder and both kinds of overflow occur. Lists of three converters
contain every shape with a cycle, a detour and a duplicate. Of three entries two
can share a name around or beside a third, and a dropin can come from two units
at once or twice from one.

**Fairness.** Watch streams and rate limiter make progress (weak fairness); the
worker does not stop inside a reconcile (weak fairness of its steps); a queued
request is started in the end: strong fairness for each request, because other
requests may be in front again and again and the work queue is first in, first
out. Nothing is assumed of users, faults, late calls or restarts. `resync` adds weak fairness
of the informers' timer, ten hours by default. All faults are bounded by
`MaxFaults`, so liveness is what holds once faults stop.

**Runs that show a disagreement** between the code and its comments or types
(`findings` in `PROJECT.json`):

| run | promise | what the code does |
|---|---|---|
| `status_always_updated` | "Always update status with the result" | a file swap without its file section panics before the status |
| `available_is_deployed` | Available is "fully functional", on the machines selected | an existing MachineConfig keeps its labels when the selector changes |
| `sizes_converted` | converts the quantity | a decimal past `int64` wraps |
| `file_swaps_enabled` | the flag the template asks for | it is overwritten on the next line |
| `duplication_removed` | "outFiles and outUnits should now have all duplication removed" | a dropin that one unit has twice stays twice |
| `unknown_version` | "If the error is still UnknownVersion it's not a 3.3/3.2/3.1/3.0 or 2.x config" | a mistyped 2.2 config falls through to the parser of version 1, which says `ErrUnknownVersion` |

Six more disagreements are plain from the text and the model and have no run:
the condition type is spelled `Availabe` (`nodeswap_controller.go:46`; the types
document `Available`), `r.mcpReady` is computed and never read (280), so Available
does not wait for the pools, and a size that is no multiple of 1024 is refused
(`config.go:139`) where the comment above it promises raw bytes; the directory
`common` is processed like a role, and common templates go into every name of a
role (above); and where the newest unit of a name has
only dropins, the contents of an older one are dropped, which does "change the
actual final behaviour" (`helpers.go:186`). Seen on the way
and not modelled: the image copies the contents of `templates`
to `/` (`Dockerfile:29`) while `main` expects the directory `/templates`
(`cmd/main.go:84,97`), and no manifest passes `--template-dir`.

## Proofs

Every theorem holds for every value of the constants that satisfies the
assumptions named in the modules. These say that bounds are naturals, that names
of NodeSwaps and pools are disjoint and `NoObject` is no object
(`NoObjectAssumption`), that a list of swaps is a sequence whose file sections
hold quantities (`SwapListsAssumption`), that a list of converters is a sequence
of converters (`ConvertersAssumption`), that a raw config has the fields and lists
of one (`RawConfigsAssumption`), and that a walk of a template directory is a
sequence of files with a name and a kind (`TreesAssumption`) and a listing of
`os.ReadDir` has a name once (`TemplateDirsAssumption`).

What loops compute is proved by induction over their rounds. The provers cannot
instantiate an induction theorem that takes an operator, so `SetInduction` states
induction for a *set* of numbers, from the well-foundedness of `<`, and
`Recursion` shows with it that a recursive function of the rounds exists and has
its values; each loop is then one lemma about a round and one set of numbers
(`IgnitionConverterProofs`).

**The controller** (`NodeSwapProofs`), for any sets of NodeSwaps, specs and pools
and any bounds:

- `TypeCorrect`: `Spec => []TypeOK`.
- `CopiesAreFaithful`: `Spec => []CopiesFaithful`. A copy with the revision the
  server holds *is* what the server holds, and no copy is newer than the server.
  It is inductive together with `TypeOK`: a write makes a revision no copy has
  yet, delivery and reads only move copies around.
- `StatusIsOneVerdict`: `Spec => []OneVerdict`, from a case analysis of
  `StatusFor` over every list of conditions and of how a step can change a
  NodeSwap (`NodeSwapChanges`).
- `StatusIsExplained`: `Spec => StatusExplained`, an action property. It needs the
  strengthening `TypeOK /\ CopiesFaithful /\ SeenMeansDeployed /\ ResultEarned`:
  what a reconcile has found out fits the spec in its copy, also once the copy
  travels in a late call (`ResultEarned`); who
  sees a MachineConfig sees one that was deployed (`SeenMeansDeployed`); and when
  the server takes the status update, the copy is the server's object
  (`CopiesFaithful`), so what fits the one fits the other.

**Nobody is forgotten** (`NodeSwapWakeupProofs`). `NoLostWakeup` alone is not
inductive: a reconcile that ends without asking for another must have worked on
the newest object, or the newest must still be on its way.

- `NewestObjectArrives`: `Spec => []NewestArrives`. The last event of a NodeSwap on
  the stream, and without one its cache entry, is the server's object.
- `NobodyIsForgotten`: `Spec => []NoLostWakeup`, from `NewestArrives` and the
  invariants above. A status update the server takes either makes a new revision,
  whose event is on the stream, or writes nothing because the NodeSwap already
  has that verdict; a reconcile that finds no NodeSwap in the cache ends rightly
  or with the newest object's event on its way; every other end of a reconcile
  puts its request back, and a new process lists all NodeSwaps.

**The contract** (`NodeSwapContractProofs`): `OperatorKeepsContract` is
`Spec => KeepsContract`, the refinement of `SwapOperatorContract`. Initial states
map to initial states; `ServerSteps` reduces the steps of the operator to the
few that write what the contract speaks of, and each of these is matched with
its step of the contract. `MadeFromSubmitted` (whatever labels are deployed, on
their way or about to be, come from a spec a user submitted) and `ResultEarned`
give the guards of the contract's steps.

**Render config and selector** (`NodeSwapSpecProofs`), for lists of any length, any
factor between the units and any width of `int64`. `LoopInv` says that the configs
so far are those of the swaps up to `idx`, all of which rendered, and that an
error is some swap's.

- `LoopReturnsCreate`: `Spec => []ReturnsCreate`. The swap at which the loop stops
  is the least one that fails (`FirstFailure`).
- `SizesAreExact`: `Spec => []SizesExact`. What the choice of a unit gives every
  quantity that fits (`ExactSize`); and a list is refused for a swap of an unknown
  type, or of a size that is not positive, not in whole `Ki` or past `int64`
  (`RefusedSize`, `RefusedSwap`).
- `SelectorsMeanKeyValue`: `TextSpec => []ParsesAsKeyValue`, for texts of any length
  over any words. `AcceptedReads` shows that an accepted text can be read as its
  label, since what `TrimSpace` leaves is trimmed and was padded in the text
  (`TrimLeavesPart`); `ReadIsParsed` that no reading leads to another label, since
  trimming takes the padding off again (`TrimsPadding`) and a key has no colon.

**The converter** (`IgnitionConverterProofs`), for every list of converters and
every order of the range over Go's map, under the calls of `Convert` and of
`ParseAndConvertConfig`. The invariant `ConfigInv` says of every frame of the
recursion that its path is linked, goes one way and ends at the frame's version
(`StackInv`), the same of every registered chain (`ChainsInv`), and of a call of
`Convert` that what is left of its chain leads from the type the config has by
now to the version asked for (`CallInv`).

- `ChainsAlwaysConnect`: `ConfigSpec => []ChainsConnect`.
- `ConvertGivesTheTarget`: `ConfigSpec => []ConvertNeverMistyped`. For both,
  `RegistersOneChain` shows that an append writes no chain but the new one.
- `RegistersEveryPair`: `ConfigSpec => RegistersAllPairs`, an action property. The
  walk stops at every pair it knows, so that each pair is continued once; `WalkInv`
  says why this loses nothing. Of every known pair, all converters that continue it
  lead to known pairs, or a call is at it (`PairsInv`); every version was started
  from, or a call is at it, or it is still to be visited (`VersionsInv`); and a call
  has seen to all converters before its position (`DoneSoFar`). With the stack
  empty the known pairs are closed under one more step, so they contain
  everything connected (`ConnectedKnown`, by induction over the steps). For the
  other half a registered chain comes to no version twice (`Simple`), so it is no
  longer than there are versions (`SimpleIsShort`), which is as far as
  `ConnectedBy` goes.

**Ignition configs** (`IgnitionConfigProofs`), for all raw configs, whatever their
length. Most of the module is about the loops of
`removeIgnDuplicateFilesUnitsUsers`: `AppendAllFacts` (a list keeps what it had
and gets the first entry of every new name), `UnitsGathered` and `DropinsGiven`
(what all units of a name give is what its newest should be left with), `Deduped`
and `KeysJoint` (each key once, those of newer users first). The invariant
`PackageInv` adds to `ConfigInv` and `WalkInv` what the supported versions are
before and after they are sorted (`SupportedInv`), what each stage works on
(`StageInv`: the config in conversion is the raw one without its duplicates), and
what each refusal goes back to (`ResultInv`).

- `SupportsWhatItConverts`: `ConfigSpec => []TypeOK`. Sorting is by rank in the total
  order of versions, so it neither loses nor makes up one (`SortSupported`).
- `RemovalKeepsTheNewest`: `ConfigSpec => []NewestWins`.
- `ConfigsAreRefusedForTheirOwnSake`: `ConfigSpec => []RefusedForItsOwnSake`. That
  nothing is found "unsupported" needs `WalkInv`: with the stack empty, the list of
  the repository leads from 2.2 step by step to a chain to 3.5. That nothing panics, at the type
  assertion after `Convert` (`helpers.go:331`) or at the source check of a
  converter, is part of `ConfigInv`. What the translation refuses goes back
  from the cleaned config to the raw one (`CleanedExcused`). An unknown version
  is the answer of the parser of the first version or of one that the version is
  too new for, so it is not supported, or a 2.2 config did not fit its types.

**Templates** (`TemplateProofs`), for every tree and through any number of calls
of the loops. `ConfigsComeWhole` is `LoopSpec => []AllOrNothing`. The invariant
cuts the files of each kind into those read and those left (`KindInv`); of the
former none is broken, and the map `found` holds for each name the text of the
file with the last word (`Reflects`). Once the walk is over nothing is left
(`ReadWhole`), and every text of `found` is valid or its turn to be transpiled is
yet to come (`PendingInv`).

`RolesAlwaysShare` is `LoopSpec => []RolesShareTemplates`. First, the result of a call
is determined by its tree and the config: `found` is the one map that reflects the
files (`OneMap`), and the rounds of the transpilation that start from nothing exist
and end in one way (`Makes`), which `CallMadeInv` carries through the walk, the
transpilation and the return; `SpecOf(spec, tree)` then holds for one `spec`
(`OneSpec`). Second, `RolesInv` follows the loops: the pairs of a role and a name
that are made and those still to come are together the ones needed, and no pair is
both (`PairsInv`); each MachineConfig is what the tree of its role and name makes
(`CfgsInv`). A listing has a name once, so roles of one directory call for a name
on one tree (`OneTree`). A call that fails leaves the loops with an empty list.

`PrecedenceProofs` adds `GreatestNameWins`, `LoopSpec => []PrecedenceByName`. Its
invariant `TranspileInv` names the texts still to transpile by a list of names
`left`: they are in the order of names, every name that is done is less than
those left of its kind (`InOrder`), and the list so far is what merging the names
done has to give (`Merged`): one entry for each key, in the order of the first
names, with every attribute some name sets, from the greatest of them.
`OneMoreMerged` shows that `Merge` keeps this when the entry of a greater name
comes, be its key new or old; `NamesSorted` that sorting gives every name once, in
order (the ranks of the names are an injection into, so a surjection onto, the
numbers below their count); `ListByPrecedence` translates `Merged` into the
reference's terms, by `Reflects`.

**Only model-checked.** Liveness under fairness (`GoodSpecSettles`,
`BadSpecIsReported`, `MachineConfigComesBack`, `PoolReadinessCatchesUp`,
`RegistrationEnds`), which the prover does not handle. Every invariant and every
action property of the passing runs is a theorem.

## Not modelled

Flags, certificates, probes and the leader election itself, which `main` hands to
controller-runtime; what a translation does to the contents of an Ignition
config, and what the parsers find valid (vendored libraries); the text functions `strval` and `indent` of
the templates; generated code, manifests and test helpers.

## Plan

1. Done: the controller with its properties, contract, late calls and theorems;
   render config; templates with their loops; selector; converter; Ignition
   configs; the theorems above.
2. Compose `TemplateRender` with `IgnitionConverter` (each text passes through
   `Convert` from 3.0 to 3.5) and with `Create` (the configs it is rendered with).
