---------------------------- MODULE IgnitionConfig ----------------------------
(***************************************************************************)
(* ParseAndConvertConfig of internal/common/helpers.go on top of the       *)
(* converter: a raw Ignition config of any version is parsed, a version 2  *)
(* config has its duplicates removed, and the converter takes it to 3.5.   *)
(*                                                                         *)
(* An entry of a list has a name: of a file, its path.  With contents that *)
(* differ between the entries of a raw config it is visible who won.       *)
(***************************************************************************)
EXTENDS IgnitionConverter

CONSTANTS
  Contents,     \* what a file, a unit or a dropin may have in it
  RawConfigs    \* the raw configs considered

v1  == <<1, 0, 0>>
v20 == <<2, 0, 0>>
v21 == <<2, 1, 0>>
v22 == <<2, 2, 0>>
v35 == <<3, 5, 0>>

\* A version that is no semver, and JSON in which no version can be read.
NoVersion  == <<>>
Unreadable == <<0>>

\* A config: its ignition.version, the versions whose Go types its JSON can be
\* unmarshalled into, valid to the parser of its version, expressible in version
\* 3 but for its duplicates, and its lists.
Config(version, reads, valid, expressible, files, units, users) ==
  [version |-> version, reads |-> reads, valid |-> valid, expressible |-> expressible,
   files |-> files, units |-> units, users |-> users]

NoConfig == Config(NoVersion, {}, FALSE, FALSE, <<>>, <<>>, <<>>)

File   == [name : STRING, inode : STRING, contents : Contents]
Dropin == [name : STRING, contents : Contents]
Unit   == [name : STRING, contents : Contents, dropins : Seq(Dropin)]
User   == [name : STRING, keys : Seq(STRING)]

RawConfig ==
  [version : Version \cup {NoVersion, Unreadable}, reads : SUBSET Version,
   valid : BOOLEAN, expressible : BOOLEAN,
   files : Seq(File), units : Seq(Unit), users : Seq(User)]

ASSUME RawConfigsAssumption == RawConfigs \subseteq RawConfig

VARIABLES
  stage,     \* where ParseAndConvertConfig is
  raw,       \* what it was given
  config,    \* the version 2 config it works on
  result     \* what it returns

configVars == <<stage, raw, config, result>>
allVars    == <<vars, configVars>>

ConfigInit == Init /\ stage = "idle" /\ raw = NoConfig /\ config = NoConfig /\ result = "none"

-----------------------------------------------------------------------------
(* IgnParseWrapper.                                                        *)

\* ign3.ParseCompatibleVersion looks at the version first.  Here and below a fatal
\* report comes with an error, and ErrInvalid stands for the errors that
\* IgnParseWrapper does not tell apart.
ParseV3(c) ==
  IF c.version = Unreadable THEN "ErrInvalid"
  ELSE IF c.version = NoVersion THEN "ErrInvalidVersion"
  ELSE IF c.version \notin {<<3, minor, 0>> : minor \in 0..5} THEN "ErrUnknownVersion"
  ELSE IF c.version \in c.reads /\ c.valid THEN "ok" ELSE "ErrInvalid"

\* A parser of version 2 first unmarshals into its own types.  What does not fit,
\* or is older, is left to the parser before it, whose answer is older.
ParseOwn(c, own, older) ==
  IF own \notin c.reads \/ Precedes(c.version, own) THEN older
  ELSE IF c.version # own THEN "ErrUnknownVersion"
  ELSE IF c.valid THEN "ok" ELSE "ErrInvalid"

\* The first version is told by a field of its own, ignitionVersion, that a
\* config with an ignition.version does not have.
ParseV1(c)   == IF v1 \in c.reads THEN "ErrUnknownVersion" ELSE "ErrInvalid"
ParseV2_0(c) == ParseOwn(c, v20, ParseV1(c))
ParseV2_1(c) == ParseOwn(c, v21, ParseV2_0(c))

\* ign2.Parse.
ParseV2(c) == ParseOwn(c, v22, ParseV2_1(c))

IgnParseWrapper(c) ==
  CASE ParseV3(c) = "ok"                 -> "v3"
    [] ParseV3(c) = "ErrInvalidVersion"  -> "invalid version"
    [] ParseV3(c) = "ErrUnknownVersion"  ->
         CASE ParseV2(c) = "ok"                -> "v2"
           [] ParseV2(c) = "ErrUnknownVersion" -> "unknown version"
           [] OTHER                            -> "spec v2 failed"
    [] OTHER                             -> "spec v3 failed"

-----------------------------------------------------------------------------
(* removeIgnDuplicateFilesUnitsUsers: the lists are walked from the end.   *)

Has(list, name) == \E i \in 1..Len(list) : list[i].name = name

AppendNew(list, entry) == IF Has(list, entry.name) THEN list ELSE Append(list, entry)

\* Entry by entry, those of a name that is not there.
AppendAllNew(list, entries) ==
  LET out[n \in 0..Len(entries)] == IF n = 0 THEN list ELSE AppendNew(out[n - 1], entries[n])
  IN  out[Len(entries)]

\* Mutant: the lists are walked from the start.
FirstFiles(files) == AppendAllNew(<<>>, files)

outFiles(files) == AppendAllNew(<<>>, Reverse(files))

\* Mutant: dropins are appended without a look at the ones there.
AllDropins(existing, dropins) == existing \o dropins

NewDropins(existing, dropins) == AppendAllNew(existing, dropins)

\* The newest unit of a name is kept, and older ones give it their dropins.
WithUnit(out, unit) ==
  IF Has(out, unit.name)
  THEN [j \in 1..Len(out) |->
          IF out[j].name = unit.name
          THEN [out[j] EXCEPT !.dropins = NewDropins(@, unit.dropins)]
          ELSE out[j]]
  ELSE Append(out, unit)

outUnits(units) ==
  LET out[n \in 0..Len(units)] == IF n = 0 THEN <<>> ELSE WithUnit(out[n - 1], Reverse(units)[n])
  IN  out[Len(units)]

CoreUsersOnly(users) == \A i \in 1..Len(users) : users[i].name = "core"

dedupePasswdUserSSHKeys(keys) ==
  LET known[n \in 0..Len(keys)] == IF n = 0 THEN <<>> ELSE AppendOnce(known[n - 1], keys[n])
  IN  known[Len(keys)]

\* The keys of all users, newest user first.
SSHAuthorizedKeys(users) ==
  LET keys[n \in 0..Len(users)] == IF n = 0 THEN <<>> ELSE keys[n - 1] \o Reverse(users)[n].keys
  IN  keys[Len(users)]

\* The newest user, with the keys of all of them.
outUsers(users) ==
  IF users = <<>> THEN <<>>
  ELSE <<[users[Len(users)] EXCEPT !.keys = dedupePasswdUserSSHKeys(SSHAuthorizedKeys(users))]>>

-----------------------------------------------------------------------------
(* The translation from 2.2: the vendored v23tov30 refuses duplicates,     *)
(* where it takes two spellings of a path for one inode, and what version  *)
(* 3 has not.  That a file shares its path with a directory or a link is   *)
(* part of expressible: the code here neither makes nor mends that.        *)

Repeats(list) == \E i, j \in 1..Len(list) : i # j /\ list[i].name = list[j].name

HasDuplicates(c) ==
  \/ \E i, j \in 1..Len(c.files) : i # j /\ c.files[i].inode = c.files[j].inode
  \/ Repeats(c.units)
  \/ \E i \in 1..Len(c.units) : Repeats(c.units[i].dropins)

Translatable(c) == c.expressible /\ ~HasDuplicates(c)

-----------------------------------------------------------------------------
(* ParseAndConvertConfig.                                                  *)

Finish(how) == stage' = "done" /\ result' = how

\* The package's own converter is there.
Ready == stage = "idle" /\ built /\ call = NoCall /\ converters = buildConverterList

ConfigIsParsed(c) ==
  /\ raw' = c
  /\ IF IgnParseWrapper(c) = "v2"
     THEN stage' = "parsed" /\ config' = [c EXCEPT !.version = v22] /\ UNCHANGED result
     ELSE Finish(IgnParseWrapper(c)) /\ UNCHANGED config
  /\ outcome' = "none"
  /\ UNCHANGED <<converters, todo, stack, converterPaths, supportedVersions, built, call>>

removeIgnDuplicateFilesUnitsUsers ==
  /\ stage = "parsed"
  /\ IF CoreUsersOnly(config.users)
     THEN /\ config' = [config EXCEPT !.files = outFiles(@), !.units = outUnits(@),
                                      !.users = outUsers(@)]
          /\ stage' = "convert" /\ UNCHANGED result
     ELSE Finish("unexpected user") /\ UNCHANGED config
  /\ UNCHANGED <<vars, raw>>

\* The converter's own steps, on this config.
ConfigConversionStarts ==
  /\ stage = "convert"
  /\ IF Tuple(config.version, v35) \in DOMAIN converterPaths
     THEN ConvertStarts(config.version, v35) /\ stage' = "converting" /\ UNCHANGED result
     ELSE ConvertUnsupported(config.version, v35) /\ Finish("unsupported")
  /\ UNCHANGED <<raw, config>>

ConfigIsTranslated ==
  /\ stage = "converting"
  /\ ConvertStep
  /\ call.type = v22 => Translatable(config)
  /\ UNCHANGED configVars

ConfigIsRefused(error) ==
  /\ stage = "converting"
  /\ ConvertFails(error)
  /\ error = "untranslatable" => ~Translatable(config)
  /\ Finish(error)
  /\ UNCHANGED <<raw, config>>

\* convertedIgnV3.(ign3types.Config) panics on any other type.
ConfigIsConverted ==
  /\ stage = "converting"
  /\ ConvertReturns
  /\ Finish(IF call.type = v35 THEN "v3" ELSE "panic")
  /\ UNCHANGED <<raw, config>>

ConfigIsReturned ==
  /\ stage = "done"
  /\ stage' = "idle" /\ raw' = NoConfig /\ config' = NoConfig /\ result' = "none"
  /\ outcome' = "none"
  /\ UNCHANGED <<converters, todo, stack, converterPaths, supportedVersions, built, call>>

ParseAndConvertConfig ==
  \/ Ready /\ \E c \in RawConfigs : ConfigIsParsed(c)
  \/ removeIgnDuplicateFilesUnitsUsers
  \/ ConfigConversionStarts \/ ConfigIsTranslated \/ ConfigIsConverted
  \/ \E error \in {"wrong source type", "untranslatable"} : ConfigIsRefused(error)
  \/ ConfigIsReturned

ConfigNext ==
  \/ stage = "idle" /\ Next /\ UNCHANGED configVars
  \/ ParseAndConvertConfig

ConfigSpec == ConfigInit /\ [][ConfigNext]_allVars

\* newIgnitionConverter runs to its end when the package is initialised.
FairConfigSpec ==
  ConfigSpec /\ WF_allVars((Registration \/ ReturnInstance) /\ UNCHANGED configVars)

-----------------------------------------------------------------------------
(* Properties.                                                             *)

\* The entry at i is the last of its name.
Newest(list, i) == \A j \in (i + 1)..Len(list) : list[j].name # list[i].name

\* A unit gives up a dropin to the newest unit of its name: that is the unit
\* itself, or nothing newer has a dropin of the name and the unit none before it.
GivesUp(units, i, n) ==
  LET dropin == units[i].dropins[n]
  IN  \/ Newest(units, i)
      \/ /\ \A j \in (i + 1)..Len(units) :
              units[j].name = units[i].name => ~Has(units[j].dropins, dropin.name)
         /\ ~Has(SubSeq(units[i].dropins, 1, n - 1), dropin.name)

\* What a unit name should be left with.
DropinsOf(units, name) ==
  UNION {{units[i].dropins[k] : k \in {n \in 1..Len(units[i].dropins) : GivesUp(units, i, n)}} :
         i \in {j \in 1..Len(units) : units[j].name = name}}

NewestFilesAndUnits ==
  /\ ~Repeats(config.files)
  /\ ToSet(config.files) = {raw.files[i] : i \in {j \in 1..Len(raw.files) : Newest(raw.files, j)}}
  /\ ~Repeats(config.units)
  /\ {[unit EXCEPT !.dropins = ToSet(@)] : unit \in ToSet(config.units)}
       = {[raw.units[i] EXCEPT !.dropins = DropinsOf(raw.units, raw.units[i].name)] :
            i \in {j \in 1..Len(raw.units) : Newest(raw.units, j)}}

\* The newest user that has a key.
NewestWith(users, key) == CHOOSE i \in 1..Len(users) :
  /\ Contains(users[i].keys, key)
  /\ \A j \in (i + 1)..Len(users) : ~Contains(users[j].keys, key)

AllKeysOnce ==
  \A i \in 1..Len(config.users) :
    LET keys == config.users[i].keys
    IN  /\ i = 1
        /\ ToSet(keys) = UNION {ToSet(user.keys) : user \in ToSet(raw.users)}
        /\ \A a, b \in 1..Len(keys) :
             a < b => /\ keys[a] # keys[b]
                      /\ NewestWith(raw.users, keys[a]) >= NewestWith(raw.users, keys[b])

\* Removing duplicates loses nothing else: of the entries of one name the newest
\* is what is left, an older unit loses only dropins that a newer unit of its name
\* has too, and of a dropin it repeats itself all but the first, and no SSH key
\* goes missing or comes twice.
NewestWins == stage \in {"convert", "converting"} => NewestFilesAndUnits /\ AllKeysOnce

\* No config meets a converter for another version than its own, and what a
\* conversion returns is of the type that ParseAndConvertConfig asserts.
NeverPanics == result \notin {"wrong source type", "panic"}

\* A version 2.2 config with a value of another type than the version's.
Mistyped(c) == c.version = v22 /\ v22 \notin c.reads

\* A config is refused for its own sake.  Neither the order in which the
\* converters were registered nor duplicates across its entries stand in the
\* way of a conversion: what the translation refuses is inexpressible, repeats
\* a dropin within one unit, or spells one path in two ways.  A version refused
\* as unknown is none of the supported ones that IgnParseWrapper's error names,
\* unless the config does not fit the types of its version 2.2.
RefusedForItsOwnSake ==
  /\ NeverPanics /\ result # "unsupported"
  /\ result = "unknown version" /\ raw.version[3] = 0 /\ ~Mistyped(raw) =>
       /\ ~Contains(GetSupportedMinorVersions, <<raw.version[1], raw.version[2]>>)
       /\ GetSupportedMinorVersion(raw.version) = errIgnitionConverterUnknownVersion
  /\ result = "untranslatable" =>
       \/ ~raw.expressible
       \/ \E i \in 1..Len(raw.units) : Repeats(raw.units[i].dropins)
       \/ \E i, j \in 1..Len(raw.files) :
            raw.files[i].inode = raw.files[j].inode /\ raw.files[i].name # raw.files[j].name

\* "If the error is still UnknownVersion it's not a 3.3/3.2/3.1/3.0 or 2.x config,
\* thus unsupported" (helpers.go:300): a version refused as unknown is none that
\* a parser of IgnParseWrapper is for.
UnknownVersionIsUnsupported ==
  result = "unknown version" =>
    raw.version \notin {v20, v21, v22} \cup {<<3, minor, 0>> : minor \in 0..5}

\* "outFiles and outUnits should now have all duplication removed"
\* (helpers.go:270): no path, no unit and no dropin of a unit comes twice.
DuplicationRemoved ==
  stage \in {"convert", "converting"} =>
    /\ ~Repeats(config.files) /\ ~Repeats(config.units)
    /\ \A i \in 1..Len(config.units) : ~Repeats(config.units[i].dropins)

=============================================================================
