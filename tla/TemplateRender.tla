---------------------------- MODULE TemplateRender ----------------------------
(***************************************************************************)
(* internal/template/render.go and internal/common/helpers.go: a tree of   *)
(* template files becomes the files, units and extensions of one           *)
(* MachineConfig.                                                          *)
(*                                                                         *)
(* A tree has two platform directories, templates/common/_base and         *)
(* templates/<role>/<name>/_base, each with subdirectories files, units    *)
(* and extensions.  A path is missing, a plain file, or a directory; a     *)
(* subdirectory holds its template files in the order of filepath.Walk,    *)
(* where a base name may occur several times, in nested directories.       *)
(*                                                                         *)
(* Base names are numbers in the order of sort.Strings.  A rendered text   *)
(* is the entry it describes: the key (path of a file, name of a unit) and *)
(* the attributes it sets; it may also be no valid description.  Each part *)
(* that a text appends to a file (append, which a merge concatenates) is   *)
(* an attribute of its own, which no other template sets.                  *)
(***************************************************************************)
EXTENDS Integers, SequencesExt

CONSTANTS
  Trees,    \* the template trees
  Configs   \* the RenderConfigs, as far as the templates look at them

ASSUME ConfigsAssumption ==
  \A c \in Configs : c.EnableFileBasedSwap \in BOOLEAN

Kinds  == {"files", "units", "extensions"}
Levels == {"common", "role"}

\* A platform directory: a template file has a base name and is empty, renders to
\* a text or to blanks, or is broken.
WellFormed(platformDir) ==
  platformDir.is = "dir" =>
    \A k \in Kinds : platformDir.sub[k].is = "dir" =>
      LET walkOrder == platformDir.sub[k].walk
      IN  /\ walkOrder \in Seq({walkOrder[i] : i \in DOMAIN walkOrder})
          /\ \A i \in DOMAIN walkOrder :
               walkOrder[i].name \in Nat /\ walkOrder[i].kind \in {"empty", "text", "broken"}

ASSUME TreesAssumption ==
  \A t \in Trees : \A level \in Levels : WellFormed(t[level])

VARIABLES
  tree, config,   \* the input
  todo,           \* subdirectories still to visit, as <<level, kind>>
  kind,           \* the kind of the subdirectory being walked
  walk,           \* its template files still to filter
  found,          \* the maps files, units and extensions: base name to text
  pending,        \* texts still to transpile, as <<kind, text>>
  outConfig,      \* the Ignition config so far: lists of files and units
  result          \* what GenerateMachineConfigForName returned

input    == <<tree, config>>
walking  == <<todo, kind, walk, found>>
building == <<pending, outConfig>>
vars     == <<tree, config, todo, kind, walk, found, pending, outConfig, result>>

-----------------------------------------------------------------------------
NoEntries == [files |-> <<>>, units |-> <<>>]
Outcome(name) == [outcome |-> name, config |-> NoEntries, extensions |-> <<>>]
Start       == Outcome("start")
Walking     == Outcome("walking")
Transpiling == Outcome("transpiling")
Failed      == Outcome("error")

\* existsDir: a missing path is no error, a path that is no directory is one.
Exists(node)   == node.is = "dir"
IsNoDir(node)  == node.is = "file"

\* Whether anything but blanks comes out of a template that renders.
RendersText(t) ==
  t.kind = "text" /\ (t.when = "fileSwap" => config.EnableFileBasedSwap)

\* Where every call of GenerateMachineConfigForName starts.
Fresh ==
  /\ todo = <<>> /\ kind = "files" /\ walk = <<>>
  /\ found = [k \in Kinds |-> <<>>]
  /\ pending = <<>> /\ outConfig = NoEntries
  /\ result = Start

Init == tree \in Trees /\ config \in Configs /\ Fresh

-----------------------------------------------------------------------------
(* The platform directories, common ones first, and their subdirectories.  *)

SubdirsOf(level) ==
  IF Exists(tree[level])
  THEN << <<level, "files">>, <<level, "units">>, <<level, "extensions">> >>
  ELSE <<>>

FindPlatformDirs ==
  /\ result = Start
  /\ \A level \in Levels : ~IsNoDir(tree[level])
  /\ todo' = SubdirsOf("common") \o SubdirsOf("role")
  /\ result' = Walking
  /\ UNCHANGED <<input, kind, walk, found, building>>

PlatformDirIsNoDir ==
  /\ result = Start
  /\ \E level \in Levels : IsNoDir(tree[level])
  /\ result' = Failed
  /\ UNCHANGED <<input, walking, building>>

NextDir == tree[todo[1][1]].sub[todo[1][2]]

BetweenDirs == result = Walking /\ walk = <<>> /\ todo # <<>>

EnterDir ==
  /\ BetweenDirs /\ Exists(NextDir)
  /\ walk' = NextDir.walk
  /\ kind' = todo[1][2]
  /\ todo' = Tail(todo)
  /\ UNCHANGED <<input, found, building, result>>

SkipMissingDir ==
  /\ BetweenDirs /\ ~Exists(NextDir) /\ ~IsNoDir(NextDir)
  /\ todo' = Tail(todo)
  /\ UNCHANGED <<input, kind, walk, found, building, result>>

DirIsNoDir ==
  /\ BetweenDirs /\ IsNoDir(NextDir)
  /\ result' = Failed
  /\ UNCHANGED <<input, walking, building>>

-----------------------------------------------------------------------------
(* filterTemplates: walkFn, on one template file.                          *)

AtTemplate == result = Walking /\ walk # <<>>

Filtered(texts) ==
  /\ found' = [found EXCEPT ![kind] = texts]
  /\ walk' = Tail(walk)
  /\ UNCHANGED <<input, todo, kind, building, result>>

EmptyTemplate ==
  /\ AtTemplate /\ walk[1].kind = "empty"
  /\ Filtered(Restrict(found[kind], DOMAIN found[kind] \ {walk[1].name}))

\* Mutant: a template that renders to nothing takes its name with it.
BlankRemoves ==
  /\ AtTemplate /\ walk[1].kind = "text" /\ ~RendersText(walk[1])
  /\ Filtered(Restrict(found[kind], DOMAIN found[kind] \ {walk[1].name}))

BlankTemplate ==
  /\ AtTemplate /\ walk[1].kind = "text" /\ ~RendersText(walk[1])
  /\ Filtered(found[kind])

TextTemplate ==
  /\ AtTemplate /\ RendersText(walk[1])
  /\ Filtered([n \in DOMAIN found[kind] \cup {walk[1].name} |->
                 IF n = walk[1].name THEN walk[1].text ELSE found[kind][n]])

\* Mutant: a template that does not render is left out.
IgnoresBroken ==
  /\ AtTemplate /\ walk[1].kind = "broken"
  /\ Filtered(found[kind])

\* The template does not parse or does not execute.
BrokenTemplate ==
  /\ AtTemplate /\ walk[1].kind = "broken"
  /\ result' = Failed
  /\ UNCHANGED <<input, walking, building>>

\* Stat, the walk or the read of a file fails.
ReadFails ==
  /\ result \in {Start, Walking}
  /\ result = Walking => todo # <<>> \/ walk # <<>>
  /\ result' = Failed
  /\ UNCHANGED <<input, walking, building>>

-----------------------------------------------------------------------------
(* TranspileCoreOSConfigToIgn, and the MachineConfig.                      *)

\* sort.Strings: the i-th name is the one with i - 1 names before it.
SortedNames(m) ==
  [i \in 1..Cardinality(DOMAIN m) |->
     CHOOSE n \in DOMAIN m : Cardinality({before \in DOMAIN m : before < n}) = i - 1]

keySortVals(m) == [i \in 1..Cardinality(DOMAIN m) |-> m[SortedNames(m)[i]]]

\* Attributes over others.
Overlay(new, old) ==
  [a \in DOMAIN new \cup DOMAIN old |-> IF a \in DOMAIN new THEN new[a] ELSE old[a]]

\* ign3.Merge of a config with one entry: an entry with its key keeps its
\* place and the attributes the new one does not set.
Merge(list, entry) ==
  IF \A i \in 1..Len(list) : list[i].key # entry.key THEN Append(list, entry)
  ELSE [i \in 1..Len(list) |->
          IF list[i].key # entry.key THEN list[i]
          ELSE [key |-> entry.key, attrs |-> Overlay(entry.attrs, list[i].attrs)]]

\* Files always overwrite what is on the disk.
Entry(k, text) ==
  [key   |-> text.key,
   attrs |-> IF k = "files" THEN Overlay([overwrite |-> TRUE], text.attrs) ELSE text.attrs]

StartTranspile ==
  LET Tagged(k) == [i \in 1..Cardinality(DOMAIN found[k]) |-> <<k, keySortVals(found[k])[i]>>]
  IN  /\ result = Walking /\ walk = <<>> /\ todo = <<>>
      /\ pending' = Tagged("files") \o Tagged("units")
      /\ result' = Transpiling
      /\ UNCHANGED <<input, walking, outConfig>>

TranspileNext ==
  /\ result = Transpiling /\ pending # <<>>
  /\ pending[1][2].valid
  /\ LET k == pending[1][1]
     IN  outConfig' = [outConfig EXCEPT ![k] = Merge(@, Entry(k, pending[1][2]))]
  /\ pending' = Tail(pending)
  /\ UNCHANGED <<input, walking, result>>

\* The text is no YAML of a file or unit, or does not translate to Ignition.
TranspileFails ==
  /\ result = Transpiling /\ pending # <<>>
  /\ ~pending[1][2].valid
  /\ result' = Failed
  /\ UNCHANGED <<input, walking, building>>

ReturnMachineConfig ==
  /\ result = Transpiling /\ pending = <<>>
  /\ result' = [outcome    |-> "ok",
                config     |-> outConfig,
                extensions |-> SortedNames(found["extensions"])]
  /\ UNCHANGED <<input, walking, building>>

Next ==
  \/ FindPlatformDirs \/ PlatformDirIsNoDir
  \/ EnterDir \/ SkipMissingDir \/ DirIsNoDir
  \/ EmptyTemplate \/ BlankTemplate \/ TextTemplate \/ BrokenTemplate
  \/ ReadFails
  \/ StartTranspile \/ TranspileNext \/ TranspileFails \/ ReturnMachineConfig

Spec == Init /\ [][Next]_vars

-----------------------------------------------------------------------------
(* What the MachineConfig of a tree should be, without maps and merges.    *)

FilesIn(level, k) ==
  IF Exists(tree[level]) /\ Exists(tree[level].sub[k]) THEN tree[level].sub[k].walk ELSE <<>>

\* All template files of a kind, those of the role after the common ones.
AllOf(k) == FilesIn("common", k) \o FilesIn("role", k)

\* The last file of a name that is empty or renders to something decides
\* what the name stands for: nothing or that text.
Speaks(t) == t.kind = "empty" \/ RendersText(t)

HasLastWord(files, i) ==
  /\ RendersText(files[i])
  /\ \A later \in (i + 1)..Len(files) : files[later].name = files[i].name => ~Speaks(files[later])

Deciding(k) == {AllOf(k)[i] : i \in {j \in 1..Len(AllOf(k)) : HasLastWord(AllOf(k), j)}}

\* The files that describe a key, and those that set an attribute of it, by name.
NamesOf(k, key) == {t.name : t \in {u \in Deciding(k) : u.text.key = key}}

NamesSetting(k, key, attr) ==
  {t.name : t \in {u \in Deciding(k) : u.text.key = key /\ attr \in DOMAIN Entry(k, u.text).attrs}}

\* One entry for each key, in the order of the smallest names, and each of its
\* attributes from the greatest name that sets it.
InPrecedence(k, list) ==
  /\ {e.key : e \in ToSet(list)} = {t.text.key : t \in Deciding(k)}
  /\ \A i, j \in 1..Len(list) :
       i < j => Min(NamesOf(k, list[i].key)) < Min(NamesOf(k, list[j].key))
  /\ \A e \in ToSet(list) :
       /\ DOMAIN e.attrs = UNION {DOMAIN Entry(k, t.text).attrs :
                                   t \in {u \in Deciding(k) : u.text.key = e.key}}
       /\ \A attr \in DOMAIN e.attrs : \E t \in Deciding(k) :
            /\ t.text.key = e.key
            /\ t.name = Max(NamesSetting(k, e.key, attr))
            /\ Entry(k, t.text).attrs[attr] = e.attrs[attr]

\* "walk all role dirs, with later ones taking precedence" (render.go:217),
\* through nested directories, empty files, conditions that render to nothing
\* and several templates for one path: each attribute of each path or unit
\* comes from the greatest template name that sets it, there is one entry for
\* each, in the order of the smallest names, and extensions are sorted.
PrecedenceByName ==
  result.outcome = "ok" =>
    /\ \A k \in {"files", "units"} : InPrecedence(k, result.config[k])
    /\ ToSet(result.extensions) = {t.name : t \in Deciding("extensions")}
    /\ \A i, j \in 1..Len(result.extensions) :
         i < j => result.extensions[i] < result.extensions[j]

\* A MachineConfig comes only from a tree that was read whole: every template
\* rendered, the overridden ones too, every text that survives is valid, and
\* no path that should be a directory is a file.
AllOrNothing ==
  result.outcome = "ok" =>
    /\ \A level \in Levels :
         /\ ~IsNoDir(tree[level])
         /\ Exists(tree[level]) =>
              \A k \in Kinds : ~IsNoDir(tree[level].sub[k])
    /\ \A k \in Kinds : \A t \in ToSet(AllOf(k)) : t.kind # "broken"
    /\ \A k \in {"files", "units"} : \A t \in Deciding(k) : t.text.valid

=============================================================================
