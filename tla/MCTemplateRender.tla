--------------------------- MODULE MCTemplateRender ---------------------------
(* Small template trees, for TLC.                                          *)
EXTENDS TemplateLoops

CONSTANT MaxWalk

\* Before it is put into a tree, a template names the attributes it sets.
Template(base, sort, when, key, attrs, valid) ==
  [name |-> base, kind |-> sort, when |-> when,
   text |-> [key |-> key, attrs |-> attrs, valid |-> valid]]
Text(base, key, attrs) == Template(base, "text", "always", key, attrs, TRUE)

Both == {"mode", "contents"}
Empties   == {Template(base, "empty", "always", "", {}, FALSE) : base \in {1, 2}}
Faulty    == {Template(2, "broken", "always", "", {}, FALSE),
              Template(1, "text", "always", "p", {}, FALSE)}
FewTexts  == {Text(1, "p", {"mode"}), Text(2, "p", {"contents", "append2"}), Text(1, "q", Both),
              Template(2, "text", "fileSwap", "p", {"mode"}, TRUE)}
Pool      == Empties \cup Faulty \cup FewTexts \cup {Text(2, "q", {"mode"}), Text(3, "p", Both \cup {"append3"})}
SmallPool == Empties \cup FewTexts

\* The value of every attribute says where it was set.
Stamped(level, walkOrder) ==
  [i \in 1..Len(walkOrder) |->
     [walkOrder[i] EXCEPT !.text.attrs = [a \in @ |-> <<level, i>>]]]

Absent   == [is |-> "missing"]
Plain    == [is |-> "file"]
Holding(level, walkOrder) == [is |-> "dir", walk |-> Stamped(level, walkOrder)]
PlatformDir(files, units, extensions) ==
  [is |-> "dir", sub |-> [files |-> files, units |-> units, extensions |-> extensions]]

Walks(pool) == UNION {[1..n -> pool] : n \in 0..MaxWalk}
OneUnit(level) == Holding(level, <<Text(1, "u", {"contents"})>>)

FileTrees ==
  {[common |-> PlatformDir(Holding("common", c), OneUnit("common"), Absent),
    role   |-> PlatformDir(Holding("role", r), Absent, OneUnit("role"))] :
     c \in Walks(Pool), r \in Walks(Pool)}
UnitTrees ==
  {[common |-> PlatformDir(Absent, Holding("common", c), Holding("common", c)),
    role   |-> PlatformDir(OneUnit("role"), Holding("role", r), Holding("role", r))] :
     c \in Walks(SmallPool), r \in Walks(SmallPool)}
OddTrees ==
  {[common |-> c, role |-> r] :
     c \in {Absent, Plain, PlatformDir(Absent, Absent, Plain), PlatformDir(Absent, Absent, Absent)},
     r \in {Absent, Plain, PlatformDir(Plain, Absent, Absent),
            PlatformDir(Holding("role", <<Text(1, "p", Both)>>), Absent, Absent)}}

MCTrees == FileTrees \cup UnitTrees \cup OddTrees

\* Template directories: with and without worker's, with a custom role before
\* and after it, and a plain file at each level.
Base(files) == PlatformDir(Holding("role", files), Absent, OneUnit("role"))
Bases == {Absent} \cup {Base(files) : files \in
            {<<>>, <<Text(1, "p", Both)>>, <<Template(1, "empty", "always", "", {}, FALSE)>>,
             <<Template(2, "text", "fileSwap", "p", {"mode"}, TRUE)>>,
             <<Template(1, "text", "always", "p", {}, FALSE)>>}}
Subdir(n, base) == [name |-> n, isDir |-> TRUE, base |-> base]
PlainFile == [name |-> "README", isDir |-> FALSE]
RoleDir(n, list) == [name |-> n, isDir |-> TRUE, list |-> list]
WorkerList(b, c) == <<Subdir("00-worker", b), Subdir("01-worker", c), PlainFile>>

EntryLists(b, c) ==
  {<<RoleDir("common", <<>>), RoleDir("worker", WorkerList(b, c)), RoleDir("zone", <<>>), PlainFile>>,
   <<RoleDir("common", <<>>), RoleDir("master", WorkerList(c, b)), RoleDir("worker", WorkerList(b, c))>>,
   <<RoleDir("common", <<>>), RoleDir("master", WorkerList(b, c))>>}

MCTemplateDirs ==
  {[common |-> common, entries |-> entries] :
     common \in {Absent, PlatformDir(Holding("common", <<Text(1, "p", {"mode"})>>), Absent, Absent)},
     entries \in UNION {EntryLists(b, c) : b \in Bases, c \in Bases}}

MCConfigs == {[EnableFileBasedSwap |-> flag] : flag \in BOOLEAN}

=============================================================================
