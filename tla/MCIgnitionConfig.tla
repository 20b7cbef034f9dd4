-------------------------- MODULE MCIgnitionConfig --------------------------
(* The converters of the repository, and every list of up to MaxConverters *)
(* converters between three versions; configs of every version, and of 2.2 *)
(* every list of up to MaxEntries files, units or users.                   *)
EXTENDS IgnitionConfig

CONSTANTS MaxConverters, MaxEntries

Three == {<<2, 2, 0>>, <<3, 0, 0>>, <<3, 2, 0>>}
Small == {Typed(v, w) : <<v, w>> \in Three \X Three}

MCConverterLists ==
  {buildConverterList} \cup UNION {[1..n -> Small] : n \in 1..MaxConverters}

\* Lists of up to n of the elements.
Lists(elements, n) == UNION {[1..k -> elements] : k \in 0..n}

\* The position of an entry in the raw config, so that every one is another.
MCContents == Seq(Nat)

\* Two paths, one of them spelt in two ways.
Paths == {<<"/etc/a", "a">>, <<"/etc//a", "a">>, <<"/etc/b", "b">>}

FileLists ==
  {[i \in 1..Len(paths) |-> [name |-> paths[i][1], inode |-> paths[i][2], contents |-> <<i>>]] :
     paths \in Lists(Paths, MaxEntries)}

UnitLists ==
  {[i \in 1..Len(units) |->
      [name |-> units[i][1], contents |-> <<i>>,
       dropins |-> [k \in 1..Len(units[i][2]) |-> [name |-> units[i][2][k], contents |-> <<i, k>>]]]] :
     units \in Lists({"u", "v"} \X Lists({"d", "e"}, 2), MaxEntries)}

UserLists ==
  {[i \in 1..Len(users) |-> [name |-> users[i][1], keys |-> users[i][2]]] :
     users \in Lists({"core", "other"} \X Lists({"k1", "k2"}, 2), MaxEntries)}

Versions ==
  {Unreadable, NoVersion, v1, v20, v21, v22, <<2, 3, 0>>, <<3, 0, 0>>, v35, <<3, 5, 1>>, <<3, 6, 0>>}

\* Well typed for every version, mistyped for its own, for all of version 2 (a
\* field the first version does not have), for everything.
All == {v1, v20, v21, v22, <<3, 0, 0>>, v35}
Readings(version) == {All, All \ {version}, All \ {v20, v21, v22}, {}}

Bare ==
  UNION {{Config(version, reads, valid, expressible, <<>>, <<>>, <<>>) :
            reads \in Readings(version), valid, expressible \in BOOLEAN} : version \in Versions}

WellTyped(files, units, users) == Config(v22, All, TRUE, TRUE, files, units, users)

MCRawConfigs ==
  Bare
  \cup {WellTyped(files, <<>>, <<>>) : files \in FileLists}
  \cup {WellTyped(<<>>, units, <<>>) : units \in UnitLists}
  \cup {WellTyped(<<>>, <<>>, users) : users \in UserLists}

=============================================================================
