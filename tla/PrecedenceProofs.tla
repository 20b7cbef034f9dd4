--------------------------- MODULE PrecedenceProofs ---------------------------
(***************************************************************************)
(* Which template wins: every entry of a MachineConfig comes from the      *)
(* templates that decide, attribute by attribute from the greatest name,   *)
(* for every tree, config and template directory.                          *)
(***************************************************************************)
EXTENDS TemplateProofs, WellFoundedInduction

\* The list is what merging the entries of the names done, in the order of the
\* names, has to give.
Sets(entries, n, key, attr) == entries[n].key = key /\ attr \in DOMAIN entries[n].attrs

OneForEachKey(entries, list, done) ==
  /\ \A i \in 1..Len(list) : \E n \in done : entries[n].key = list[i].key
  /\ \A n \in done : \E i \in 1..Len(list) : list[i].key = entries[n].key

ByFirstName(entries, list, done) ==
  \A i, j \in 1..Len(list) : i < j =>
    \E n \in done : /\ entries[n].key = list[i].key
                    /\ \A o \in done : entries[o].key = list[j].key => n < o

NothingLost(entries, list, done) ==
  \A i \in 1..Len(list) : \A n \in done :
    entries[n].key = list[i].key => DOMAIN entries[n].attrs \subseteq DOMAIN list[i].attrs

FromGreatestName(entries, list, done) ==
  \A i \in 1..Len(list) : \A attr \in DOMAIN list[i].attrs :
    \E n \in done : /\ Sets(entries, n, list[i].key, attr)
                    /\ entries[n].attrs[attr] = list[i].attrs[attr]
                    /\ \A o \in done : Sets(entries, o, list[i].key, attr) => o <= n

Merged(entries, list, done) ==
  /\ list \in Seq(ToSet(list))
  /\ OneForEachKey(entries, list, done)
  /\ ByFirstName(entries, list, done)
  /\ NothingLost(entries, list, done)
  /\ FromGreatestName(entries, list, done)

-----------------------------------------------------------------------------
(* Merge, with the entry of a name greater than those done.                *)

LEMMA GreatestSoFar ==
  ASSUME NEW done \in SUBSET Nat, NEW n \in Nat, \A o \in done : o < n
  PROVE  n \in done \cup {n} /\ \A p \in done \cup {n} : p <= n
OBVIOUS

LEMMA NewKeyMerged ==
  ASSUME NEW entries, NEW list, NEW done \in SUBSET Nat, Merged(entries, list, done),
         NEW n \in Nat, \A o \in done : o < n,
         \A i \in 1..Len(list) : list[i].key # entries[n].key
  PROVE  Merged(entries, Append(list, entries[n]), done \cup {n})
<1> DEFINE more == Append(list, entries[n])
           last == Len(list) + 1
           now  == done \cup {n}
<1>1. /\ Len(list) \in Nat /\ Len(more) = last /\ more[last] = entries[n]
      /\ \A i \in 1..Len(list) : more[i] = list[i]
      /\ more \in Seq(ToSet(more))
  <2>1. list \in Seq(ToSet(list) \cup {entries[n]})
    <3>1. list \in Seq(ToSet(list)) /\ ToSet(list) \subseteq ToSet(list) \cup {entries[n]}
      BY DEF Merged
    <3> QED
      BY <3>1
  <2>2. more \in Seq(ToSet(list) \cup {entries[n]})
    BY <2>1
  <2>3. more \in Seq(ToSet(more))
    BY <2>2, ElementsOfSeq
  <2> QED
    BY <2>1, <2>3
<1> HIDE DEF more
<1>2. \A i \in 1..Len(more) : i = last \/ i \in 1..Len(list)
  BY <1>1
<1>3. last \in 1..Len(more) /\ \A i \in 1..Len(list) : i \in 1..Len(more)
  BY <1>1
\* Nobody before the new entry has its key.
<1>4. \A o \in done : entries[o].key # entries[n].key
  BY DEF Merged, OneForEachKey
<1>5. OneForEachKey(entries, more, now)
  <2>1. ASSUME NEW i \in 1..Len(more) PROVE \E o \in now : entries[o].key = more[i].key
    <3>1. CASE i = last
      BY <1>1, <3>1
    <3>2. CASE i \in 1..Len(list)
      <4>1. PICK o \in done : entries[o].key = list[i].key
        BY <3>2 DEF Merged, OneForEachKey
      <4> QED
        BY <1>1, <3>2, <4>1
    <3> QED
      BY <1>2, <3>1, <3>2
  <2>2. ASSUME NEW o \in now PROVE \E i \in 1..Len(more) : more[i].key = entries[o].key
    <3>1. CASE o = n
      BY <1>1, <1>3, <3>1
    <3>2. CASE o \in done
      <4>1. PICK i \in 1..Len(list) : list[i].key = entries[o].key
        BY <3>2 DEF Merged, OneForEachKey
      <4> QED
        BY <1>1, <1>3, <4>1
    <3> QED
      BY <3>1, <3>2
  <2> QED
    BY <2>1, <2>2 DEF OneForEachKey
<1>6. ByFirstName(entries, more, now)
  <2>1. ASSUME NEW i \in 1..Len(more), NEW j \in 1..Len(more), i < j
        PROVE  \E o \in now : /\ entries[o].key = more[i].key
                              /\ \A p \in now : entries[p].key = more[j].key => o < p
    <3>1. i \in 1..Len(list) /\ more[i] = list[i]
      BY <1>1, <2>1
    <3>2. CASE j = last
      <4>1. PICK o \in done : entries[o].key = more[i].key
        BY <3>1 DEF Merged, OneForEachKey
      <4>2. \A p \in now : entries[p].key = more[j].key => p = n
        BY <1>1, <1>4, <3>2
      <4> QED
        BY <4>1, <4>2
    <3>3. CASE j \in 1..Len(list)
      <4>1. PICK o \in done : /\ entries[o].key = list[i].key
                              /\ \A p \in done : entries[p].key = list[j].key => o < p
        BY <2>1, <3>1, <3>3 DEF Merged, ByFirstName
      <4>2. more[j] = list[j] /\ entries[n].key # list[j].key
        BY <1>1, <3>3
      <4> QED
        BY <3>1, <4>1, <4>2
    <3> QED
      BY <1>2, <3>2, <3>3
  <2> QED
    BY <2>1 DEF ByFirstName
<1>7. NothingLost(entries, more, now)
  <2>1. ASSUME NEW i \in 1..Len(more), NEW o \in now, entries[o].key = more[i].key
        PROVE  DOMAIN entries[o].attrs \subseteq DOMAIN more[i].attrs
    <3>1. CASE i = last
      BY <1>1, <1>4, <2>1, <3>1
    <3>2. CASE i \in 1..Len(list)
      <4>1. more[i] = list[i] /\ o \in done
        BY <1>1, <2>1, <3>2
      <4> QED
        BY <2>1, <3>2, <4>1 DEF Merged, NothingLost
    <3> QED
      BY <1>2, <3>1, <3>2
  <2> QED
    BY <2>1 DEF NothingLost
<1>8. FromGreatestName(entries, more, now)
  <2>1. ASSUME NEW i \in 1..Len(more), NEW attr \in DOMAIN more[i].attrs
        PROVE  \E o \in now : /\ Sets(entries, o, more[i].key, attr)
                              /\ entries[o].attrs[attr] = more[i].attrs[attr]
                              /\ \A p \in now : Sets(entries, p, more[i].key, attr) => p <= o
    <3>1. CASE i = last
      <4>1. Sets(entries, n, more[i].key, attr) /\ entries[n].attrs[attr] = more[i].attrs[attr]
        BY <1>1, <2>1, <3>1 DEF Sets
      <4>2. n \in now /\ \A p \in now : p <= n
        BY GreatestSoFar
      <4> HIDE DEF now
      <4> QED
        BY <4>1, <4>2
    <3>2. CASE i \in 1..Len(list)
      <4>1. more[i] = list[i] /\ ~Sets(entries, n, more[i].key, attr)
        BY <1>1, <3>2 DEF Sets
      <4>2. PICK o \in done :
              /\ Sets(entries, o, list[i].key, attr)
              /\ entries[o].attrs[attr] = list[i].attrs[attr]
              /\ \A p \in done : Sets(entries, p, list[i].key, attr) => p <= o
        BY <2>1, <3>2, <4>1 DEF Merged, FromGreatestName
      <4> QED
        BY <4>1, <4>2
    <3> QED
      BY <1>2, <3>1, <3>2
  <2> QED
    BY <2>1 DEF FromGreatestName
<1> QED
  BY <1>1, <1>5, <1>6, <1>7, <1>8 DEF Merged, more

LEMMA OldKeyMerged ==
  ASSUME NEW entries, NEW list, NEW done \in SUBSET Nat, Merged(entries, list, done),
         NEW n \in Nat, \A o \in done : o < n,
         ~\A i \in 1..Len(list) : list[i].key # entries[n].key
  PROVE  Merged(entries, Merge(list, entries[n]), done \cup {n})
<1> DEFINE more == Merge(list, entries[n])
           now  == done \cup {n}
           its  == entries[n].key
<1>1. /\ Len(list) \in Nat /\ Len(more) = Len(list)
      /\ \A i \in 1..Len(list) : its # list[i].key => more[i] = list[i]
      /\ \A i \in 1..Len(list) : its = list[i].key =>
           more[i].key = its /\ more[i].attrs = Overlay(entries[n].attrs, list[i].attrs)
      /\ more \in Seq(ToSet(more))
  <2>1. Len(list) \in Nat
    BY DEF Merged
  <2>2. more = [i \in 1..Len(list) |->
                  IF list[i].key # its THEN list[i]
                  ELSE [key |-> its, attrs |-> Overlay(entries[n].attrs, list[i].attrs)]]
    BY DEF Merge
  <2> HIDE DEF more
  <2>3. \A i \in 1..Len(list) : more[i] \in ToSet(more)
    BY <2>2 DEF ToSet
  <2>4. more = [i \in 1..Len(list) |-> more[i]]
    BY <2>2
  <2>5. more \in Seq(ToSet(more)) /\ Len(more) = Len(list)
    BY <2>1, <2>3, <2>4
  <2>6. \A i \in 1..Len(list) : its # list[i].key => more[i] = list[i]
    BY <2>2
  <2>7. ASSUME NEW i \in 1..Len(list), its = list[i].key
        PROVE  more[i].key = its /\ more[i].attrs = Overlay(entries[n].attrs, list[i].attrs)
    <3>1. more[i] = [key |-> its, attrs |-> Overlay(entries[n].attrs, list[i].attrs)]
      BY <2>2, <2>7
    <3> QED
      BY <3>1
  <2> QED
    BY <2>1, <2>5, <2>6, <2>7
<1> HIDE DEF more
<1>2. \A i \in 1..Len(list) : more[i].key = list[i].key
  BY <1>1
<1>3. \A i \in 1..Len(list) : its # list[i].key => more[i] = list[i]
  BY <1>1
<1>4. ASSUME NEW i \in 1..Len(list), its = list[i].key
      PROVE  /\ DOMAIN more[i].attrs = DOMAIN entries[n].attrs \cup DOMAIN list[i].attrs
             /\ \A a \in DOMAIN more[i].attrs :
                  more[i].attrs[a] = IF a \in DOMAIN entries[n].attrs THEN entries[n].attrs[a]
                                     ELSE list[i].attrs[a]
  <2>1. more[i].attrs = Overlay(entries[n].attrs, list[i].attrs)
    BY <1>1, <1>4
  <2> QED
    BY <2>1 DEF Overlay
\* The key was there before.
<1>5. PICK first \in done : entries[first].key = its
  <2>1. PICK i \in 1..Len(list) : list[i].key = its
    OBVIOUS
  <2> QED
    BY <2>1 DEF Merged, OneForEachKey
<1>6. OneForEachKey(entries, more, now)
  <2>1. ASSUME NEW i \in 1..Len(list) PROVE \E o \in now : entries[o].key = more[i].key
    <3>1. PICK o \in done : entries[o].key = list[i].key
      BY DEF Merged, OneForEachKey
    <3> QED
      BY <1>2, <3>1
  <2>2. ASSUME NEW o \in now PROVE \E i \in 1..Len(list) : more[i].key = entries[o].key
    <3>1. PICK p \in done : entries[p].key = entries[o].key
      BY <1>5
    <3>2. PICK i \in 1..Len(list) : list[i].key = entries[p].key
      BY DEF Merged, OneForEachKey
    <3> QED
      BY <1>2, <3>1, <3>2
  <2> QED
    BY <1>1, <2>1, <2>2 DEF OneForEachKey
<1>7. ByFirstName(entries, more, now)
  <2>1. ASSUME NEW i \in 1..Len(list), NEW j \in 1..Len(list), i < j
        PROVE  \E o \in now : /\ entries[o].key = more[i].key
                              /\ \A p \in now : entries[p].key = more[j].key => o < p
    <3>1. PICK o \in done : /\ entries[o].key = list[i].key
                            /\ \A p \in done : entries[p].key = list[j].key => o < p
      BY <2>1 DEF Merged, ByFirstName
    <3>2. ASSUME NEW p \in now, entries[p].key = list[j].key PROVE o < p
      <4>1. CASE p = n
        BY <4>1
      <4>2. CASE p \in done
        BY <3>1, <3>2, <4>2
      <4> QED
        BY <4>1, <4>2
    <3>3. o \in now /\ more[i].key = list[i].key /\ more[j].key = list[j].key
      BY <1>2
    <3> HIDE DEF now
    <3> QED
      BY <3>1, <3>2, <3>3
  <2> HIDE DEF now
  <2> QED
    BY <1>1, <2>1 DEF ByFirstName
<1>8. NothingLost(entries, more, now)
  <2>1. ASSUME NEW i \in 1..Len(list), NEW o \in now, entries[o].key = more[i].key
        PROVE  DOMAIN entries[o].attrs \subseteq DOMAIN more[i].attrs
    <3>1. DOMAIN list[i].attrs \subseteq DOMAIN more[i].attrs
      BY <1>3, <1>4
    <3>2. CASE o = n
      BY <1>2, <1>4, <2>1, <3>2
    <3>3. CASE o \in done
      BY <1>2, <2>1, <3>1, <3>3 DEF Merged, NothingLost
    <3> QED
      BY <3>2, <3>3
  <2> QED
    BY <1>1, <2>1 DEF NothingLost
<1>9. FromGreatestName(entries, more, now)
  <2>1. ASSUME NEW i \in 1..Len(list), NEW attr \in DOMAIN more[i].attrs
        PROVE  \E o \in now : /\ Sets(entries, o, more[i].key, attr)
                              /\ entries[o].attrs[attr] = more[i].attrs[attr]
                              /\ \A p \in now : Sets(entries, p, more[i].key, attr) => p <= o
    <3>1. CASE Sets(entries, n, more[i].key, attr)
      <4>1. entries[n].attrs[attr] = more[i].attrs[attr]
        BY <1>2, <1>4, <2>1, <3>1 DEF Sets
      <4>2. n \in now /\ \A p \in now : p <= n
        BY GreatestSoFar
      <4> HIDE DEF now
      <4> QED
        BY <3>1, <4>1, <4>2
    <3>2. CASE ~Sets(entries, n, more[i].key, attr)
      <4>1. attr \in DOMAIN list[i].attrs /\ more[i].attrs[attr] = list[i].attrs[attr]
        BY <1>2, <1>3, <1>4, <2>1, <3>2 DEF Sets
      <4>2. PICK o \in done :
              /\ Sets(entries, o, list[i].key, attr)
              /\ entries[o].attrs[attr] = list[i].attrs[attr]
              /\ \A p \in done : Sets(entries, p, list[i].key, attr) => p <= o
        BY <4>1 DEF Merged, FromGreatestName
      <4> QED
        BY <1>2, <3>2, <4>1, <4>2
    <3> QED
      BY <3>1, <3>2
  <2> QED
    BY <1>1, <2>1 DEF FromGreatestName
<1> QED
  BY <1>1, <1>6, <1>7, <1>8, <1>9 DEF Merged, more

LEMMA OneMoreMerged ==
  ASSUME NEW entries, NEW list, NEW done \in SUBSET Nat, Merged(entries, list, done),
         NEW n \in Nat, \A o \in done : o < n
  PROVE  Merged(entries, Merge(list, entries[n]), done \cup {n})
<1>1. CASE \A i \in 1..Len(list) : list[i].key # entries[n].key
  <2>1. Merge(list, entries[n]) = Append(list, entries[n])
    BY <1>1 DEF Merge
  <2>2. Merged(entries, Append(list, entries[n]), done \cup {n})
    BY <1>1, NewKeyMerged
  <2> QED
    BY <2>1, <2>2
<1>2. CASE ~\A i \in 1..Len(list) : list[i].key # entries[n].key
  BY <1>2, OldKeyMerged
<1> QED
  BY <1>1, <1>2

-----------------------------------------------------------------------------
(* The texts still to transpile are those of the greatest names.           *)

Parts == {"files", "units"}

Entries(maps, k) == [n \in DOMAIN maps[k] |-> Entry(k, maps[k][n])]

\* The names of a kind that are not left.
Done(maps, k, left) == {n \in DOMAIN maps[k] : \A i \in 1..Len(left) : left[i] # <<k, n>>}

\* The texts are those of the names left, in their order.
TextsOf(maps, texts, left) ==
  /\ Len(texts) = Len(left)
  /\ \A i \in 1..Len(left) : /\ left[i][2] \in DOMAIN maps[left[i][1]]
                             /\ texts[i] = <<left[i][1], maps[left[i][1]][left[i][2]]>>

InOrder(maps, left) ==
  /\ \A i, j \in 1..Len(left) : i < j /\ left[i][1] = left[j][1] => left[i][2] < left[j][2]
  /\ \A k \in Parts : \A n \in Done(maps, k, left), i \in 1..Len(left) :
       left[i][1] = k => n < left[i][2]

TranspileInv ==
  /\ DOMAIN outConfig = Parts
  /\ \E left \in Seq(Parts \X Nat) :
       /\ TextsOf(found, pending, left) /\ InOrder(found, left)
       /\ \A k \in Parts : Merged(Entries(found, k), outConfig[k], Done(found, k, left))

PrecedenceInv ==
  /\ result \in {Start, Walking} => outConfig = NoEntries
  /\ result = Transpiling => TranspileInv
  /\ PrecedenceByName

\* One text is transpiled.
LEMMA NextName ==
  ASSUME NEW maps, NEW left \in Seq(Parts \X Nat), left # <<>>, InOrder(maps, left),
         left[1][2] \in DOMAIN maps[left[1][1]]
  PROVE  /\ InOrder(maps, Tail(left))
         /\ Done(maps, left[1][1], Tail(left)) = Done(maps, left[1][1], left) \cup {left[1][2]}
         /\ \A k \in Parts \ {left[1][1]} : Done(maps, k, Tail(left)) = Done(maps, k, left)
         /\ \A n \in Done(maps, left[1][1], left) : n < left[1][2]
<1> DEFINE rest == Tail(left)
           now  == left[1][1]
           name1 == left[1][2]
<1>1. /\ Len(left) \in Nat /\ Len(left) >= 1 /\ Len(rest) = Len(left) - 1
      /\ \A i \in 1..Len(rest) : rest[i] = left[i + 1] /\ i + 1 \in 1..Len(left)
      /\ 1 \in 1..Len(left)
      /\ \A i \in 1..Len(left) : left[i] \in Parts \X Nat
  OBVIOUS
<1>2. ASSUME NEW i \in 1..Len(left), i # 1
      PROVE  \E j \in 1..Len(rest) : i = j + 1 /\ rest[j] = left[i]
  <2>1. i - 1 \in 1..Len(rest) /\ i = (i - 1) + 1
    BY <1>1, <1>2
  <2>2. rest[i - 1] = left[(i - 1) + 1]
    BY <1>1, <2>1
  <2> QED
    BY <2>1, <2>2
<1>3. left[1] = <<now, name1>> /\ now \in Parts /\ name1 \in Nat
  BY <1>1
<1> HIDE DEF rest, now, name1
<1>4. ASSUME NEW i \in 1..Len(left), i # 1 PROVE left[i] # <<now, name1>>
  <2>1. 1 < i
    BY <1>1, <1>4
  <2>2. left[1][1] = left[i][1] => left[1][2] < left[i][2]
    BY <1>1, <2>1 DEF InOrder
  <2>3. ASSUME left[i] = <<now, name1>> PROVE FALSE
    BY <1>3, <2>2, <2>3
  <2> QED
    BY <2>3
<1>5. ASSUME NEW k, NEW n \in DOMAIN maps[k]
      PROVE  n \in Done(maps, k, rest) <=> n \in Done(maps, k, left) \/ <<k, n>> = <<now, name1>>
  <2>1. ASSUME n \in Done(maps, k, rest), <<k, n>> # <<now, name1>> PROVE n \in Done(maps, k, left)
    <3>1. ASSUME NEW i \in 1..Len(left) PROVE left[i] # <<k, n>>
      <4>1. CASE i = 1
        BY <1>3, <2>1, <4>1
      <4>2. CASE i # 1
        BY <1>2, <2>1, <4>2 DEF Done
      <4> QED
        BY <4>1, <4>2
    <3> QED
      BY <3>1 DEF Done
  <2>2. ASSUME n \in Done(maps, k, left) PROVE n \in Done(maps, k, rest)
    BY <1>1, <2>2 DEF Done
  <2>3. ASSUME <<k, n>> = <<now, name1>> PROVE n \in Done(maps, k, rest)
    <3>1. \A i \in 1..Len(rest) : rest[i] # <<now, name1>>
      <4>1. ASSUME NEW i \in 1..Len(rest) PROVE rest[i] # <<now, name1>>
        <5>1. rest[i] = left[i + 1] /\ i + 1 \in 1..Len(left) /\ i + 1 # 1
          BY <1>1
        <5> QED
          BY <1>4, <5>1
      <4> QED
        BY <4>1
    <3> QED
      BY <2>3, <3>1 DEF Done
  <2> QED
    BY <2>1, <2>2, <2>3
<1>6. \A k : Done(maps, k, rest) \subseteq DOMAIN maps[k] /\ Done(maps, k, left) \subseteq DOMAIN maps[k]
  BY DEF Done
<1>7. name1 \in DOMAIN maps[now]
  BY <1>3 DEF now, name1
<1>8. Done(maps, now, rest) = Done(maps, now, left) \cup {name1}
  <2>1. ASSUME NEW n \in Done(maps, now, rest) PROVE n \in Done(maps, now, left) \cup {name1}
    BY <1>5, <1>6, <2>1
  <2>2. ASSUME NEW n \in Done(maps, now, left) \cup {name1} PROVE n \in Done(maps, now, rest)
    BY <1>5, <1>6, <1>7, <2>2
  <2> QED
    BY <2>1, <2>2
<1>9. ASSUME NEW k, k # now PROVE Done(maps, k, rest) = Done(maps, k, left)
  BY <1>5, <1>6, <1>9
<1>10. ASSUME NEW i \in 1..Len(rest), rest[i][1] = now PROVE name1 < rest[i][2]
  <2>1. i + 1 \in 1..Len(left) /\ 1 < i + 1 /\ rest[i] = left[i + 1]
    BY <1>1
  <2>2. left[1][1] = left[i + 1][1] => left[1][2] < left[i + 1][2]
    BY <1>1, <2>1 DEF InOrder
  <2> QED
    BY <1>3, <1>10, <2>1, <2>2
<1>11. InOrder(maps, rest)
  <2>1. ASSUME NEW i \in 1..Len(rest), NEW j \in 1..Len(rest), i < j, rest[i][1] = rest[j][1]
        PROVE  rest[i][2] < rest[j][2]
    <3>1. i + 1 < j + 1
      BY <1>1, <2>1
    <3>2. /\ i + 1 \in 1..Len(left) /\ rest[i] = left[i + 1]
          /\ j + 1 \in 1..Len(left) /\ rest[j] = left[j + 1]
      BY <1>1
    <3> QED
      BY <2>1, <3>1, <3>2 DEF InOrder
  <2>2. ASSUME NEW k \in Parts, NEW n \in Done(maps, k, rest), NEW i \in 1..Len(rest), rest[i][1] = k
        PROVE  n < rest[i][2]
    <3>1. i + 1 \in 1..Len(left) /\ rest[i] = left[i + 1]
      BY <1>1
    <3>2. CASE n \in Done(maps, k, left)
      BY <2>2, <3>1, <3>2 DEF InOrder
    <3>3. CASE n \notin Done(maps, k, left)
      <4>1. k = now /\ n = name1
        BY <1>8, <1>9, <2>2, <3>3
      <4> QED
        BY <1>10, <2>2, <4>1
    <3> QED
      BY <3>2, <3>3
  <2> QED
    BY <2>1, <2>2 DEF InOrder
<1>12. \A n \in Done(maps, now, left) : n < name1
  BY <1>1, <1>3 DEF InOrder, now, name1
<1> QED
  BY <1>8, <1>9, <1>11, <1>12 DEF rest, now, name1

\* The names of the maps are those of the files that decide, and stand for their texts.
LEMMA DecidingNames ==
  ASSUME TreeInv, NEW k \in Kinds, Reflects(found[k], AllOf(k))
  PROVE  /\ DOMAIN found[k] \subseteq Nat
         /\ \A t \in Deciding(k) : t.name \in DOMAIN found[k] /\ found[k][t.name] = t.text
         /\ \A n \in DOMAIN found[k] : \E t \in Deciding(k) : t.name = n
<1>1. \A i \in 1..Len(AllOf(k)) : AllOf(k)[i].name \in Nat
  BY FilesOfTree
<1>2. ASSUME NEW n \in DOMAIN found[k] PROVE n \in Nat /\ \E t \in Deciding(k) : t.name = n
  <2>1. PICK i \in 1..Len(AllOf(k)) : HasLastWord(AllOf(k), i) /\ AllOf(k)[i].name = n
    BY DEF Reflects
  <2>2. AllOf(k)[i] \in Deciding(k)
    BY <2>1 DEF Deciding
  <2> QED
    BY <1>1, <2>1, <2>2
<1>3. ASSUME NEW t \in Deciding(k) PROVE t.name \in DOMAIN found[k] /\ found[k][t.name] = t.text
  <2>1. PICK i \in 1..Len(AllOf(k)) : HasLastWord(AllOf(k), i) /\ t = AllOf(k)[i]
    BY DEF Deciding
  <2> QED
    BY <2>1 DEF Reflects
<1> QED
  BY <1>2, <1>3

LEMMA FoundNames ==
  ASSUME RenderInv, result = Transpiling, NEW k \in Kinds
  PROVE  DOMAIN found[k] \subseteq Nat
BY DecidingNames DEF RenderInv, ReadWhole

LEMMA MergesNext ==
  ASSUME RenderInv, PrecedenceInv, TranspileNext
  PROVE  PrecedenceInv'
<1> DEFINE k1 == pending[1][1]
<1>1. /\ result = Transpiling /\ result' = Transpiling /\ pending # <<>>
      /\ outConfig' = [outConfig EXCEPT ![k1] = Merge(outConfig[k1], Entry(k1, pending[1][2]))]
      /\ pending' = Tail(pending) /\ found' = found
  BY DEF TranspileNext, walking
<1>2. DOMAIN outConfig = Parts
  BY <1>1 DEF PrecedenceInv, TranspileInv
<1>3. PICK left \in Seq(Parts \X Nat) :
        /\ TextsOf(found, pending, left) /\ InOrder(found, left)
        /\ \A k \in Parts : Merged(Entries(found, k), outConfig[k], Done(found, k, left))
  BY <1>1 DEF PrecedenceInv, TranspileInv
<1>4. pending \in Seq(ToSet(pending)) /\ Len(pending) >= 1 /\ Len(pending) \in Nat
  BY <1>1 DEF RenderInv, PendingInv
<1>5. left # <<>> /\ 1 \in 1..Len(left) /\ left[1] \in Parts \X Nat
  BY <1>3, <1>4 DEF TextsOf
<1> DEFINE name1 == left[1][2]
           rest  == Tail(left)
<1>6. k1 = left[1][1] /\ k1 \in Parts /\ name1 \in DOMAIN found[k1] /\ name1 \in Nat
      /\ pending[1][2] = found[k1][name1]
  BY <1>3, <1>5 DEF TextsOf
<1>7. /\ InOrder(found, rest)
      /\ Done(found, k1, rest) = Done(found, k1, left) \cup {name1}
      /\ \A k \in Parts \ {k1} : Done(found, k, rest) = Done(found, k, left)
      /\ \A n \in Done(found, k1, left) : n < name1
  <2>1. left[1][2] \in DOMAIN found[left[1][1]]
    BY <1>6
  <2>2. InOrder(found, left)
    BY <1>3
  <2>3. /\ InOrder(found, rest)
        /\ Done(found, left[1][1], rest) = Done(found, left[1][1], left) \cup {name1}
        /\ \A k \in Parts \ {left[1][1]} : Done(found, k, rest) = Done(found, k, left)
        /\ \A n \in Done(found, left[1][1], left) : n < name1
    BY <1>5, <2>1, <2>2, NextName
  <2> HIDE DEF k1, name1, rest
  <2> QED
    BY <1>6, <2>3
<1>8. rest \in Seq(Parts \X Nat)
  BY <1>5
<1>9. TextsOf(found, pending', rest)
  <2>1. /\ Len(left) \in Nat /\ Len(left) = Len(pending)
        /\ Len(rest) = Len(left) - 1 /\ Len(Tail(pending)) = Len(pending) - 1
    BY <1>3, <1>4, <1>5 DEF TextsOf
  <2>2. ASSUME NEW i \in 1..Len(rest)
        PROVE  i + 1 \in 1..Len(left) /\ rest[i] = left[i + 1] /\ Tail(pending)[i] = pending[i + 1]
    BY <1>4, <1>5, <2>1
  <2> HIDE DEF rest
  <2>3. ASSUME NEW i \in 1..Len(rest)
        PROVE  /\ rest[i][2] \in DOMAIN found[rest[i][1]]
               /\ Tail(pending)[i] = <<rest[i][1], found[rest[i][1]][rest[i][2]]>>
    BY <1>3, <2>2 DEF TextsOf
  <2> QED
    BY <1>1, <2>1, <2>3 DEF TextsOf
<1> HIDE DEF k1, name1, rest
<1>10. ASSUME NEW k \in Parts
       PROVE  Merged(Entries(found, k), outConfig'[k], Done(found, k, rest))
  <2>1. CASE k # k1
    <3>1. outConfig'[k] = outConfig[k]
      BY <1>1, <1>2, <1>6, <2>1
    <3> QED
      BY <1>3, <1>7, <2>1, <3>1
  <2>2. CASE k = k1
    <3>1. Entries(found, k)[name1] = Entry(k, found[k][name1])
      BY <1>6, <2>2 DEF Entries
    <3>2. outConfig'[k] = Merge(outConfig[k], Entries(found, k)[name1])
      BY <1>1, <1>2, <1>6, <2>2, <3>1
    <3>3. Done(found, k, left) \in SUBSET Nat
      BY <1>1, FoundNames DEF Done, Parts, Kinds
    <3>4. Merged(Entries(found, k), Merge(outConfig[k], Entries(found, k)[name1]),
                 Done(found, k, left) \cup {name1})
      BY <1>3, <1>6, <1>7, <2>2, <3>3, OneMoreMerged
    <3> QED
      BY <1>7, <2>2, <3>2, <3>4
  <2> QED
    BY <2>1, <2>2
<1>11. DOMAIN outConfig' = Parts
  BY <1>1, <1>2
<1>12. TranspileInv'
  BY <1>1, <1>7, <1>8, <1>9, <1>10, <1>11 DEF TranspileInv
<1> QED
  BY <1>1, <1>12 DEF PrecedenceInv, PrecedenceByName, Start, Walking, Transpiling, Outcome

-----------------------------------------------------------------------------
(* The first step of the transpilation.                                    *)

\* Every name, those of the files before those of the units.
AllNames(maps) ==
  LET files == Cardinality(DOMAIN maps["files"])
      units == Cardinality(DOMAIN maps["units"])
  IN  [i \in 1..(files + units) |->
         IF i <= files THEN <<"files", SortedNames(maps["files"])[i]>>
         ELSE <<"units", SortedNames(maps["units"])[i - files]>>]

LEMMA AllNamesLeft ==
  ASSUME NEW maps,
         \A k \in Parts : IsFiniteSet(DOMAIN maps[k]) /\ DOMAIN maps[k] \subseteq Nat
  PROVE  /\ AllNames(maps) \in Seq(Parts \X Nat)
         /\ InOrder(maps, AllNames(maps))
         /\ \A k \in Parts : Done(maps, k, AllNames(maps)) = {}
         /\ \A i \in 1..Len(AllNames(maps)) :
              AllNames(maps)[i][2] \in DOMAIN maps[AllNames(maps)[i][1]]
         /\ Len(AllNames(maps)) = Cardinality(DOMAIN maps["files"]) + Cardinality(DOMAIN maps["units"])
<1> DEFINE files == Cardinality(DOMAIN maps["files"])
           units == Cardinality(DOMAIN maps["units"])
           f     == SortedNames(maps["files"])
           u     == SortedNames(maps["units"])
           all   == AllNames(maps)
<1>1. /\ files \in Nat
      /\ \A i \in 1..files : f[i] \in DOMAIN maps["files"] /\ f[i] \in Nat
      /\ \A i, j \in 1..files : i < j => f[i] < f[j]
      /\ \A n \in DOMAIN maps["files"] : \E i \in 1..files : f[i] = n
  BY NamesSorted DEF Parts
<1>2. /\ units \in Nat
      /\ \A i \in 1..units : u[i] \in DOMAIN maps["units"] /\ u[i] \in Nat
      /\ \A i, j \in 1..units : i < j => u[i] < u[j]
      /\ \A n \in DOMAIN maps["units"] : \E i \in 1..units : u[i] = n
  BY NamesSorted DEF Parts
<1>3. all = [i \in 1..(files + units) |-> IF i <= files THEN <<"files", f[i]>> ELSE <<"units", u[i - files]>>]
  BY DEF AllNames
<1> HIDE DEF files, units, f, u, all
<1>4. \A i \in 1..files : i \in 1..(files + units) /\ all[i] = <<"files", f[i]>>
  BY <1>1, <1>2, <1>3
<1>5. ASSUME NEW i \in 1..units
      PROVE  files + i \in 1..(files + units) /\ all[files + i] = <<"units", u[i]>>
  <2>1. files + i \in 1..(files + units) /\ ~(files + i <= files) /\ (files + i) - files = i
    BY <1>1, <1>2
  <2>2. all[files + i] = <<"units", u[(files + i) - files]>>
    BY <1>3, <2>1
  <2> QED
    BY <2>1, <2>2
<1>6. ASSUME NEW i \in 1..(files + units)
      PROVE  \/ i \in 1..files /\ all[i] = <<"files", f[i]>>
             \/ \E j \in 1..units : i = files + j /\ all[i] = <<"units", u[j]>>
  <2>1. CASE i <= files
    <3>1. i \in 1..files
      BY <1>1, <1>2, <2>1
    <3> QED
      BY <1>4, <3>1
  <2>2. CASE ~(i <= files)
    <3>1. i - files \in 1..units /\ i = files + (i - files)
      BY <1>1, <1>2, <2>2
    <3>2. all[i] = <<"units", u[i - files]>>
      BY <1>3, <2>2
    <3> QED
      BY <3>1, <3>2
  <2> QED
    BY <2>1, <2>2
<1>7. ASSUME NEW i \in 1..(files + units)
      PROVE  all[i] \in Parts \X Nat /\ all[i][2] \in DOMAIN maps[all[i][1]]
  <2>1. CASE i \in 1..files /\ all[i] = <<"files", f[i]>>
    BY <1>1, <2>1 DEF Parts
  <2>2. ASSUME NEW j \in 1..units, all[i] = <<"units", u[j]>>
        PROVE  all[i] \in Parts \X Nat /\ all[i][2] \in DOMAIN maps[all[i][1]]
    BY <1>2, <2>2 DEF Parts
  <2> QED
    BY <1>6, <2>1, <2>2
<1>8. all \in Seq(Parts \X Nat) /\ Len(all) = files + units
  <2>1. all = [i \in 1..(files + units) |-> all[i]] /\ files + units \in Nat
    BY <1>1, <1>2, <1>3
  <2> QED
    BY <1>7, <2>1
<1>9. ASSUME NEW k \in Parts, NEW n \in DOMAIN maps[k] PROVE \E i \in 1..Len(all) : all[i] = <<k, n>>
  <2>1. CASE k = "files"
    <3>1. PICK i \in 1..files : f[i] = n
      BY <1>1, <1>9, <2>1
    <3> QED
      BY <1>4, <1>8, <2>1, <3>1
  <2>2. CASE k = "units"
    <3>1. PICK i \in 1..units : u[i] = n
      BY <1>2, <1>9, <2>2
    <3> QED
      BY <1>5, <1>8, <2>2, <3>1
  <2> QED
    BY <2>1, <2>2 DEF Parts
<1>10. \A k \in Parts : Done(maps, k, all) = {}
  BY <1>9 DEF Done
<1>11. InOrder(maps, all)
  <2>1. ASSUME NEW i \in 1..Len(all), NEW j \in 1..Len(all), i < j, all[i][1] = all[j][1]
        PROVE  all[i][2] < all[j][2]
    <3>0. i \in 1..(files + units) /\ j \in 1..(files + units)
      BY <1>8
    <3>1. CASE all[i][1] = "files"
      <4>0. all[j][1] = "files"
        BY <2>1, <3>1
      <4>1. /\ i \in 1..files /\ all[i] = <<"files", f[i]>>
            /\ j \in 1..files /\ all[j] = <<"files", f[j]>>
        <5>1. i \in 1..files /\ all[i] = <<"files", f[i]>>
          BY <1>6, <3>0, <3>1
        <5>2. j \in 1..files /\ all[j] = <<"files", f[j]>>
          BY <1>6, <3>0, <4>0
        <5> QED
          BY <5>1, <5>2
      <4>2. f[i] < f[j]
        BY <1>1, <2>1, <4>1
      <4> QED
        BY <4>1, <4>2
    <3>2. CASE all[i][1] # "files"
      <4>1. PICK a \in 1..units : i = files + a /\ all[i] = <<"units", u[a]>>
        BY <1>6, <3>0, <3>2
      <4>2. PICK b \in 1..units : j = files + b /\ all[j] = <<"units", u[b]>>
        BY <1>6, <2>1, <3>0, <3>2
      <4>3. a < b
        BY <1>1, <1>2, <2>1, <4>1, <4>2
      <4>4. u[a] < u[b]
        BY <1>2, <4>3
      <4> QED
        BY <4>1, <4>2, <4>4
    <3> QED
      BY <3>1, <3>2
  <2> QED
    BY <1>10, <2>1 DEF InOrder
<1>12. \A i \in 1..Len(all) : all[i][2] \in DOMAIN maps[all[i][1]]
  BY <1>7, <1>8
<1> QED
  BY <1>8, <1>10, <1>11, <1>12 DEF all, files, units

\* The texts that StartTranspile puts in a row.
LEMMA TaggedTexts ==
  ASSUME \A k \in Parts : IsFiniteSet(DOMAIN found[k]) /\ DOMAIN found[k] \subseteq Nat
  PROVE  TextsOf(found, Tagged("files") \o Tagged("units"), AllNames(found))
<1> DEFINE files == Cardinality(DOMAIN found["files"])
           units == Cardinality(DOMAIN found["units"])
           f     == SortedNames(found["files"])
           u     == SortedNames(found["units"])
           all   == AllNames(found)
           texts == Tagged("files") \o Tagged("units")
<1>1. /\ files \in Nat /\ DOMAIN Tagged("files") = 1..files
      /\ \A i \in 1..files : Tagged("files")[i] = <<"files", found["files"][f[i]]>>
  BY FS_CardinalityType DEF Tagged, keySortVals, Parts
<1>2. /\ units \in Nat /\ DOMAIN Tagged("units") = 1..units
      /\ \A i \in 1..units : Tagged("units")[i] = <<"units", found["units"][u[i]]>>
  BY FS_CardinalityType DEF Tagged, keySortVals, Parts
<1>3. Tagged("files") \in Seq(ToSet(Tagged("files"))) /\ Tagged("units") \in Seq(ToSet(Tagged("units")))
  BY EveryTextTagged DEF Parts
<1>4. /\ \A i \in 1..Len(all) : all[i][2] \in DOMAIN found[all[i][1]]
      /\ Len(all) = files + units
  BY AllNamesLeft
<1>5. all = [i \in 1..(files + units) |-> IF i <= files THEN <<"files", f[i]>> ELSE <<"units", u[i - files]>>]
  BY DEF AllNames
<1> HIDE DEF files, units, f, u, all
<1>6. Len(Tagged("files")) = files /\ Len(Tagged("units")) = units
  BY <1>1, <1>2, <1>3
<1>7. /\ Len(texts) = files + units
      /\ \A i \in 1..files : texts[i] = Tagged("files")[i]
      /\ \A i \in 1..units : texts[files + i] = Tagged("units")[i]
  <2> DEFINE S == ToSet(Tagged("files")) \cup ToSet(Tagged("units"))
  <2>1. Tagged("files") \in Seq(S) /\ Tagged("units") \in Seq(S)
    BY <1>3
  <2> QED
    BY <1>6, <2>1
<1> HIDE DEF texts
<1>8. ASSUME NEW i \in 1..Len(all)
      PROVE  texts[i] = <<all[i][1], found[all[i][1]][all[i][2]]>>
  <2>1. CASE i <= files
    <3>1. i \in 1..files /\ all[i] = <<"files", f[i]>>
      BY <1>1, <1>2, <1>4, <1>5, <2>1
    <3> QED
      BY <1>1, <1>7, <3>1
  <2>2. CASE ~(i <= files)
    <3>1. i - files \in 1..units /\ files + (i - files) = i
      BY <1>1, <1>2, <1>4, <2>2
    <3>2. all[i] = <<"units", u[i - files]>>
      BY <1>4, <1>5, <2>2
    <3>3. texts[files + (i - files)] = Tagged("units")[i - files]
      BY <1>7, <3>1
    <3>4. texts[i] = <<"units", found["units"][u[i - files]]>>
      BY <1>2, <3>1, <3>3
    <3> QED
      BY <3>2, <3>4
  <2> QED
    BY <2>1, <2>2
<1> QED
  BY <1>4, <1>7, <1>8 DEF TextsOf, texts, all

LEMMA StartsMerging ==
  ASSUME RenderInv, PrecedenceInv, StartTranspile
  PROVE  PrecedenceInv'
<1>1. /\ result = Walking /\ walk = <<>> /\ todo = <<>>
      /\ pending' = Tagged("files") \o Tagged("units")
      /\ result' = Transpiling /\ found' = found /\ outConfig' = outConfig
  BY DEF StartTranspile, Tagged, walking
<1>2. ReadWhole /\ TreeInv /\ FoundInv
  BY <1>1, WalkIsOver DEF RenderInv
<1>3. \A k \in Parts : IsFiniteSet(DOMAIN found[k]) /\ DOMAIN found[k] \subseteq Nat
  BY <1>2, DecidingNames DEF Parts, Kinds, FoundInv, ReadWhole
<1>4. TextsOf(found, pending', AllNames(found))
  BY <1>1, <1>3, TaggedTexts
<1>5. outConfig = NoEntries
  BY <1>1 DEF PrecedenceInv
<1>6. DOMAIN outConfig = Parts /\ \A k \in Parts : outConfig[k] = <<>>
  BY <1>5 DEF NoEntries, Parts
<1>7. \A entries : Merged(entries, <<>>, {})
  BY DEF Merged, OneForEachKey, ByFirstName, NothingLost, FromGreatestName, ToSet
<1>8. TranspileInv'
  <2>1. /\ AllNames(found) \in Seq(Parts \X Nat) /\ InOrder(found, AllNames(found))
        /\ \A k \in Parts : Done(found, k, AllNames(found)) = {}
    BY <1>3, AllNamesLeft
  <2>2. \A k \in Parts : Merged(Entries(found, k), outConfig[k], Done(found, k, AllNames(found)))
    BY <1>6, <1>7, <2>1
  <2> QED
    BY <1>1, <1>4, <1>6, <2>1, <2>2 DEF TranspileInv
<1> QED
  BY <1>1, <1>8 DEF PrecedenceInv, PrecedenceByName, Start, Walking, Transpiling, Outcome

-----------------------------------------------------------------------------
(* What is returned.                                                       *)

LEMMA LeastName ==
  ASSUME NEW S, S \subseteq Nat, S # {}
  PROVE  Min(S) \in S /\ \A n \in S : Min(S) <= n
<1> DEFINE Less == {pair \in Nat \X Nat : pair[1] < pair[2]}
<1>1. IsWellFoundedOn(Less, Nat)
  BY NatLessThanWellFounded, Zenon DEF OpToRel
<1>2. PICK x \in S : \A y \in S : ~(<<y, x>> \in Less)
  BY <1>1, WFMin
<1>3. ASSUME NEW y \in S PROVE x <= y
  <2>1. x \in Nat /\ y \in Nat
    OBVIOUS
  <2>2. <<y, x>> \in Nat \X Nat /\ <<y, x>>[1] = y /\ <<y, x>>[2] = x
    BY <2>1
  <2>3. ~(y < x)
    BY <1>2, <2>2
  <2> QED
    BY <2>1, <2>3
<1> QED
  BY <1>3 DEF Min

LEMMA GreatestName ==
  ASSUME NEW S, S \subseteq Nat, NEW n \in S, \A o \in S : o <= n
  PROVE  Max(S) = n
<1>1. \A o \in S : (\A p \in S : o >= p) => o = n
  <2>1. ASSUME NEW o \in S, \A p \in S : o >= p PROVE o = n
    <3>1. o \in Nat /\ n \in Nat /\ o >= n /\ o <= n
      BY <2>1
    <3> QED
      BY <3>1
  <2> QED
    BY <2>1
<1>2. \A p \in S : n >= p
  OBVIOUS
<1> QED
  BY <1>1, <1>2 DEF Max

\* What PrecedenceByName says of a list, in terms of the maps.
LEMMA ListByPrecedence ==
  ASSUME TreeInv, NEW k \in Parts, Reflects(found[k], AllOf(k)),
         NEW list, Merged(Entries(found, k), list, DOMAIN found[k])
  PROVE  InPrecedence(k, list)
<1> DEFINE names1  == DOMAIN found[k]
           entries == Entries(found, k)
<1>1. /\ names1 \subseteq Nat
      /\ \A t \in Deciding(k) : t.name \in names1 /\ found[k][t.name] = t.text
      /\ \A n \in names1 : \E t \in Deciding(k) : t.name = n
  BY DecidingNames DEF Parts, Kinds
<1>2. \A n \in names1 : entries[n] = Entry(k, found[k][n]) /\ entries[n].key = found[k][n].key
  <2>1. \A n \in names1 : entries[n] = Entry(k, found[k][n])
    BY DEF Entries
  <2>2. \A text : Entry(k, text).key = text.key
    BY DEF Entry
  <2> QED
    BY <2>1, <2>2
<1>3. /\ list \in Seq(ToSet(list)) /\ Len(list) \in Nat
      /\ OneForEachKey(entries, list, names1) /\ ByFirstName(entries, list, names1)
      /\ NothingLost(entries, list, names1) /\ FromGreatestName(entries, list, names1)
  BY DEF Merged
<1> HIDE DEF names1, entries
<1>4. \A t \in Deciding(k) :
        t.name \in names1 /\ entries[t.name] = Entry(k, t.text) /\ entries[t.name].key = t.text.key
  BY <1>1, <1>2
<1>5. \A n \in names1 : \E t \in Deciding(k) :
        t.name = n /\ entries[n] = Entry(k, t.text) /\ entries[n].key = t.text.key
  BY <1>1, <1>2
<1>6. \A e \in ToSet(list) : \E i \in 1..Len(list) : e = list[i]
  BY <1>3 DEF ToSet
<1>7. \A i \in 1..Len(list) : list[i] \in ToSet(list)
  BY <1>3
<1>8. {e.key : e \in ToSet(list)} = {t.text.key : t \in Deciding(k)}
  <2>1. ASSUME NEW e \in ToSet(list) PROVE \E t \in Deciding(k) : t.text.key = e.key
    <3>1. PICK i \in 1..Len(list) : e = list[i]
      BY <1>6
    <3>2. PICK n \in names1 : entries[n].key = list[i].key
      BY <1>3 DEF OneForEachKey
    <3>3. PICK t \in Deciding(k) : entries[n].key = t.text.key
      BY <1>5
    <3> QED
      BY <3>1, <3>2, <3>3
  <2>2. ASSUME NEW t \in Deciding(k) PROVE \E e \in ToSet(list) : e.key = t.text.key
    <3>1. t.name \in names1 /\ entries[t.name].key = t.text.key
      BY <1>4
    <3>2. PICK i \in 1..Len(list) : list[i].key = entries[t.name].key
      BY <1>3, <3>1 DEF OneForEachKey
    <3> QED
      BY <1>7, <3>1, <3>2
  <2> QED
    BY <2>1, <2>2
\* The names of a key, as the maps have them.
<1>9. ASSUME NEW key, NEW n PROVE n \in NamesOf(k, key) <=> n \in names1 /\ entries[n].key = key
  <2>1. ASSUME n \in NamesOf(k, key) PROVE n \in names1 /\ entries[n].key = key
    <3>1. PICK t \in Deciding(k) : t.text.key = key /\ t.name = n
      BY <2>1 DEF NamesOf
    <3> QED
      BY <1>4, <3>1
  <2>2. ASSUME n \in names1, entries[n].key = key PROVE n \in NamesOf(k, key)
    <3>1. PICK t \in Deciding(k) : t.name = n /\ entries[n].key = t.text.key
      BY <1>5, <2>2
    <3> QED
      BY <2>2, <3>1 DEF NamesOf
  <2> QED
    BY <2>1, <2>2
<1>10. ASSUME NEW i \in 1..Len(list), NEW j \in 1..Len(list), i < j
       PROVE  Min(NamesOf(k, list[i].key)) < Min(NamesOf(k, list[j].key))
  <2>1. PICK n \in names1 : /\ entries[n].key = list[i].key
                            /\ \A o \in names1 : entries[o].key = list[j].key => n < o
    BY <1>3, <1>10 DEF ByFirstName
  <2>2. PICK o \in names1 : entries[o].key = list[j].key
    BY <1>3 DEF OneForEachKey
  <2> DEFINE I == NamesOf(k, list[i].key)
             J == NamesOf(k, list[j].key)
  <2>3. I \subseteq Nat /\ J \subseteq Nat /\ n \in I /\ o \in J /\ \A p \in J : n < p
    BY <1>1, <1>9, <2>1, <2>2
  <2> HIDE DEF I, J
  <2>4. Min(I) <= n /\ Min(I) \in I /\ Min(J) \in J
    BY <2>3, LeastName
  <2>5. Min(I) \in Nat /\ Min(J) \in Nat /\ n \in Nat /\ n < Min(J)
    BY <2>3, <2>4
  <2>6. Min(I) < Min(J)
    BY <2>4, <2>5
  <2> QED
    BY <2>6 DEF I, J
<1>11. ASSUME NEW key, NEW attr, NEW n
       PROVE  n \in NamesSetting(k, key, attr) <=> n \in names1 /\ Sets(entries, n, key, attr)
  <2>1. ASSUME n \in NamesSetting(k, key, attr) PROVE n \in names1 /\ Sets(entries, n, key, attr)
    <3>1. PICK t \in Deciding(k) :
            t.text.key = key /\ attr \in DOMAIN Entry(k, t.text).attrs /\ t.name = n
      BY <2>1 DEF NamesSetting
    <3> QED
      BY <1>4, <3>1 DEF Sets
  <2>2. ASSUME n \in names1, Sets(entries, n, key, attr) PROVE n \in NamesSetting(k, key, attr)
    <3>1. PICK t \in Deciding(k) :
            t.name = n /\ entries[n] = Entry(k, t.text) /\ entries[n].key = t.text.key
      BY <1>5, <2>2
    <3>2. t.text.key = key /\ attr \in DOMAIN Entry(k, t.text).attrs
      BY <2>2, <3>1 DEF Sets
    <3> QED
      BY <3>1, <3>2 DEF NamesSetting
  <2> QED
    BY <2>1, <2>2
<1>12. ASSUME NEW e \in ToSet(list), NEW attr \in DOMAIN e.attrs
       PROVE  \E t \in Deciding(k) :
                /\ t.text.key = e.key /\ attr \in DOMAIN Entry(k, t.text).attrs
                /\ t.name = Max(NamesSetting(k, e.key, attr))
                /\ Entry(k, t.text).attrs[attr] = e.attrs[attr]
  <2>1. PICK i \in 1..Len(list) : e = list[i]
    BY <1>6
  <2>2. PICK n \in names1 :
          /\ Sets(entries, n, e.key, attr)
          /\ entries[n].attrs[attr] = e.attrs[attr]
          /\ \A o \in names1 : Sets(entries, o, e.key, attr) => o <= n
    BY <1>3, <1>12, <2>1 DEF FromGreatestName
  <2>3. PICK t \in Deciding(k) :
          t.name = n /\ entries[n] = Entry(k, t.text) /\ entries[n].key = t.text.key
    BY <1>5
  <2> DEFINE S == NamesSetting(k, e.key, attr)
  <2>4. S \subseteq Nat /\ n \in S /\ \A o \in S : o <= n
    BY <1>1, <1>11, <2>2
  <2> HIDE DEF S
  <2>5. Max(S) = n
    BY <2>4, GreatestName
  <2>6. t.text.key = e.key /\ attr \in DOMAIN Entry(k, t.text).attrs
    BY <2>2, <2>3 DEF Sets
  <2> QED
    BY <2>2, <2>3, <2>5, <2>6 DEF S
<1>13. ASSUME NEW e \in ToSet(list)
       PROVE  DOMAIN e.attrs = UNION {DOMAIN Entry(k, t.text).attrs :
                                       t \in {u \in Deciding(k) : u.text.key = e.key}}
  <2>1. PICK i \in 1..Len(list) : e = list[i]
    BY <1>6
  <2>2. ASSUME NEW t \in Deciding(k), t.text.key = e.key
        PROVE  DOMAIN Entry(k, t.text).attrs \subseteq DOMAIN e.attrs
    <3>1. t.name \in names1 /\ entries[t.name] = Entry(k, t.text) /\ entries[t.name].key = list[i].key
      BY <1>4, <2>1, <2>2
    <3>2. DOMAIN entries[t.name].attrs \subseteq DOMAIN list[i].attrs
      BY <1>3, <3>1 DEF NothingLost
    <3> QED
      BY <2>1, <3>1, <3>2
  <2>3. ASSUME NEW attr \in DOMAIN e.attrs
        PROVE  \E t \in Deciding(k) : t.text.key = e.key /\ attr \in DOMAIN Entry(k, t.text).attrs
    BY <1>12
  <2> QED
    BY <2>2, <2>3
<1> QED
  BY <1>8, <1>10, <1>12, <1>13 DEF InPrecedence

\* What decides, and what follows from it, depends on the input only.
LEMMA SameDeciding ==
  ASSUME UNCHANGED input
  PROVE  /\ \A k : Deciding(k)' = Deciding(k)
         /\ \A k, list : InPrecedence(k, list) => InPrecedence(k, list)'
<1>1. \A k : Deciding(k)' = Deciding(k)
  BY SameDecisions
<1>2. /\ \A k, key : NamesOf(k, key)' = NamesOf(k, key)
      /\ \A k, key, attr : NamesSetting(k, key, attr)' = NamesSetting(k, key, attr)
  BY <1>1 DEF NamesOf, NamesSetting
<1>3. ASSUME NEW k, NEW list, InPrecedence(k, list) PROVE InPrecedence(k, list)'
  BY <1>1, <1>2, <1>3 DEF InPrecedence
<1> QED
  BY <1>1, <1>3

LEMMA ReturnsByPrecedence ==
  ASSUME RenderInv, PrecedenceInv, ReturnMachineConfig
  PROVE  PrecedenceInv'
<1> DEFINE names1 == SortedNames(found["extensions"])
           count  == Cardinality(DOMAIN found["extensions"])
<1>1. /\ result = Transpiling /\ pending = <<>> /\ result'.outcome = "ok"
      /\ result'.config = outConfig /\ result'.extensions = names1
      /\ UNCHANGED <<input, found>>
  BY DEF ReturnMachineConfig, walking
<1>2. ReadWhole /\ TreeInv /\ FoundInv
  BY <1>1 DEF RenderInv
<1>3. PICK left \in Seq(Parts \X Nat) :
        /\ TextsOf(found, pending, left)
        /\ \A k \in Parts : Merged(Entries(found, k), outConfig[k], Done(found, k, left))
  BY <1>1 DEF PrecedenceInv, TranspileInv
<1>4. Len(left) = 0
  BY <1>1, <1>3 DEF TextsOf
<1>5. \A k : Done(found, k, left) = DOMAIN found[k]
  BY <1>4 DEF Done
<1>6. \A k \in Kinds : Deciding(k)' = Deciding(k)
  BY <1>1, SameDeciding
<1>7. ASSUME NEW k \in Parts
      PROVE  InPrecedence(k, result.config[k])'
  <2>1. Merged(Entries(found, k), outConfig[k], DOMAIN found[k])
    BY <1>3, <1>5
  <2>2. Reflects(found[k], AllOf(k))
    BY <1>2 DEF ReadWhole, Parts, Kinds
  <2>3. InPrecedence(k, outConfig[k])
    BY <1>2, <2>1, <2>2, ListByPrecedence
  <2>4. InPrecedence(k, outConfig[k]) => InPrecedence(k, result.config[k])'
    BY <1>1, SameDeciding
  <2> QED
    BY <2>3, <2>4
<1>8. /\ DOMAIN SortedNames(found["extensions"]) = 1..count
      /\ Len(SortedNames(found["extensions"])) = count
  BY <1>2, DecidingNames, NamesSorted DEF FoundInv, ReadWhole, Kinds
<1>9. /\ DOMAIN found["extensions"] \subseteq Nat
      /\ \A t \in Deciding("extensions") : t.name \in DOMAIN found["extensions"]
      /\ \A n \in DOMAIN found["extensions"] : \E t \in Deciding("extensions") : t.name = n
  BY <1>2, DecidingNames DEF ReadWhole, Kinds
<1>10. /\ count \in Nat /\ DOMAIN names1 = 1..count
       /\ \A i \in 1..count : names1[i] \in DOMAIN found["extensions"]
       /\ \A i, j \in 1..count : i < j => names1[i] < names1[j]
       /\ \A n \in DOMAIN found["extensions"] : \E i \in 1..count : names1[i] = n
  <2>1. IsFiniteSet(DOMAIN found["extensions"])
    BY <1>2 DEF FoundInv, Kinds
  <2> QED
    BY <1>9, <2>1, NamesSorted
<1> HIDE DEF names1, count
<1>12. ToSet(names1) = {t.name : t \in Deciding("extensions")}
  <2>1. \A n \in ToSet(names1) : n \in DOMAIN found["extensions"]
    BY <1>10 DEF ToSet
  <2>2. \A n \in DOMAIN found["extensions"] : n \in ToSet(names1)
    BY <1>10 DEF ToSet
  <2> QED
    BY <1>9, <2>1, <2>2
<1>13. PrecedenceByName'
  <2>1. Len(names1) = count
    BY <1>8 DEF names1
  <2>2. /\ ToSet(result'.extensions) = {t.name : t \in Deciding("extensions")'}
        /\ \A i, j \in 1..Len(result'.extensions) :
             i < j => result'.extensions[i] < result'.extensions[j]
    BY <1>1, <1>6, <1>10, <1>12, <2>1 DEF Kinds
  <2> QED
    BY <1>7, <2>2 DEF PrecedenceByName, Parts
<1> QED
  BY <1>1, <1>13 DEF PrecedenceInv, Start, Walking, Transpiling, Outcome

LEMMA SamePrecedence ==
  ASSUME PrecedenceInv, UNCHANGED vars
  PROVE  PrecedenceInv'
<1>1. UNCHANGED <<input, found, pending, outConfig, result>>
  BY DEF vars, input
<1>2. \A k : Deciding(k)' = Deciding(k)
  BY <1>1, SameDeciding
<1>3. ASSUME NEW k, InPrecedence(k, result.config[k]) PROVE InPrecedence(k, result.config[k])'
  BY <1>1, <1>3, SameDeciding
<1>4. PrecedenceByName'
  BY <1>1, <1>2, <1>3 DEF PrecedenceInv, PrecedenceByName
<1>5. TranspileInv' <=> TranspileInv
  BY <1>1 DEF TranspileInv
<1> QED
  BY <1>1, <1>4, <1>5 DEF PrecedenceInv

LEMMA NextPrecedence == RenderInv /\ PrecedenceInv /\ [Next]_vars => PrecedenceInv'
<1> SUFFICES ASSUME RenderInv, PrecedenceInv, [Next]_vars PROVE PrecedenceInv'
  OBVIOUS
<1>1. ASSUME result \in {Start, Walking}, result' = Walking, outConfig' = outConfig
      PROVE  PrecedenceInv'
  BY <1>1 DEF PrecedenceInv, PrecedenceByName, Start, Walking, Transpiling, Outcome
<1>2. ASSUME result' = Failed PROVE PrecedenceInv'
  BY <1>2 DEF PrecedenceInv, PrecedenceByName, Failed, Start, Walking, Transpiling, Outcome
<1>3. CASE FindPlatformDirs
  BY <1>1, <1>3 DEF FindPlatformDirs, building
<1>4. CASE EnterDir \/ SkipMissingDir
  BY <1>1, <1>4 DEF EnterDir, SkipMissingDir, BetweenDirs, building
<1>5. CASE EmptyTemplate \/ BlankTemplate \/ TextTemplate
  <2>1. AtTemplate /\ UNCHANGED <<building, result>>
    BY <1>5 DEF EmptyTemplate, BlankTemplate, TextTemplate, Filtered
  <2> QED
    BY <1>1, <2>1 DEF AtTemplate, building
<1>6. CASE PlatformDirIsNoDir \/ DirIsNoDir \/ BrokenTemplate \/ ReadFails \/ TranspileFails
  BY <1>2, <1>6 DEF PlatformDirIsNoDir, DirIsNoDir, BrokenTemplate, ReadFails, TranspileFails
<1>7. CASE StartTranspile
  BY <1>7, StartsMerging
<1>8. CASE TranspileNext
  BY <1>8, MergesNext
<1>9. CASE ReturnMachineConfig
  BY <1>9, ReturnsByPrecedence
<1>10. CASE UNCHANGED vars
  BY <1>10, SamePrecedence
<1> QED
  BY <1>3, <1>4, <1>5, <1>6, <1>7, <1>8, <1>9, <1>10 DEF Next

LEMMA FreshPrecedence ==
  ASSUME Fresh
  PROVE  PrecedenceInv
BY DEF Fresh, PrecedenceInv, PrecedenceByName, Start, Walking, Transpiling, Outcome

\* Each attribute of each path and unit comes from the greatest template name
\* that sets it, among the files that decide their names; there is one entry for
\* each, in the order of the names; extensions are sorted and complete.  For every
\* tree and config, and in every call of the loops over roles and names.
THEOREM GreatestNameWins == LoopSpec => []PrecedenceByName
<1>1. LoopInit => PrecedenceInv
  BY FreshPrecedence DEF LoopInit, OneCall, AllRoles, Init
<1>2. LoopInv /\ PrecedenceInv /\ [LoopNext]_allVars => PrecedenceInv'
  <2> SUFFICES ASSUME LoopInv, PrecedenceInv, [LoopNext]_allVars PROVE PrecedenceInv'
    OBVIOUS
  <2>1. RenderInv
    BY DEF LoopInv
  <2>2. CASE Next
    BY <2>1, <2>2, NextPrecedence
  <2>3. CASE UNCHANGED vars
    BY <2>3, SamePrecedence
  <2>4. CASE CallForName
    <3>1. Fresh'
      BY <2>4 DEF CallForName, Fresh
    <3>2. Fresh' => PrecedenceInv'
      BY FreshPrecedence, PTL
    <3> QED
      BY <3>1, <3>2
  <2> QED
    BY <2>2, <2>3, <2>4
    DEF LoopNext, SkipFile, EnterRole, DirIsUnreadable, NameReturns, NameFails, RoleReturns,
        LoopReturns, allVars
<1>3. PrecedenceInv => PrecedenceByName
  BY DEF PrecedenceInv
<1> QED
  BY <1>1, <1>2, <1>3, LoopInitInv, LoopNextInv, PTL DEF LoopSpec

=============================================================================
