------------------------- MODULE IgnitionConfigProofs -------------------------
(***************************************************************************)
(* ParseAndConvertConfig for all raw configs: what removing duplicates     *)
(* leaves, which versions are supported, and why a config is refused.      *)
(***************************************************************************)
EXTENDS IgnitionConverterProofs

(* Loops.  A loop of the code is a recursive function on the rounds; what  *)
(* it is after round n follows by induction on n.                          *)

\* A loop that starts with s0 and whose round n makes F[<<n, s>>] of s.
Loop(f, S, s0, N, F) ==
  f \in [0..N -> S] /\ f[0] = s0 /\ \A n \in 1..N : f[n] = F[<<n, f[n - 1]>>]

\* Every loop runs.
LEMMA LoopExists ==
  ASSUME NEW S, NEW s0 \in S, NEW N \in Nat, NEW F \in [(1..N) \X S -> S]
  PROVE  \E f : Loop(f, S, s0, N, F)
<1> DEFINE G == [p \in Nat \X S |-> IF p[1] < N THEN F[<<p[1] + 1, p[2]>>] ELSE p[2]]
<1>1. ASSUME NEW n \in Nat, NEW s \in S
      PROVE  G[<<n, s>>] = IF n < N THEN F[<<n + 1, s>>] ELSE s
  OBVIOUS
<1>2. G \in [Nat \X S -> S]
  <2>1. ASSUME NEW p \in Nat \X S
        PROVE  (IF p[1] < N THEN F[<<p[1] + 1, p[2]>>] ELSE p[2]) \in S
    <3>1. p[1] \in Nat /\ p[2] \in S
      OBVIOUS
    <3>2. CASE p[1] < N
      <4>1. <<p[1] + 1, p[2]>> \in (1..N) \X S
        BY <3>1, <3>2
      <4> QED
        BY <3>2, <4>1
    <3> QED
      BY <3>1, <3>2
  <2> QED
    BY <2>1
<1> HIDE DEF G
<1>3. PICK g : Recurs(g, S, s0, G)
  BY <1>2, Recursion
<1>4. PICK f : f = [n \in 0..N |-> g[n]]
  OBVIOUS
<1>5. f \in [0..N -> S] /\ f[0] = s0
  BY <1>3, <1>4 DEF Recurs
<1>6. ASSUME NEW n \in 1..N PROVE f[n] = F[<<n, f[n - 1]>>]
  <2>1. n - 1 \in Nat /\ (n - 1) + 1 = n /\ n - 1 < N /\ n - 1 \in 0..N /\ n \in 0..N
    OBVIOUS
  <2>2. g[n - 1] \in S /\ g[n] = G[<<n - 1, g[n - 1]>>]
    BY <1>3, <2>1 DEF Recurs
  <2>3. G[<<n - 1, g[n - 1]>>] = F[<<n, g[n - 1]>>]
    BY <1>1, <2>1, <2>2
  <2> QED
    BY <1>4, <2>1, <2>2, <2>3
<1> QED
  BY <1>5, <1>6 DEF Loop

\* What runs like a loop is that loop.
LEMMA LoopUnique ==
  ASSUME NEW S, NEW s0 \in S, NEW N \in Nat, NEW F, NEW f, Loop(f, S, s0, N, F),
         NEW g, g[0] = s0, \A n \in 1..N : g[n - 1] \in S => g[n] = F[<<n, g[n - 1]>>]
  PROVE  \A n \in 0..N : g[n] = f[n] /\ g[n] \in S
<1> DEFINE B == {n \in Nat : n <= N => g[n] = f[n] /\ g[n] \in S}
<1>1. 0 \in B
  BY DEF Loop
<1>2. ASSUME NEW n \in Nat, n \in B PROVE n + 1 \in B
  <2> SUFFICES ASSUME n + 1 <= N PROVE g[n + 1] = f[n + 1] /\ g[n + 1] \in S
    OBVIOUS
  <2>1. n + 1 \in 1..N /\ (n + 1) - 1 = n /\ g[n] = f[n] /\ g[n] \in S
    BY <1>2
  <2>2. g[n + 1] = F[<<n + 1, g[n]>>] /\ f[n + 1] = F[<<n + 1, f[n]>>] /\ f[n + 1] \in S
    BY <2>1 DEF Loop
  <2> QED
    BY <2>1, <2>2
<1>3. Nat \subseteq B
  <2> HIDE DEF B
  <2> QED
    BY <1>1, <1>2, SetInduction
<1> QED
  BY <1>3

-----------------------------------------------------------------------------
LEMMA AppendNewType ==
  ASSUME NEW E, NEW list \in Seq(E), NEW entry \in E
  PROVE  AppendNew(list, entry) \in Seq(E)
BY DEF AppendNew

\* The rounds of AppendAllNew.
AppendsAll(out, list, entries) ==
  /\ out[0] = list
  /\ \A n \in 1..Len(entries) : out[n] = AppendNew(out[n - 1], entries[n])

\* AppendAllNew is the last of its rounds.
LEMMA AppendAllDefined ==
  ASSUME NEW E, NEW list \in Seq(E), NEW entries \in Seq(E)
  PROVE  \E out : /\ AppendsAll(out, list, entries)
                  /\ \A n \in 0..Len(entries) : out[n] \in Seq(E)
                  /\ AppendAllNew(list, entries) = out[Len(entries)]
<1>1. PICK N \in Nat : N = Len(entries)
  OBVIOUS
<1> DEFINE S == Seq(E)
           F == [p \in (1..N) \X S |-> AppendNew(p[2], entries[p[1]])]
           out == CHOOSE g : g = [n \in 0..N |-> IF n = 0 THEN list
             ELSE AppendNew(g[n - 1], entries[n])]
<1>2. \A n \in 1..N, s \in S : F[<<n, s>>] = AppendNew(s, entries[n])
  OBVIOUS
<1>3. F \in [(1..N) \X S -> S]
  <2>1. ASSUME NEW p \in (1..N) \X S PROVE AppendNew(p[2], entries[p[1]]) \in S
    <3>1. p[2] \in Seq(E) /\ entries[p[1]] \in E
      BY <1>1
    <3> QED
      BY <3>1, AppendNewType
  <2> QED
    BY <2>1
<1>4. AppendAllNew(list, entries) = out[Len(entries)]
  BY <1>1 DEF AppendAllNew
<1> HIDE DEF S, F
<1>5. list \in S
  BY DEF S
<1>6. PICK f : Loop(f, S, list, N, F)
  BY <1>3, <1>5, LoopExists
<1>7. f = [n \in 0..N |-> IF n = 0 THEN list ELSE AppendNew(f[n - 1], entries[n])]
  <2>1. ASSUME NEW n \in 0..N
        PROVE  f[n] = IF n = 0 THEN list ELSE AppendNew(f[n - 1], entries[n])
    <3>1. CASE n # 0
      <4>1. n \in 1..N /\ n - 1 \in 0..N
        BY <3>1
      <4> QED
        BY <3>1, <4>1, <1>2, <1>6 DEF Loop
    <3> QED
      BY <3>1, <1>6 DEF Loop
  <2> QED
    BY <2>1, <1>6 DEF Loop
<1>8. out = [n \in 0..N |-> IF n = 0 THEN list ELSE AppendNew(out[n - 1], entries[n])]
  BY <1>7, Zenon
<1> HIDE DEF out
<1>9. out[0] = list /\ \A n \in 1..N : out[n] = AppendNew(out[n - 1], entries[n])
  BY <1>8
<1>10. \A n \in 0..N : out[n] \in S
  <2>1. \A n \in 1..N : out[n - 1] \in S => out[n] = F[<<n, out[n - 1]>>]
    BY <1>2, <1>9
  <2> QED
    BY <2>1, <1>5, <1>6, <1>9, LoopUnique
<1> QED
  BY <1>1, <1>4, <1>9, <1>10 DEF AppendsAll, S

-----------------------------------------------------------------------------
(* The files: entries are appended unless their name is there.             *)

\* A list goes on as another one.
Extends(more, list) ==
  Len(list) <= Len(more) /\ \A i \in 1..Len(list) : more[i] = list[i]

\* Nothing in list or before it among the entries has the name of entry k.
IsNew(list, entries, k) ==
  ~Has(list, entries[k].name) /\ \A j \in 1..(k - 1) : entries[j].name # entries[k].name

\* What n entries make of a list.
Appended(out, list, entries, n) ==
  /\ Extends(out, list)
  /\ ToSet(out) = ToSet(list) \cup {entries[k] : k \in {j \in 1..n : IsNew(list, entries, j)}}
  /\ \A name : Has(out, name) <=> Has(list, name) \/ \E k \in 1..n : entries[k].name = name
  /\ Repeats(out) => Repeats(list)

\* What Append does to the entries there and to the list of names.
LEMMA AppendFacts ==
  ASSUME NEW E, NEW list \in Seq(E), NEW entry \in E, NEW more, more = Append(list, entry)
  PROVE  /\ more \in Seq(E) /\ Len(more) = Len(list) + 1 /\ Len(list) \in Nat
         /\ more[Len(list) + 1] = entry /\ \A i \in 1..Len(list) : more[i] = list[i]
         /\ 1..Len(more) = (1..Len(list)) \cup {Len(list) + 1}
<1>1. Len(more) = Len(list) + 1 /\ Len(list) \in Nat
  OBVIOUS
<1>2. 1..Len(more) = (1..Len(list)) \cup {Len(list) + 1}
  BY <1>1
<1> QED
  BY <1>1, <1>2

\* The entries of a list that was appended to.
LEMMA AppendedToSet ==
  ASSUME NEW E, NEW list \in Seq(E), NEW entry \in E, NEW more, more = Append(list, entry)
  PROVE  /\ ToSet(more) = ToSet(list) \cup {entry}
         /\ \A name : Has(more, name) <=> Has(list, name) \/ entry.name = name
<1>1. /\ more \in Seq(E) /\ Len(more) = Len(list) + 1 /\ Len(list) \in Nat
      /\ more[Len(list) + 1] = entry /\ \A i \in 1..Len(list) : more[i] = list[i]
      /\ 1..Len(more) = (1..Len(list)) \cup {Len(list) + 1}
  BY AppendFacts
<1>2. ToSet(more) = ToSet(list) \cup {entry}
  BY ONLY <1>1 DEF ToSet
<1>3. ASSUME NEW name PROVE Has(more, name) <=> Has(list, name) \/ entry.name = name
  BY ONLY <1>1 DEF Has
<1> QED
  BY <1>2, <1>3

\* One round: an entry of a new name is added, any other changes nothing.
LEMMA AppendNewFacts ==
  ASSUME NEW E, NEW list \in Seq(E), NEW entry \in E, NEW more, more = AppendNew(list, entry)
  PROVE  /\ Extends(more, list)
         /\ ToSet(more) = IF Has(list, entry.name) THEN ToSet(list) ELSE ToSet(list) \cup {entry}
         /\ \A name : Has(more, name) <=> Has(list, name) \/ entry.name = name
         /\ Repeats(more) => Repeats(list)
<1>1. CASE Has(list, entry.name)
  <2>1. more = list /\ Len(list) \in Nat
    BY <1>1 DEF AppendNew
  <2> QED
    BY <1>1, <2>1 DEF Extends
<1>2. CASE ~Has(list, entry.name)
  <2>1. more = Append(list, entry)
    BY <1>2 DEF AppendNew
  <2>2. /\ more \in Seq(E) /\ Len(more) = Len(list) + 1 /\ Len(list) \in Nat
        /\ more[Len(list) + 1] = entry /\ \A i \in 1..Len(list) : more[i] = list[i]
        /\ 1..Len(more) = (1..Len(list)) \cup {Len(list) + 1}
    BY <2>1, AppendFacts
  <2>3. Extends(more, list)
    BY <2>2 DEF Extends
  <2>4. ASSUME Repeats(more) PROVE Repeats(list)
    <3>1. PICK i \in 1..Len(more), j \in 1..Len(more) : i # j /\ more[i].name = more[j].name
      BY <2>4 DEF Repeats
    <3>2. \A k \in 1..Len(list) : more[k].name # entry.name
      BY <1>2, <2>2 DEF Has
    <3>3. i \in 1..Len(list) /\ j \in 1..Len(list)
      BY ONLY <2>2, <3>1, <3>2
    <3> QED
      BY <2>2, <3>1, <3>3 DEF Repeats
  <2> QED
    BY <1>2, <2>1, <2>3, <2>4, AppendedToSet
<1> QED
  BY <1>1, <1>2

\* The start and the step of the induction over the rounds.
LEMMA AppendedNone ==
  ASSUME NEW E, NEW list \in Seq(E), NEW entries
  PROVE  Appended(list, list, entries, 0)
<1>1. Len(list) \in Nat /\ 1..0 = {}
  OBVIOUS
<1> QED
  BY <1>1 DEF Appended, Extends

LEMMA AppendedOne ==
  ASSUME NEW E, NEW list \in Seq(E), NEW entries \in Seq(E), NEW out \in Seq(E),
         NEW n \in 1..Len(entries), Appended(out, list, entries, n - 1)
  PROVE  Appended(AppendNew(out, entries[n]), list, entries, n)
<1>1. PICK more, entry : more = AppendNew(out, entry) /\ entry = entries[n]
  OBVIOUS
<1>2. entry \in E /\ Len(entries) \in Nat /\ n \in Nat /\ 1..n = (1..(n - 1)) \cup {n}
  BY <1>1
<1>3. /\ Extends(more, out)
      /\ ToSet(more) = IF Has(out, entry.name) THEN ToSet(out) ELSE ToSet(out) \cup {entry}
      /\ \A name : Has(more, name) <=> Has(out, name) \/ entry.name = name
      /\ Repeats(more) => Repeats(out)
  <2>1. entry \in E
    BY <1>2
  <2> QED
    BY ONLY out \in Seq(E), <1>1, <2>1, AppendNewFacts
<1>4. Extends(more, list)
  <2>1. Len(list) \in Nat /\ Len(out) \in Nat
    OBVIOUS
  <2>2. more \in Seq(E)
    BY <1>1, <1>2, AppendNewType
  <2>3. Len(more) \in Nat
    BY <2>2
  <2> QED
    BY <1>3, <2>1, <2>3 DEF Appended, Extends
<1>5. Has(out, entry.name) <=> ~IsNew(list, entries, n)
  BY <1>1 DEF Appended, IsNew
<1>6. ToSet(more) = ToSet(list) \cup {entries[k] : k \in {j \in 1..n : IsNew(list, entries, j)}}
  <2>1. ToSet(out) = ToSet(list)
                     \cup {entries[k] : k \in {j \in 1..(n - 1) : IsNew(list, entries, j)}}
    BY DEF Appended
  <2>2. CASE IsNew(list, entries, n)
    <3>1. {j \in 1..n : IsNew(list, entries, j)}
            = {j \in 1..(n - 1) : IsNew(list, entries, j)} \cup {n}
      BY <1>2, <2>2
    <3> QED
      BY <1>1, <1>3, <1>5, <2>1, <2>2, <3>1
  <2>3. CASE ~IsNew(list, entries, n)
    <3>1. {j \in 1..n : IsNew(list, entries, j)} = {j \in 1..(n - 1) : IsNew(list, entries, j)}
      BY <1>2, <2>3
    <3> QED
      BY <1>3, <1>5, <2>1, <2>3, <3>1
  <2> QED
    BY <2>2, <2>3
<1>7. ASSUME NEW name
      PROVE  Has(more, name) <=> Has(list, name) \/ \E k \in 1..n : entries[k].name = name
  <2>1. Has(out, name) <=> Has(list, name) \/ \E k \in 1..(n - 1) : entries[k].name = name
    BY DEF Appended
  <2> QED
    BY <1>1, <1>2, <1>3, <2>1
<1> QED
  BY <1>1, <1>3, <1>4, <1>6, <1>7 DEF Appended

\* A list keeps what it had and gets the first entry of every new name.
LEMMA AppendAllFacts ==
  ASSUME NEW E, NEW list \in Seq(E), NEW entries \in Seq(E), NEW all,
         all = AppendAllNew(list, entries)
  PROVE  all \in Seq(E) /\ Appended(all, list, entries, Len(entries))
<1>1. PICK out : /\ AppendsAll(out, list, entries)
                 /\ \A n \in 0..Len(entries) : out[n] \in Seq(E)
                 /\ AppendAllNew(list, entries) = out[Len(entries)]
  BY AppendAllDefined
<1>2. PICK N \in Nat : N = Len(entries)
  OBVIOUS
<1> DEFINE B == {n \in Nat : n <= N => Appended(out[n], list, entries, n)}
<1>3. 0 \in B
  BY <1>1, AppendedNone DEF AppendsAll
<1>4. ASSUME NEW n \in Nat, n \in B PROVE n + 1 \in B
  <2> SUFFICES ASSUME n + 1 <= N PROVE Appended(out[n + 1], list, entries, n + 1)
    OBVIOUS
  <2>1. n + 1 \in 1..Len(entries) /\ (n + 1) - 1 = n /\ n \in 0..Len(entries)
    BY <1>2
  <2>2. Appended(out[n], list, entries, n) /\ out[n] \in Seq(E)
    BY <1>2, <1>1, <1>4, <2>1
  <2>3. out[n + 1] = AppendNew(out[n], entries[n + 1])
    BY <1>1, <2>1 DEF AppendsAll
  <2> QED
    BY <2>1, <2>2, <2>3, AppendedOne
<1>5. Nat \subseteq B
  <2> HIDE DEF B
  <2> QED
    BY <1>3, <1>4, SetInduction
<1>6. N \in B /\ N \in 0..N
  BY <1>5
<1> QED
  BY <1>2, <1>1, <1>6

\* One list is the other from the end.
Backwards(back, list) ==
  /\ Len(back) = Len(list)
  /\ \A i \in 1..Len(list) :
       back[i] = list[(Len(list) - i) + 1] /\ (Len(list) - i) + 1 \in 1..Len(list)
  /\ \A i \in 1..Len(list) : list[i] = back[(Len(list) - i) + 1]

\* Reverse gives the list from its end.
LEMMA ReverseFacts ==
  ASSUME NEW E, NEW list \in Seq(E), NEW back, back = Reverse(list)
  PROVE  back \in Seq(E) /\ Len(list) \in Nat /\ Backwards(back, list)
<1>1. PICK n \in Nat : n = Len(list)
  OBVIOUS
<1>2. back = [i \in 1..n |-> list[(n - i) + 1]]
  BY <1>1 DEF Reverse
<1>3. ASSUME NEW i \in 1..n
      PROVE  (n - i) + 1 \in 1..n /\ (n - ((n - i) + 1)) + 1 = i
  OBVIOUS
<1>4. \A i \in 1..n : list[i] \in E
  BY <1>1
<1>5. back \in [1..n -> E]
  BY <1>2, <1>3, <1>4
<1>6. back \in Seq(E) /\ Len(back) = n
  BY ONLY <1>5, n \in Nat
<1> QED
  BY <1>1, <1>2, <1>3, <1>6 DEF Backwards

\* What is left of the files: of every path the newest, once.
LEMMA FilesKept ==
  ASSUME NEW files \in Seq(File), NEW out, out = outFiles(files)
  PROVE  /\ out \in Seq(File) /\ ~Repeats(out)
         /\ ToSet(out) = {files[i] : i \in {j \in 1..Len(files) : Newest(files, j)}}
<1>1. PICK back : back = Reverse(files)
  OBVIOUS
<1>2. /\ back \in Seq(File) /\ Len(back) = Len(files) /\ Len(files) \in Nat
      /\ \A i \in 1..Len(files) :
           back[i] = files[(Len(files) - i) + 1] /\ (Len(files) - i) + 1 \in 1..Len(files)
      /\ \A i \in 1..Len(files) : files[i] = back[(Len(files) - i) + 1]
  BY <1>1, ReverseFacts DEF Backwards
<1>3. PICK none : none = <<>> /\ none \in Seq(File)
  <2>1. <<>> \in Seq(File)
    OBVIOUS
  <2> QED
    BY <2>1
<1>4. out \in Seq(File) /\ Appended(out, none, back, Len(back))
  BY <1>1, <1>2, <1>3, AppendAllFacts DEF outFiles
<1>5. ~Repeats(none) /\ ToSet(none) = {} /\ \A name : ~Has(none, name)
  BY <1>3 DEF Repeats, ToSet, Has
<1>6. ASSUME NEW k \in 1..Len(files), NEW i, i = (Len(files) - k) + 1
      PROVE  IsNew(none, back, k) <=> Newest(files, i)
  <2>1. i \in 1..Len(files) /\ back[k] = files[i]
    BY <1>2, <1>6
  <2>2. ASSUME Newest(files, i), NEW j \in 1..(k - 1) PROVE back[j].name # back[k].name
    <3>1. PICK h : h = (Len(files) - j) + 1
      OBVIOUS
    <3>2. h \in (i + 1)..Len(files) /\ j \in 1..Len(files)
      BY <1>2, <1>6, <3>1
    <3> QED
      BY <1>2, <2>1, <2>2, <3>1, <3>2 DEF Newest
  <2>3. ASSUME IsNew(none, back, k), NEW h \in (i + 1)..Len(files)
        PROVE  files[h].name # files[i].name
    <3>1. PICK j : j = (Len(files) - h) + 1
      OBVIOUS
    <3>2. j \in 1..(k - 1) /\ h \in 1..Len(files)
      BY <1>2, <1>6, <3>1
    <3> QED
      BY <1>2, <2>1, <2>3, <3>1, <3>2 DEF IsNew
  <2> QED
    BY <1>5, <2>2, <2>3 DEF IsNew, Newest
<1>7. ToSet(out) = {files[i] : i \in {j \in 1..Len(files) : Newest(files, j)}}
  <2>1. ToSet(out) = {back[k] : k \in {j \in 1..Len(files) : IsNew(none, back, j)}}
    BY <1>2, <1>4, <1>5 DEF Appended
  <2>2. ASSUME NEW k \in 1..Len(files), IsNew(none, back, k)
        PROVE  \E i \in 1..Len(files) : Newest(files, i) /\ back[k] = files[i]
    BY <1>2, <1>6, <2>2
  <2>3. ASSUME NEW i \in 1..Len(files), Newest(files, i)
        PROVE  \E k \in 1..Len(files) : IsNew(none, back, k) /\ files[i] = back[k]
    <3>1. PICK k : k = (Len(files) - i) + 1
      OBVIOUS
    <3>2. k \in 1..Len(files) /\ i = (Len(files) - k) + 1
      BY <1>2, <3>1
    <3> QED
      BY <1>2, <1>6, <2>3, <3>1, <3>2
  <2>4. ASSUME NEW e \in ToSet(out)
        PROVE  \E i \in 1..Len(files) : Newest(files, i) /\ e = files[i]
    BY <2>1, <2>2, <2>4
  <2>5. ASSUME NEW i \in 1..Len(files), Newest(files, i) PROVE files[i] \in ToSet(out)
    BY <2>1, <2>3, <2>5
  <2> QED
    BY ONLY <2>4, <2>5
<1> QED
  BY <1>4, <1>5, <1>7 DEF Appended

-----------------------------------------------------------------------------
(* The units: an older unit gives its dropins to the newest of its name.   *)

\* An older unit gives its dropins to a newer one.
Handed(unit, older) == [unit EXCEPT !.dropins = NewDropins(@, older.dropins)]

\* A unit that is handed dropins stays what it is otherwise.
LEMMA HandedFacts ==
  ASSUME NEW unit \in Unit, NEW older \in Unit, NEW made, made = Handed(unit, older)
  PROVE  /\ made \in Unit /\ made.name = unit.name /\ made.contents = unit.contents
         /\ Appended(made.dropins, unit.dropins, older.dropins, Len(older.dropins))
<1>1. PICK all : all = NewDropins(unit.dropins, older.dropins)
  OBVIOUS
<1>2. unit.dropins \in Seq(Dropin) /\ older.dropins \in Seq(Dropin)
  BY DEF Unit
<1>3. all \in Seq(Dropin) /\ Appended(all, unit.dropins, older.dropins, Len(older.dropins))
  BY <1>1, <1>2, AppendAllFacts DEF NewDropins
<1>4. made = [unit EXCEPT !.dropins = all]
  BY <1>1 DEF Handed
<1>5. /\ made \in Unit /\ made.name = unit.name /\ made.contents = unit.contents
      /\ made.dropins = all
  BY <1>3, <1>4 DEF Unit
<1> QED
  BY <1>3, <1>5

\* One round: a unit of a new name is appended, another gives its dropins.
LEMMA WithUnitFacts ==
  ASSUME NEW out \in Seq(Unit), NEW unit \in Unit, NEW more, more = WithUnit(out, unit)
  PROVE  /\ more \in Seq(Unit)
         /\ IF Has(out, unit.name)
            THEN /\ Len(more) = Len(out)
                 /\ \A j \in 1..Len(out) :
                      more[j] = IF out[j].name = unit.name THEN Handed(out[j], unit) ELSE out[j]
            ELSE more = Append(out, unit)
<1>1. CASE Has(out, unit.name)
  <2>1. more = [j \in 1..Len(out) |-> IF out[j].name = unit.name THEN Handed(out[j], unit)
          ELSE out[j]]
    BY <1>1 DEF WithUnit, Handed
  <2>2. \A j \in 1..Len(out) : out[j] \in Unit /\ Handed(out[j], unit) \in Unit
    BY HandedFacts
  <2>3. more \in [1..Len(out) -> Unit] /\ Len(out) \in Nat
    BY <2>1, <2>2
  <2>4. more \in Seq(Unit) /\ Len(more) = Len(out)
    BY ONLY <2>3
  <2> QED
    BY <1>1, <2>1, <2>4
<1>2. CASE ~Has(out, unit.name)
  BY <1>2 DEF WithUnit
<1> QED
  BY <1>1, <1>2

\* The rounds of outUnits.
GathersUnits(out, back) ==
  out[0] = <<>> /\ \A n \in 1..Len(back) : out[n] = WithUnit(out[n - 1], back[n])

\* outUnits is the last of its rounds.
LEMMA OutUnitsDefined ==
  ASSUME NEW units \in Seq(Unit)
  PROVE  \E out : /\ GathersUnits(out, Reverse(units))
                  /\ \A n \in 0..Len(units) : out[n] \in Seq(Unit)
                  /\ outUnits(units) = out[Len(units)]
<1>1. PICK N \in Nat : N = Len(units)
  OBVIOUS
<1>2. PICK back : back = Reverse(units)
  OBVIOUS
<1>3. back \in Seq(Unit) /\ Len(back) = N
  BY <1>1, <1>2, ReverseFacts DEF Backwards
<1> DEFINE S == Seq(Unit)
           F == [p \in (1..N) \X S |-> WithUnit(p[2], back[p[1]])]
           out == CHOOSE g : g = [n \in 0..N |-> IF n = 0 THEN <<>>
             ELSE WithUnit(g[n - 1], back[n])]
<1>4. \A n \in 1..N, s \in S : F[<<n, s>>] = WithUnit(s, back[n])
  OBVIOUS
<1>5. F \in [(1..N) \X S -> S]
  <2>1. ASSUME NEW p \in (1..N) \X S PROVE WithUnit(p[2], back[p[1]]) \in S
    <3>1. p[2] \in Seq(Unit) /\ back[p[1]] \in Unit
      BY <1>3
    <3> QED
      BY <3>1, WithUnitFacts
  <2> QED
    BY <2>1
<1>6. outUnits(units) = out[Len(units)]
  BY <1>1, <1>2 DEF outUnits
<1>7. <<>> \in S
  OBVIOUS
<1> HIDE DEF S, F
<1>8. PICK f : Loop(f, S, <<>>, N, F)
  BY <1>5, <1>7, LoopExists
<1>9. f = [n \in 0..N |-> IF n = 0 THEN <<>> ELSE WithUnit(f[n - 1], back[n])]
  <2>1. ASSUME NEW n \in 0..N
        PROVE  f[n] = IF n = 0 THEN <<>> ELSE WithUnit(f[n - 1], back[n])
    <3>1. CASE n # 0
      <4>1. n \in 1..N /\ n - 1 \in 0..N
        BY <3>1
      <4> QED
        BY <3>1, <4>1, <1>4, <1>8 DEF Loop
    <3> QED
      BY <3>1, <1>8 DEF Loop
  <2> QED
    BY <2>1, <1>8 DEF Loop
<1>10. out = [n \in 0..N |-> IF n = 0 THEN <<>> ELSE WithUnit(out[n - 1], back[n])]
  BY <1>9, Zenon
<1> HIDE DEF out
<1>11. out[0] = <<>> /\ \A n \in 1..N : out[n] = WithUnit(out[n - 1], back[n])
  BY <1>10
<1>12. \A n \in 0..N : out[n] \in S
  <2>1. \A n \in 1..N : out[n - 1] \in S => out[n] = F[<<n, out[n - 1]>>]
    BY <1>4, <1>11
  <2> QED
    BY <2>1, <1>7, <1>8, <1>11, LoopUnique
<1>13. GathersUnits(out, Reverse(units))
  BY <1>2, <1>3, <1>11 DEF GathersUnits
<1> QED
  BY <1>1, <1>6, <1>12, <1>13 DEF S

-----------------------------------------------------------------------------
\* With the newest unit first: unit m has the first of its name, and gives dropin d.
FirstOf(back, m) == \A l \in 1..(m - 1) : back[l].name # back[m].name

Gives(back, m, d) ==
  \/ FirstOf(back, m)
  \/ /\ \A l \in 1..(m - 1) : back[l].name = back[m].name =>
                                ~Has(back[l].dropins, back[m].dropins[d].name)
     /\ \A e \in 1..(d - 1) : back[m].dropins[e].name # back[m].dropins[d].name

GivenBy(back, m) ==
  {back[m].dropins[d] : d \in {e \in 1..Len(back[m].dropins) : Gives(back, m, e)}}

GivenDropins(back, name, n) == UNION {GivenBy(back, m) : m \in {l \in 1..n : back[l].name = name}}

\* What the first n units make of one.
MadeOf(unit, back, n, k) ==
  /\ FirstOf(back, k) /\ unit.name = back[k].name /\ unit.contents = back[k].contents
  /\ ToSet(unit.dropins) = GivenDropins(back, unit.name, n)
  /\ Repeats(unit.dropins) => Repeats(back[k].dropins)
  /\ \A name : Has(unit.dropins, name) <=>
                 \E m \in 1..n : back[m].name = unit.name /\ Has(back[m].dropins, name)

UnitMade(unit, back, n) == \E k \in 1..n : MadeOf(unit, back, n, k)

UnitsMade(out, back, n) ==
  /\ ~Repeats(out)
  /\ \A j \in 1..Len(out) : UnitMade(out[j], back, n)
  /\ \A name : Has(out, name) <=> \E k \in 1..n : back[k].name = name

\* One more unit, one more giver.
LEMMA GivenMore ==
  ASSUME NEW back, NEW name, NEW n \in Nat, n >= 1
  PROVE  GivenDropins(back, name, n)
           = IF back[n].name = name THEN GivenDropins(back, name, n - 1) \cup GivenBy(back, n)
             ELSE GivenDropins(back, name, n - 1)
<1>1. 1..n = (1..(n - 1)) \cup {n}
  OBVIOUS
<1>2. {l \in 1..n : back[l].name = name}
        = IF back[n].name = name THEN {l \in 1..(n - 1) : back[l].name = name} \cup {n}
          ELSE {l \in 1..(n - 1) : back[l].name = name}
  BY <1>1
<1> QED
  BY <1>2 DEF GivenDropins

\* A unit of another name leaves a unit as it is.
LEMMA OthersMade ==
  ASSUME NEW back, NEW n \in Nat, n >= 1, NEW unit, back[n].name # unit.name,
         UnitMade(unit, back, n - 1)
  PROVE  UnitMade(unit, back, n)
<1>1. 1..n = (1..(n - 1)) \cup {n}
  OBVIOUS
<1>2. PICK k \in 1..(n - 1) : MadeOf(unit, back, n - 1, k)
  BY DEF UnitMade
<1>3. GivenDropins(back, unit.name, n) = GivenDropins(back, unit.name, n - 1)
  BY GivenMore
<1>4. \A name : (\E m \in 1..n : back[m].name = unit.name /\ Has(back[m].dropins, name))
                  <=> \E m \in 1..(n - 1) : back[m].name = unit.name /\ Has(back[m].dropins, name)
  BY <1>1
<1>5. MadeOf(unit, back, n, k) /\ k \in 1..n
  BY <1>1, <1>2, <1>3, <1>4 DEF MadeOf
<1> QED
  BY <1>5 DEF UnitMade

\* The first unit of a name has its own dropins.
LEMMA FirstMade ==
  ASSUME NEW back \in Seq(Unit), NEW n \in 1..Len(back), FirstOf(back, n)
  PROVE  UnitMade(back[n], back, n)
<1>1. n \in Nat /\ n >= 1 /\ 1..n = (1..(n - 1)) \cup {n} /\ back[n] \in Unit
  OBVIOUS
<1>2. back[n].dropins \in Seq(Dropin)
  BY <1>1 DEF Unit
<1>3. GivenBy(back, n) = ToSet(back[n].dropins)
  <2>1. {e \in 1..Len(back[n].dropins) : Gives(back, n, e)} = 1..Len(back[n].dropins)
    BY DEF Gives
  <2> QED
    BY <2>1, <1>2 DEF GivenBy, ToSet
<1>4. GivenDropins(back, back[n].name, n - 1) = {}
  BY DEF GivenDropins, FirstOf
<1>5. GivenDropins(back, back[n].name, n) = ToSet(back[n].dropins)
  <2>1. PICK name : name = back[n].name
    OBVIOUS
  <2>2. GivenDropins(back, name, n) = GivenDropins(back, name, n - 1) \cup GivenBy(back, n)
    BY <1>1, <2>1, GivenMore
  <2> QED
    BY <1>3, <1>4, <2>1, <2>2
<1>6. \A name : Has(back[n].dropins, name) <=>
                 \E m \in 1..n : back[m].name = back[n].name /\ Has(back[m].dropins, name)
  BY <1>1 DEF FirstOf
<1>7. MadeOf(back[n], back, n, n) /\ n \in 1..n
  BY <1>1, <1>5, <1>6 DEF MadeOf
<1> QED
  BY <1>7 DEF UnitMade

\* An older unit of the name gives what the newer ones have not.
LEMMA HandedMade ==
  ASSUME NEW back \in Seq(Unit), NEW n \in 1..Len(back), NEW unit \in Unit,
         unit.name = back[n].name,
         UnitMade(unit, back, n - 1)
  PROVE  UnitMade(Handed(unit, back[n]), back, n)
<1>1. n \in Nat /\ n >= 1 /\ 1..n = (1..(n - 1)) \cup {n} /\ back[n] \in Unit
  OBVIOUS
<1>2. PICK k \in 1..(n - 1) : MadeOf(unit, back, n - 1, k)
  BY DEF UnitMade
<1>3. PICK made, old, new : made = Handed(unit, back[n]) /\ old = unit.dropins
                            /\ new = back[n].dropins
  OBVIOUS
<1>4. /\ made \in Unit /\ made.name = unit.name /\ made.contents = unit.contents
      /\ Appended(made.dropins, old, new, Len(new))
  BY <1>1, <1>3, HandedFacts
<1>5. ~FirstOf(back, n)
  <2>1. back[k].name = back[n].name
    BY <1>2 DEF MadeOf
  <2> QED
    BY <2>1 DEF FirstOf
<1>6. \A name : Has(old, name)
        <=> \E m \in 1..(n - 1) : back[m].name = unit.name /\ Has(back[m].dropins, name)
  BY <1>2, <1>3 DEF MadeOf
<1>7. ASSUME NEW d \in 1..Len(new) PROVE IsNew(old, new, d) <=> Gives(back, n, d)
  <2>1. Has(old, new[d].name) <=>
          \E m \in 1..(n - 1) : back[m].name = back[n].name /\ Has(back[m].dropins, new[d].name)
    BY <1>6
  <2> QED
    BY <2>1, <1>3, <1>5 DEF IsNew, Gives
<1>8. {new[d] : d \in {e \in 1..Len(new) : IsNew(old, new, e)}} = GivenBy(back, n)
  <2>1. {e \in 1..Len(new) : IsNew(old, new, e)} = {e \in 1..Len(new) : Gives(back, n, e)}
    BY <1>7
  <2> QED
    BY <2>1, <1>3 DEF GivenBy
<1>9. ToSet(made.dropins) = GivenDropins(back, made.name, n)
  <2>1. ToSet(made.dropins) = ToSet(old) \cup GivenBy(back, n)
    BY <1>4, <1>8 DEF Appended
  <2>2. ToSet(old) = GivenDropins(back, unit.name, n - 1)
    BY <1>2, <1>3 DEF MadeOf
  <2> QED
    BY <1>1, <1>4, <2>1, <2>2, GivenMore
<1>10. ASSUME NEW name
      PROVE  Has(made.dropins, name) <=>
               \E m \in 1..n : back[m].name = made.name /\ Has(back[m].dropins, name)
  <2>1. Has(made.dropins, name) <=> Has(old, name) \/ Has(new, name)
    BY <1>4 DEF Appended, Has
  <2> QED
    BY <2>1, <1>1, <1>3, <1>4, <1>6
<1>11. Repeats(made.dropins) => Repeats(back[k].dropins)
  BY <1>2, <1>3, <1>4 DEF Appended, MadeOf
<1>12. MadeOf(made, back, n, k) /\ k \in 1..n
  BY <1>1, <1>2, <1>4, <1>9, <1>10, <1>11 DEF MadeOf
<1> QED
  BY <1>3, <1>12 DEF UnitMade

\* The step of the induction over the rounds.
LEMMA UnitsMadeOne ==
  ASSUME NEW back \in Seq(Unit), NEW n \in 1..Len(back), NEW out \in Seq(Unit),
         UnitsMade(out, back, n - 1)
  PROVE  UnitsMade(WithUnit(out, back[n]), back, n)
<1>1. n \in Nat /\ n >= 1 /\ 1..n = (1..(n - 1)) \cup {n} /\ back[n] \in Unit
  OBVIOUS
<1>2. PICK more, unit : more = WithUnit(out, unit) /\ unit = back[n]
  OBVIOUS
<1>3. Has(out, unit.name) <=> ~FirstOf(back, n)
  BY <1>2 DEF UnitsMade, FirstOf
<1>4. CASE Has(out, unit.name)
  <2>1. /\ more \in Seq(Unit) /\ Len(more) = Len(out)
        /\ \A j \in 1..Len(out) :
             more[j] = IF out[j].name = unit.name THEN Handed(out[j], unit) ELSE out[j]
    BY <1>1, <1>2, <1>4, WithUnitFacts
  <2>2. ASSUME NEW j \in 1..Len(out)
        PROVE  more[j].name = out[j].name /\ UnitMade(more[j], back, n)
    <3>1. out[j] \in Unit /\ UnitMade(out[j], back, n - 1)
      BY DEF UnitsMade
    <3>2. CASE out[j].name = unit.name
      <4>1. more[j] = Handed(out[j], back[n])
        BY <1>2, <2>1, <3>2
      <4>2. more[j].name = out[j].name
        BY <1>1, <3>1, <4>1, HandedFacts
      <4> QED
        BY <1>2, <3>1, <3>2, <4>1, <4>2, HandedMade
    <3>3. CASE out[j].name # unit.name
      <4>1. more[j] = out[j]
        BY <2>1, <3>3
      <4> QED
        BY <1>1, <1>2, <3>1, <3>3, <4>1, OthersMade
    <3> QED
      BY <3>2, <3>3
  <2>3. ~Repeats(more)
    BY <2>1, <2>2 DEF UnitsMade, Repeats
  <2>4. ASSUME NEW name PROVE Has(more, name) <=> \E k \in 1..n : back[k].name = name
    <3>1. Has(more, name) <=> Has(out, name)
      BY <2>1, <2>2 DEF Has
    <3>2. Has(out, name) <=> \E k \in 1..(n - 1) : back[k].name = name
      BY DEF UnitsMade
    <3>3. \E k \in 1..(n - 1) : back[k].name = unit.name
      BY <1>4 DEF UnitsMade
    <3> QED
      BY <1>1, <1>2, <3>1, <3>2, <3>3
  <2> QED
    BY <1>2, <2>1, <2>2, <2>3, <2>4 DEF UnitsMade
<1>5. CASE ~Has(out, unit.name)
  <2>1. more = Append(out, unit)
    BY <1>1, <1>2, <1>5, WithUnitFacts
  <2>2. /\ more \in Seq(Unit) /\ Len(more) = Len(out) + 1 /\ Len(out) \in Nat
        /\ more[Len(out) + 1] = unit /\ \A i \in 1..Len(out) : more[i] = out[i]
        /\ 1..Len(more) = (1..Len(out)) \cup {Len(out) + 1}
    BY <1>1, <1>2, <2>1, AppendFacts
  <2>3. more = AppendNew(out, unit)
    BY <1>5, <2>1 DEF AppendNew
  <2>4. /\ \A name : Has(more, name) <=> Has(out, name) \/ unit.name = name
        /\ Repeats(more) => Repeats(out)
    BY <1>1, <1>2, <2>3, AppendNewFacts
  <2>5. ASSUME NEW j \in 1..Len(more) PROVE UnitMade(more[j], back, n)
    <3>1. CASE j \in 1..Len(out)
      <4>1. UnitMade(out[j], back, n - 1) /\ out[j].name # unit.name /\ more[j] = out[j]
        BY <1>5, <2>2, <3>1 DEF UnitsMade, Has
      <4> QED
        BY <1>1, <1>2, <4>1, OthersMade
    <3>2. CASE j = Len(out) + 1
      BY <1>2, <1>3, <1>5, <2>2, <3>2, FirstMade
    <3> QED
      BY <2>2, <3>1, <3>2
  <2>6. ASSUME NEW name PROVE Has(more, name) <=> \E k \in 1..n : back[k].name = name
    <3>1. Has(out, name) <=> \E k \in 1..(n - 1) : back[k].name = name
      BY DEF UnitsMade
    <3> QED
      BY <1>1, <1>2, <2>4, <3>1
  <2> QED
    BY <1>2, <2>4, <2>5, <2>6 DEF UnitsMade
<1> QED
  BY <1>4, <1>5

\* What all units make, the newest first.
LEMMA UnitsGathered ==
  ASSUME NEW units \in Seq(Unit), NEW made, made = outUnits(units),
         NEW back, back = Reverse(units)
  PROVE  made \in Seq(Unit) /\ UnitsMade(made, back, Len(units))
<1>1. PICK N \in Nat : N = Len(units)
  OBVIOUS
<1>2. back \in Seq(Unit) /\ Len(back) = N
  BY <1>1, ReverseFacts DEF Backwards
<1>3. PICK out : /\ GathersUnits(out, back)
                 /\ \A n \in 0..Len(units) : out[n] \in Seq(Unit)
                 /\ outUnits(units) = out[Len(units)]
  BY OutUnitsDefined
<1> DEFINE B == {n \in Nat : n <= N => UnitsMade(out[n], back, n)}
<1>4. 0 \in B
  <2>1. out[0] = <<>> /\ 1..0 = {}
    BY <1>3 DEF GathersUnits
  <2>2. UnitsMade(<<>>, back, 0)
    BY <2>1 DEF UnitsMade, Repeats, Has
  <2> QED
    BY <2>1, <2>2
<1>5. ASSUME NEW n \in Nat, n \in B PROVE n + 1 \in B
  <2> SUFFICES ASSUME n + 1 <= N PROVE UnitsMade(out[n + 1], back, n + 1)
    OBVIOUS
  <2>1. n + 1 \in 1..Len(back) /\ (n + 1) - 1 = n /\ n \in 0..Len(units)
    BY <1>1, <1>2
  <2>2. UnitsMade(out[n], back, n) /\ out[n] \in Seq(Unit)
    BY <1>1, <1>3, <1>5, <2>1
  <2>3. out[n + 1] = WithUnit(out[n], back[n + 1])
    BY <1>3, <2>1 DEF GathersUnits
  <2> QED
    BY <1>2, <2>1, <2>2, <2>3, UnitsMadeOne
<1>6. Nat \subseteq B
  <2> HIDE DEF B
  <2> QED
    BY <1>4, <1>5, SetInduction
<1>7. N \in B /\ N \in 0..N
  BY <1>6
<1> QED
  BY <1>1, <1>3, <1>7

-----------------------------------------------------------------------------
(* The same, in terms of the list as it was given.                         *)

\* The names of a prefix.
LEMMA HasPrefix ==
  ASSUME NEW E, NEW list \in Seq(E), NEW n \in 1..Len(list), NEW name
  PROVE  Has(SubSeq(list, 1, n - 1), name) <=> \E j \in 1..(n - 1) : list[j].name = name
<1>1. PICK m \in Nat : m = n - 1 /\ m <= Len(list)
  OBVIOUS
<1>2. ASSUME NEW s, s = SubSeq(list, 1, m)
      PROVE  Len(s) = m /\ \A i \in 1..m : s[i] = list[i]
  BY <1>1, <1>2
<1> QED
  BY <1>1, <1>2 DEF Has

\* First from the end is newest.
LEMMA FirstIsNewest ==
  ASSUME NEW E, NEW list \in Seq(E), NEW back, back = Reverse(list),
         NEW k \in 1..Len(list), NEW i, i = (Len(list) - k) + 1
  PROVE  FirstOf(back, k) <=> Newest(list, i)
<1>1. back \in Seq(E) /\ Len(list) \in Nat /\ Backwards(back, list)
  BY ReverseFacts
<1>2. /\ Len(back) = Len(list) /\ Len(list) \in Nat
      /\ \A j \in 1..Len(list) :
           back[j] = list[(Len(list) - j) + 1] /\ (Len(list) - j) + 1 \in 1..Len(list)
      /\ \A j \in 1..Len(list) : list[j] = back[(Len(list) - j) + 1]
  BY <1>1 DEF Backwards
<1>3. i \in 1..Len(list) /\ back[k] = list[i]
  BY <1>2
<1>4. ASSUME Newest(list, i), NEW j \in 1..(k - 1) PROVE back[j].name # back[k].name
  <2>1. PICK h : h = (Len(list) - j) + 1
    OBVIOUS
  <2>2. h \in (i + 1)..Len(list) /\ j \in 1..Len(list)
    BY <1>2, <2>1
  <2> QED
    BY <1>2, <1>3, <1>4, <2>1, <2>2 DEF Newest
<1>5. ASSUME FirstOf(back, k), NEW h \in (i + 1)..Len(list) PROVE list[h].name # list[i].name
  <2>1. PICK j : j = (Len(list) - h) + 1
    OBVIOUS
  <2>2. j \in 1..(k - 1) /\ h \in 1..Len(list)
    BY <1>2, <2>1
  <2> QED
    BY <1>2, <1>3, <1>5, <2>1, <2>2 DEF FirstOf
<1> QED
  BY <1>4, <1>5 DEF FirstOf, Newest

\* What a unit gives, read from the end, is what it gives up.
LEMMA GivesIsGivesUp ==
  ASSUME NEW units \in Seq(Unit), NEW back, back = Reverse(units),
         NEW m \in 1..Len(units), NEW i, i = (Len(units) - m) + 1,
         NEW d \in 1..Len(units[i].dropins)
  PROVE  Gives(back, m, d) <=> GivesUp(units, i, d)
<1>1. back \in Seq(Unit) /\ Len(units) \in Nat /\ Backwards(back, units)
  BY ReverseFacts
<1>2. /\ Len(back) = Len(units) /\ Len(units) \in Nat
      /\ \A j \in 1..Len(units) :
           back[j] = units[(Len(units) - j) + 1] /\ (Len(units) - j) + 1 \in 1..Len(units)
      /\ \A j \in 1..Len(units) : units[j] = back[(Len(units) - j) + 1]
  BY <1>1 DEF Backwards
<1>3. i \in 1..Len(units) /\ back[m] = units[i] /\ units[i] \in Unit
  BY <1>2
<1>4. units[i].dropins \in Seq(Dropin)
  BY <1>3 DEF Unit
<1>5. FirstOf(back, m) <=> Newest(units, i)
  BY FirstIsNewest
<1>6. PICK name : name = units[i].dropins[d].name
  OBVIOUS
<1>7. Has(SubSeq(units[i].dropins, 1, d - 1), name)
        <=> \E e \in 1..(d - 1) : units[i].dropins[e].name = name
  BY <1>4, HasPrefix
<1>8. ASSUME NEW j \in (i + 1)..Len(units)
      PROVE  \E l \in 1..(m - 1) : back[l] = units[j]
  <2>1. PICK l : l = (Len(units) - j) + 1
    OBVIOUS
  <2>2. l \in 1..(m - 1) /\ j \in 1..Len(units)
    BY ONLY Len(units) \in Nat, m \in 1..Len(units), i = (Len(units) - m) + 1,
            j \in (i + 1)..Len(units), <1>2, <2>1
  <2> QED
    BY <1>2, <2>1, <2>2
<1>9. ASSUME NEW l \in 1..(m - 1)
      PROVE  \E j \in (i + 1)..Len(units) : back[l] = units[j]
  <2>1. PICK j : j = (Len(units) - l) + 1
    OBVIOUS
  <2>2. j \in (i + 1)..Len(units) /\ l \in 1..Len(units)
    BY ONLY Len(units) \in Nat, m \in 1..Len(units), i = (Len(units) - m) + 1,
            l \in 1..(m - 1), <1>2, <2>1
  <2> QED
    BY <1>2, <2>1, <2>2
<1>10. (\A l \in 1..(m - 1) : back[l].name = back[m].name => ~Has(back[l].dropins, name))
         <=> \A j \in (i + 1)..Len(units) :
               units[j].name = units[i].name => ~Has(units[j].dropins, name)
  <2>1. ASSUME \A l \in 1..(m - 1) : back[l].name = back[m].name => ~Has(back[l].dropins, name),
               NEW j \in (i + 1)..Len(units), units[j].name = units[i].name
        PROVE  ~Has(units[j].dropins, name)
    BY <1>3, <1>8, <2>1
  <2>2. ASSUME \A j \in (i + 1)..Len(units) :
                 units[j].name = units[i].name => ~Has(units[j].dropins, name),
               NEW l \in 1..(m - 1), back[l].name = back[m].name
        PROVE  ~Has(back[l].dropins, name)
    BY <1>3, <1>9, <2>2
  <2> QED
    BY <2>1, <2>2
<1> QED
  BY <1>3, <1>5, <1>6, <1>7, <1>10 DEF Gives, GivesUp

\* What all units of a name give is what the name should be left with.
LEMMA DropinsGiven ==
  ASSUME NEW units \in Seq(Unit), NEW back, back = Reverse(units), NEW name
  PROVE  GivenDropins(back, name, Len(units)) = DropinsOf(units, name)
<1>1. back \in Seq(Unit) /\ Len(units) \in Nat /\ Backwards(back, units)
  BY ReverseFacts
<1>2. /\ Len(back) = Len(units) /\ Len(units) \in Nat
      /\ \A j \in 1..Len(units) :
           back[j] = units[(Len(units) - j) + 1] /\ (Len(units) - j) + 1 \in 1..Len(units)
      /\ \A j \in 1..Len(units) : units[j] = back[(Len(units) - j) + 1]
  BY <1>1 DEF Backwards
<1> DEFINE Up(i) ==
        {units[i].dropins[k] : k \in {n \in 1..Len(units[i].dropins) : GivesUp(units, i, n)}}
<1>3. DropinsOf(units, name) = UNION {Up(i) : i \in {j \in 1..Len(units) : units[j].name = name}}
  BY DEF DropinsOf
<1>4. ASSUME NEW m \in 1..Len(units), NEW i, i = (Len(units) - m) + 1
      PROVE  GivenBy(back, m) = Up(i) /\ i \in 1..Len(units) /\ back[m].name = units[i].name
  <2>1. back[m] = units[i] /\ i \in 1..Len(units)
    BY <1>2, <1>4
  <2>2. \A d \in 1..Len(units[i].dropins) : Gives(back, m, d) <=> GivesUp(units, i, d)
    BY <1>4, GivesIsGivesUp
  <2>3. {e \in 1..Len(back[m].dropins) : Gives(back, m, e)}
            = {n \in 1..Len(units[i].dropins) : GivesUp(units, i, n)}
    BY <2>1, <2>2
  <2> QED
    BY <2>1, <2>3 DEF GivenBy
<1> HIDE DEF Up
<1>5. ASSUME NEW m \in {l \in 1..Len(units) : back[l].name = name}
      PROVE  \E i \in {j \in 1..Len(units) : units[j].name = name} : GivenBy(back, m) = Up(i)
  BY <1>4
<1>6. ASSUME NEW i \in {j \in 1..Len(units) : units[j].name = name}
      PROVE  \E m \in {l \in 1..Len(units) : back[l].name = name} : GivenBy(back, m) = Up(i)
  <2>1. PICK m : m = (Len(units) - i) + 1
    OBVIOUS
  <2>2. m \in 1..Len(units) /\ i = (Len(units) - m) + 1
    BY <1>2, <2>1
  <2> QED
    BY <2>2, <1>4
<1> QED
  BY <1>3, <1>5, <1>6 DEF GivenDropins

\* What is left of the units.
LEMMA UnitsKept ==
  ASSUME NEW units \in Seq(Unit), NEW out, out = outUnits(units)
  PROVE  /\ out \in Seq(Unit) /\ ~Repeats(out)
         /\ {[unit EXCEPT !.dropins = ToSet(@)] : unit \in ToSet(out)}
              = {[units[i] EXCEPT !.dropins = DropinsOf(units, units[i].name)] :
                   i \in {j \in 1..Len(units) : Newest(units, j)}}
         /\ \A j \in 1..Len(out) : Repeats(out[j].dropins) =>
              \E i \in 1..Len(units) : Repeats(units[i].dropins)
<1>1. PICK back : back = Reverse(units)
  OBVIOUS
<1>2. back \in Seq(Unit) /\ Len(units) \in Nat /\ Backwards(back, units)
  BY <1>1, ReverseFacts
<1>3. /\ Len(back) = Len(units) /\ Len(units) \in Nat
      /\ \A j \in 1..Len(units) :
           back[j] = units[(Len(units) - j) + 1] /\ (Len(units) - j) + 1 \in 1..Len(units)
      /\ \A j \in 1..Len(units) : units[j] = back[(Len(units) - j) + 1]
  BY <1>2 DEF Backwards
<1>4. out \in Seq(Unit) /\ UnitsMade(out, back, Len(units))
  BY <1>1, UnitsGathered
<1>5. \A u \in Unit : \A D : [u EXCEPT !.dropins = D]
          = [name |-> u.name, contents |-> u.contents, dropins |-> D]
  BY DEF Unit
<1>6. ASSUME NEW j \in 1..Len(out)
      PROVE  \E i \in 1..Len(units) :
               /\ Newest(units, i) /\ out[j].name = units[i].name
               /\ [out[j] EXCEPT !.dropins = ToSet(@)]
                    = [units[i] EXCEPT !.dropins = DropinsOf(units, units[i].name)]
               /\ Repeats(out[j].dropins) => Repeats(units[i].dropins)
  <2>1. PICK k \in 1..Len(units) : MadeOf(out[j], back, Len(units), k)
    BY <1>4 DEF UnitsMade, UnitMade
  <2>2. PICK i : i = (Len(units) - k) + 1
    OBVIOUS
  <2>3. i \in 1..Len(units) /\ back[k] = units[i] /\ units[i] \in Unit /\ out[j] \in Unit
    BY <1>3, <1>4, <2>2
  <2>4. Newest(units, i)
    BY <1>1, <2>1, <2>2, FirstIsNewest DEF MadeOf
  <2>5. /\ out[j].name = units[i].name /\ out[j].contents = units[i].contents
        /\ ToSet(out[j].dropins) = GivenDropins(back, units[i].name, Len(units))
        /\ Repeats(out[j].dropins) => Repeats(units[i].dropins)
    BY <2>1, <2>3 DEF MadeOf
  <2>6. ToSet(out[j].dropins) = DropinsOf(units, units[i].name)
    BY <1>1, <2>5, DropinsGiven
  <2>7. [out[j] EXCEPT !.dropins = ToSet(@)] = [out[j] EXCEPT !.dropins = ToSet(out[j].dropins)]
    BY <2>3 DEF Unit
  <2>8. \A D : [out[j] EXCEPT !.dropins = D] = [units[i] EXCEPT !.dropins = D]
    BY ONLY <1>5, <2>3, <2>5
  <2> QED
    BY ONLY <2>3, <2>4, <2>5, <2>6, <2>7, <2>8
<1>7. ASSUME NEW i \in 1..Len(units), Newest(units, i)
      PROVE  \E j \in 1..Len(out) :
               [out[j] EXCEPT !.dropins = ToSet(@)]
                 = [units[i] EXCEPT !.dropins = DropinsOf(units, units[i].name)]
  <2>1. PICK k : k = (Len(units) - i) + 1
    OBVIOUS
  <2>2. k \in 1..Len(units) /\ back[k] = units[i]
    BY <1>3, <2>1
  <2>3. Has(out, units[i].name)
    BY <1>4, <2>2 DEF UnitsMade
  <2>4. PICK j \in 1..Len(out) : out[j].name = units[i].name
    BY <2>3 DEF Has
  <2>5. PICK h \in 1..Len(units) :
               /\ Newest(units, h) /\ out[j].name = units[h].name
               /\ [out[j] EXCEPT !.dropins = ToSet(@)]
                    = [units[h] EXCEPT !.dropins = DropinsOf(units, units[h].name)]
    BY <1>6
  <2>6. h = i
    <3>1. h \in Nat /\ i \in Nat /\ units[h].name = units[i].name
      BY <2>4, <2>5
    <3>2. ~(h < i)
      <4>1. h < i => i \in (h + 1)..Len(units)
        BY <1>3, <3>1
      <4> QED
        BY <2>5, <3>1, <4>1 DEF Newest
    <3>3. ~(i < h)
      <4>1. i < h => h \in (i + 1)..Len(units)
        BY <1>3, <3>1
      <4> QED
        BY <1>7, <3>1, <4>1 DEF Newest
    <3> QED
      BY <3>1, <3>2, <3>3
  <2> QED
    BY <2>5, <2>6
<1>8. {[unit EXCEPT !.dropins = ToSet(@)] : unit \in ToSet(out)}
              = {[units[i] EXCEPT !.dropins = DropinsOf(units, units[i].name)] :
                   i \in {j \in 1..Len(units) : Newest(units, j)}}
  <2> DEFINE Left(unit) == [unit EXCEPT !.dropins = ToSet(@)]
             Kept(i) == [units[i] EXCEPT !.dropins = DropinsOf(units, units[i].name)]
  <2>1. ToSet(out) = {out[j] : j \in 1..Len(out)}
    BY <1>4 DEF ToSet
  <2>2. \A j \in 1..Len(out) : \E i \in {k \in 1..Len(units) : Newest(units, k)} :
          Left(out[j]) = Kept(i)
    BY <1>6
  <2>3. \A i \in {k \in 1..Len(units) : Newest(units, k)} : \E j \in 1..Len(out) :
          Left(out[j]) = Kept(i)
    BY <1>7
  <2> HIDE DEF Left, Kept
  <2>4. {Left(unit) : unit \in ToSet(out)}
            = {Kept(i) : i \in {j \in 1..Len(units) : Newest(units, j)}}
    <3>1. \A unit \in ToSet(out) : \E i \in {k \in 1..Len(units) : Newest(units, k)} :
            Left(unit) = Kept(i)
      BY <2>1, <2>2
    <3>2. \A i \in {k \in 1..Len(units) : Newest(units, k)} : \E unit \in ToSet(out) :
            Left(unit) = Kept(i)
      BY <2>1, <2>3
    <3> QED
      BY ONLY <3>1, <3>2
  <2> QED
    BY <2>4 DEF Left, Kept
<1>9. ~Repeats(out)
  BY <1>4 DEF UnitsMade
<1> QED
  BY <1>4, <1>6, <1>8, <1>9

-----------------------------------------------------------------------------
(* The SSH keys without their repetitions.                                 *)

\* A list has one entry more.
Adds(more, list, entry) == \A e : Contains(more, e) <=> Contains(list, e) \/ e = entry

LEMMA AppendOnceFacts ==
  ASSUME NEW E, NEW list \in Seq(E), NEW entry \in E, NEW more, more = AppendOnce(list, entry)
  PROVE  more \in Seq(E) /\ Adds(more, list, entry)
<1>1. CASE Contains(list, entry)
  BY <1>1 DEF AppendOnce, Adds
<1>2. CASE ~Contains(list, entry)
  <2>1. more = Append(list, entry)
    BY <1>2 DEF AppendOnce
  <2>2. /\ more \in Seq(E) /\ more[Len(list) + 1] = entry
        /\ \A i \in 1..Len(list) : more[i] = list[i]
        /\ 1..Len(more) = (1..Len(list)) \cup {Len(list) + 1}
    BY <2>1, AppendFacts
  <2>3. ASSUME NEW e PROVE Contains(more, e) <=> Contains(list, e) \/ e = entry
    BY ONLY <2>2 DEF Contains
  <2> QED
    BY <2>2, <2>3 DEF Adds
<1> QED
  BY <1>1, <1>2

\* The rounds of dedupePasswdUserSSHKeys.
AppendsOnce(out, keys) ==
  out[0] = <<>> /\ \A n \in 1..Len(keys) : out[n] = AppendOnce(out[n - 1], keys[n])

\* dedupePasswdUserSSHKeys is the last of its rounds.
LEMMA DedupeDefined ==
  ASSUME NEW E, NEW keys \in Seq(E)
  PROVE  \E out : /\ AppendsOnce(out, keys)
                  /\ \A n \in 0..Len(keys) : out[n] \in Seq(E)
                  /\ dedupePasswdUserSSHKeys(keys) = out[Len(keys)]
<1>1. PICK N \in Nat : N = Len(keys)
  OBVIOUS
<1> DEFINE S == Seq(E)
           F == [p \in (1..N) \X S |-> AppendOnce(p[2], keys[p[1]])]
           out == CHOOSE g : g = [n \in 0..N |-> IF n = 0 THEN <<>>
             ELSE AppendOnce(g[n - 1], keys[n])]
<1>2. \A n \in 1..N, s \in S : F[<<n, s>>] = AppendOnce(s, keys[n])
  OBVIOUS
<1>3. F \in [(1..N) \X S -> S]
  <2>1. ASSUME NEW p \in (1..N) \X S PROVE AppendOnce(p[2], keys[p[1]]) \in S
    <3>1. p[2] \in Seq(E) /\ keys[p[1]] \in E
      BY <1>1
    <3> QED
      BY <3>1, AppendOnceFacts
  <2> QED
    BY <2>1
<1>4. dedupePasswdUserSSHKeys(keys) = out[Len(keys)]
  BY <1>1 DEF dedupePasswdUserSSHKeys
<1>5. <<>> \in S
  OBVIOUS
<1> HIDE DEF S, F
<1>6. PICK f : Loop(f, S, <<>>, N, F)
  BY <1>3, <1>5, LoopExists
<1>7. f = [n \in 0..N |-> IF n = 0 THEN <<>> ELSE AppendOnce(f[n - 1], keys[n])]
  <2>1. ASSUME NEW n \in 0..N
        PROVE  f[n] = IF n = 0 THEN <<>> ELSE AppendOnce(f[n - 1], keys[n])
    <3>1. CASE n # 0
      <4>1. n \in 1..N /\ n - 1 \in 0..N
        BY <3>1
      <4> QED
        BY <3>1, <4>1, <1>2, <1>6 DEF Loop
    <3> QED
      BY <3>1, <1>6 DEF Loop
  <2> QED
    BY <2>1, <1>6 DEF Loop
<1>8. out = [n \in 0..N |-> IF n = 0 THEN <<>> ELSE AppendOnce(out[n - 1], keys[n])]
  BY <1>7, Zenon
<1> HIDE DEF out
<1>9. out[0] = <<>> /\ \A n \in 1..N : out[n] = AppendOnce(out[n - 1], keys[n])
  BY <1>8
<1>10. \A n \in 0..N : out[n] \in S
  <2>1. \A n \in 1..N : out[n - 1] \in S => out[n] = F[<<n, out[n - 1]>>]
    BY <1>2, <1>9
  <2> QED
    BY <2>1, <1>5, <1>6, <1>9, LoopUnique
<1> QED
  BY <1>1, <1>4, <1>9, <1>10 DEF AppendsOnce, S

\* Entry a of out is where the keys first have it, pos[a].
Firsts(out, keys, pos) ==
  /\ \A a \in 1..Len(out) :
       out[a] = keys[pos[a]] /\ \A p \in 1..(pos[a] - 1) : keys[p] # out[a]
  /\ \A a, b \in 1..Len(out) : a < b => pos[a] < pos[b]

\* The first n keys, each once, in the order in which they first come.
OnceEach(out, keys, n) ==
  /\ \E pos \in [1..Len(out) -> 1..n] : Firsts(out, keys, pos)
  /\ \A p \in 1..n : Contains(out, keys[p])

\* The step of the induction over the rounds.
LEMMA OnceEachMore ==
  ASSUME NEW E, NEW keys \in Seq(E), NEW out \in Seq(E), NEW n \in 1..Len(keys),
         OnceEach(out, keys, n - 1)
  PROVE  OnceEach(AppendOnce(out, keys[n]), keys, n)
<1>1. n \in Nat /\ n >= 1 /\ 1..n = (1..(n - 1)) \cup {n} /\ keys[n] \in E
  OBVIOUS
<1>2. PICK more, key : more = AppendOnce(out, key) /\ key = keys[n]
  OBVIOUS
<1>3. PICK pos \in [1..Len(out) -> 1..(n - 1)] : Firsts(out, keys, pos)
  BY DEF OnceEach
<1>4. key \in E
  BY <1>1, <1>2
<1>5. more = AppendOnce(out, key)
  BY <1>2
<1>6. \A p \in 1..(n - 1) : Contains(out, keys[p])
  BY DEF OnceEach
<1>7. \A p \in 1..n : Contains(more, keys[p])
  <2>1. Adds(more, out, key)
    BY <1>4, <1>5, AppendOnceFacts
  <2>2. ASSUME NEW p \in 1..n PROVE Contains(out, keys[p]) \/ keys[p] = key
    BY <1>1, <1>2, <1>6
  <2> QED
    BY <2>1, <2>2 DEF Adds
<1>8. CASE Contains(out, key)
  <2>1. more = out
    BY <1>2, <1>8 DEF AppendOnce
  <2>2. pos \in [1..Len(out) -> 1..n]
    BY <1>1
  <2> QED
    BY <1>2, <1>3, <1>7, <2>1, <2>2 DEF OnceEach
<1>9. CASE ~Contains(out, key)
  <2>1. more = Append(out, key)
    BY <1>2, <1>9 DEF AppendOnce
  <2>2. /\ more \in Seq(E) /\ Len(more) = Len(out) + 1 /\ Len(out) \in Nat
        /\ more[Len(out) + 1] = key /\ \A i \in 1..Len(out) : more[i] = out[i]
        /\ 1..Len(more) = (1..Len(out)) \cup {Len(out) + 1}
    BY <1>4, <2>1, AppendFacts
  <2>3. PICK last \in Nat : last = Len(out) + 1
    BY <2>2
  <2>4. PICK at : at = [a \in 1..Len(more) |-> IF a = last THEN n ELSE pos[a]]
    OBVIOUS
  <2>5. /\ at \in [1..Len(more) -> 1..n] /\ at[last] = n
        /\ \A a \in 1..Len(out) : at[a] = pos[a] /\ pos[a] \in 1..(n - 1) /\ a # last /\ a < last
    <3>1. \A a \in 1..Len(out) : a # last /\ a < last /\ a \in 1..Len(more)
            /\ pos[a] \in 1..(n - 1)
      BY <2>2, <2>3
    <3>2. last \in 1..Len(more) /\ \A a \in 1..Len(more) : a = last \/ a \in 1..Len(out)
      BY <2>2, <2>3
    <3>3. n \in 1..n /\ 1..(n - 1) \subseteq 1..n
      BY <1>1
    <3> QED
      BY ONLY <2>4, <3>1, <3>2, <3>3
  <2>6. \A p \in 1..(n - 1) : keys[p] # key
    <3>1. \A p \in 1..(n - 1) : Contains(out, keys[p])
      BY DEF OnceEach
    <3> QED
      BY <1>9, <3>1
  <2>7. ASSUME NEW a \in 1..Len(more)
        PROVE  more[a] = keys[at[a]] /\ \A p \in 1..(at[a] - 1) : keys[p] # more[a]
    <3>1. CASE a = last
      BY <1>2, <2>2, <2>3, <2>5, <2>6, <3>1
    <3>2. CASE a \in 1..Len(out)
      <4>1. more[a] = out[a] /\ at[a] = pos[a]
        BY <2>2, <2>5, <3>2
      <4> QED
        BY <1>3, <3>2, <4>1 DEF Firsts
    <3> QED
      BY <2>2, <2>3, <3>1, <3>2
  <2>8. ASSUME NEW a \in 1..Len(more), NEW b \in 1..Len(more), a < b
        PROVE  at[a] < at[b]
    <3>1. a \in 1..Len(out)
      BY <2>2, <2>3, <2>8
    <3>2. CASE b = last
      BY <1>1, <2>5, <3>1, <3>2
    <3>3. CASE b \in 1..Len(out)
      BY <1>3, <2>5, <2>8, <3>1, <3>3 DEF Firsts
    <3> QED
      BY <2>2, <2>3, <3>2, <3>3
  <2>9. Firsts(more, keys, at)
    BY <2>7, <2>8 DEF Firsts
  <2> QED
    BY <1>2, <1>7, <2>5, <2>9 DEF OnceEach
<1> QED
  BY <1>8, <1>9

\* What dedupePasswdUserSSHKeys makes of a list of keys.
LEMMA Deduped ==
  ASSUME NEW E, NEW keys \in Seq(E), NEW all, all = dedupePasswdUserSSHKeys(keys)
  PROVE  all \in Seq(E) /\ OnceEach(all, keys, Len(keys))
<1>1. PICK out : /\ AppendsOnce(out, keys)
                 /\ \A n \in 0..Len(keys) : out[n] \in Seq(E)
                 /\ dedupePasswdUserSSHKeys(keys) = out[Len(keys)]
  BY DedupeDefined
<1>2. PICK N \in Nat : N = Len(keys)
  OBVIOUS
<1> DEFINE B == {n \in Nat : n <= N => OnceEach(out[n], keys, n)}
<1>3. 0 \in B
  <2>1. out[0] = <<>> /\ 1..0 = {} /\ Len(<<>>) = 0
    BY <1>1 DEF AppendsOnce
  <2>2. PICK pos : pos = [a \in {} |-> 0]
    OBVIOUS
  <2>3. pos \in [{} -> {}] /\ Firsts(<<>>, keys, pos)
    BY <2>1, <2>2 DEF Firsts
  <2>4. OnceEach(<<>>, keys, 0)
    BY <2>1, <2>3 DEF OnceEach
  <2> QED
    BY <2>1, <2>4
<1>4. ASSUME NEW n \in Nat, n \in B PROVE n + 1 \in B
  <2> SUFFICES ASSUME n + 1 <= N PROVE OnceEach(out[n + 1], keys, n + 1)
    OBVIOUS
  <2>1. n + 1 \in 1..Len(keys) /\ (n + 1) - 1 = n /\ n \in 0..Len(keys)
    BY <1>2
  <2>2. OnceEach(out[n], keys, n) /\ out[n] \in Seq(E)
    BY <1>2, <1>1, <1>4, <2>1
  <2>3. out[n + 1] = AppendOnce(out[n], keys[n + 1])
    BY <1>1, <2>1 DEF AppendsOnce
  <2> QED
    BY <2>1, <2>2, <2>3, OnceEachMore
<1>5. Nat \subseteq B
  <2> HIDE DEF B
  <2> QED
    BY <1>3, <1>4, SetInduction
<1>6. N \in B /\ N \in 0..N
  BY <1>5
<1> QED
  BY <1>2, <1>1, <1>6

-----------------------------------------------------------------------------
(* The SSH keys of all users.                                              *)

\* The rounds of SSHAuthorizedKeys.
JoinsKeys(out, back) ==
  out[0] = <<>> /\ \A n \in 1..Len(back) : out[n] = out[n - 1] \o back[n].keys

\* SSHAuthorizedKeys is the last of its rounds.
LEMMA KeysDefined ==
  ASSUME NEW users \in Seq(User)
  PROVE  \E out : /\ JoinsKeys(out, Reverse(users))
                  /\ \A n \in 0..Len(users) : out[n] \in Seq(STRING)
                  /\ SSHAuthorizedKeys(users) = out[Len(users)]
<1>1. PICK N \in Nat : N = Len(users)
  OBVIOUS
<1>2. PICK back : back = Reverse(users)
  OBVIOUS
<1>3. back \in Seq(User) /\ Len(back) = N
  BY <1>1, <1>2, ReverseFacts DEF Backwards
<1> DEFINE S == Seq(STRING)
           F == [p \in (1..N) \X S |-> p[2] \o back[p[1]].keys]
           out == CHOOSE g : g = [n \in 0..N |-> IF n = 0 THEN <<>> ELSE g[n - 1] \o back[n].keys]
<1>4. \A n \in 1..N, s \in S : F[<<n, s>>] = s \o back[n].keys
  OBVIOUS
<1>5. F \in [(1..N) \X S -> S]
  <2>1. ASSUME NEW p \in (1..N) \X S PROVE p[2] \o back[p[1]].keys \in S
    <3>1. p[2] \in Seq(STRING) /\ back[p[1]] \in User
      BY <1>3
    <3>2. back[p[1]].keys \in Seq(STRING)
      BY <3>1 DEF User
    <3> QED
      BY <3>1, <3>2
  <2> QED
    BY <2>1
<1>6. SSHAuthorizedKeys(users) = out[Len(users)]
  BY <1>1, <1>2 DEF SSHAuthorizedKeys
<1>7. <<>> \in S
  OBVIOUS
<1> HIDE DEF S, F
<1>8. PICK f : Loop(f, S, <<>>, N, F)
  BY <1>5, <1>7, LoopExists
<1>9. f = [n \in 0..N |-> IF n = 0 THEN <<>> ELSE f[n - 1] \o back[n].keys]
  <2>1. ASSUME NEW n \in 0..N
        PROVE  f[n] = IF n = 0 THEN <<>> ELSE f[n - 1] \o back[n].keys
    <3>1. CASE n # 0
      <4>1. n \in 1..N /\ n - 1 \in 0..N
        BY <3>1
      <4> QED
        BY <3>1, <4>1, <1>4, <1>8 DEF Loop
    <3> QED
      BY <3>1, <1>8 DEF Loop
  <2> QED
    BY <2>1, <1>8 DEF Loop
<1>10. out = [n \in 0..N |-> IF n = 0 THEN <<>> ELSE out[n - 1] \o back[n].keys]
  BY <1>9, Zenon
<1> HIDE DEF out
<1>11. out[0] = <<>> /\ \A n \in 1..N : out[n] = out[n - 1] \o back[n].keys
  BY <1>10
<1>12. \A n \in 0..N : out[n] \in S
  <2>1. \A n \in 1..N : out[n - 1] \in S => out[n] = F[<<n, out[n - 1]>>]
    BY <1>4, <1>11
  <2> QED
    BY <2>1, <1>7, <1>8, <1>11, LoopUnique
<1>13. JoinsKeys(out, Reverse(users))
  BY <1>2, <1>3, <1>11 DEF JoinsKeys
<1> QED
  BY <1>1, <1>6, <1>12, <1>13 DEF S

\* Key p is one of user owner[p], newer users before older ones, and every user's
\* keys are there.
Owned(keys, back, n, owner) ==
  /\ \A p \in 1..Len(keys) : Contains(back[owner[p]].keys, keys[p])
  /\ \A p, q \in 1..Len(keys) : p <= q => owner[p] <= owner[q]
  /\ \A m \in 1..n : \A key : Contains(back[m].keys, key) =>
       \E p \in 1..Len(keys) : keys[p] = key /\ owner[p] = m

Joint(keys, back, n) == \E owner \in [1..Len(keys) -> 1..n] : Owned(keys, back, n, owner)

\* The step of the induction over the rounds.
LEMMA JointMore ==
  ASSUME NEW back \in Seq(User), NEW n \in 1..Len(back), NEW keys \in Seq(STRING),
         Joint(keys, back, n - 1)
  PROVE  Joint(keys \o back[n].keys, back, n)
<1>1. n \in Nat /\ n >= 1 /\ 1..n = (1..(n - 1)) \cup {n} /\ back[n] \in User
  OBVIOUS
<1>2. PICK own : own = back[n].keys /\ own \in Seq(STRING)
  BY <1>1 DEF User
<1>3. PICK more : more = keys \o own
  OBVIOUS
<1>4. PICK K \in Nat, L \in Nat : K = Len(keys) /\ L = Len(own)
  BY <1>2
<1>5. /\ more \in Seq(STRING) /\ Len(more) = K + L
      /\ \A p \in 1..K : more[p] = keys[p]
      /\ \A p \in 1..L : more[K + p] = own[p]
  <2>1. own \in Seq(STRING)
    BY <1>2
  <2>2. /\ more \in Seq(STRING) /\ Len(more) = Len(keys) + Len(own)
        /\ \A p \in 1..Len(keys) : more[p] = keys[p]
        /\ \A p \in 1..Len(own) : more[Len(keys) + p] = own[p]
    BY ONLY keys \in Seq(STRING), <1>3, <2>1
  <2> QED
    BY ONLY <1>4, <2>2
<1>6. PICK owner \in [1..K -> 1..(n - 1)] : Owned(keys, back, n - 1, owner)
  BY <1>4 DEF Joint
<1>7. PICK of : of = [p \in 1..(K + L) |-> IF p <= K THEN owner[p] ELSE n]
  OBVIOUS
<1>8. /\ \A p \in 1..K : of[p] = owner[p] /\ of[p] \in 1..(n - 1)
      /\ \A p \in 1..(K + L) : ~(p <= K) => of[p] = n
      /\ of \in [1..(K + L) -> 1..n]
  <2>1. \A p \in 1..K : p \in 1..(K + L) /\ p <= K
    OBVIOUS
  <2>2. \A p \in 1..(K + L) : p <= K => p \in 1..K
    OBVIOUS
  <2>3. n \in 1..n /\ 1..(n - 1) \subseteq 1..n
    BY <1>1
  <2> QED
    BY <1>7, <2>1, <2>2, <2>3
<1>9. ASSUME NEW p \in 1..(K + L) PROVE Contains(back[of[p]].keys, more[p])
  <2>1. CASE p <= K
    <3>1. p \in 1..K
      BY <2>1
    <3> QED
      BY <1>4, <1>5, <1>6, <1>8, <3>1 DEF Owned
  <2>2. CASE ~(p <= K)
    <3>1. PICK q : q = p - K
      OBVIOUS
    <3>2. q \in 1..L /\ p = K + q
      BY <2>2, <3>1
    <3>3. more[p] = own[q] /\ of[p] = n
      BY <1>5, <1>8, <2>2, <3>2
    <3> QED
      BY <1>2, <1>4, <3>2, <3>3 DEF Contains
  <2> QED
    BY <2>1, <2>2
<1>10. ASSUME NEW p \in 1..(K + L), NEW q \in 1..(K + L), p <= q PROVE of[p] <= of[q]
  <2>1. CASE q <= K
    <3>1. p \in 1..K /\ q \in 1..K
      BY <1>10, <2>1
    <3>2. owner[p] <= owner[q]
      BY <1>4, <1>6, <1>10, <3>1 DEF Owned
    <3> QED
      BY <1>8, <3>1, <3>2
  <2>2. CASE ~(q <= K)
    <3>1. of[q] = n /\ of[p] \in 1..n
      BY <1>8, <2>2
    <3> QED
      BY <1>1, <3>1
  <2> QED
    BY <2>1, <2>2
<1>11. ASSUME NEW m \in 1..n, NEW key, Contains(back[m].keys, key)
       PROVE  \E p \in 1..(K + L) : more[p] = key /\ of[p] = m
  <2>1. CASE m = n
    <3>1. PICK q \in 1..L : own[q] = key
      BY <1>2, <1>4, <1>11, <2>1 DEF Contains
    <3>2. PICK p : p = K + q
      OBVIOUS
    <3>3. p \in 1..(K + L) /\ ~(p <= K)
      BY <3>2
    <3> QED
      BY <1>5, <1>8, <2>1, <3>1, <3>2, <3>3
  <2>2. CASE m \in 1..(n - 1)
    <3>1. PICK p \in 1..K : keys[p] = key /\ owner[p] = m
      BY <1>4, <1>6, <1>11, <2>2 DEF Owned
    <3>2. p \in 1..(K + L)
      OBVIOUS
    <3> QED
      BY <1>5, <1>8, <3>1, <3>2
  <2> QED
    BY <1>1, <2>1, <2>2
<1>12. Owned(more, back, n, of)
  <2>1. /\ \A p \in 1..(K + L) : Contains(back[of[p]].keys, more[p])
        /\ \A p, q \in 1..(K + L) : p <= q => of[p] <= of[q]
    BY <1>9, <1>10
  <2>2. \A m \in 1..n : \A key : Contains(back[m].keys, key) =>
          \E p \in 1..(K + L) : more[p] = key /\ of[p] = m
    BY <1>11
  <2>3. 1..Len(more) = 1..(K + L)
    BY <1>5
  <2> QED
    BY ONLY <2>1, <2>2, <2>3 DEF Owned
<1> QED
  BY <1>2, <1>3, <1>5, <1>8, <1>12 DEF Joint

\* The keys of all users, newest user first.
LEMMA KeysJoint ==
  ASSUME NEW users \in Seq(User), NEW keys, keys = SSHAuthorizedKeys(users),
         NEW back, back = Reverse(users)
  PROVE  keys \in Seq(STRING) /\ Joint(keys, back, Len(users))
<1>1. PICK N \in Nat : N = Len(users)
  OBVIOUS
<1>2. back \in Seq(User) /\ Len(back) = N
  BY <1>1, ReverseFacts DEF Backwards
<1>3. PICK out : /\ JoinsKeys(out, back)
                 /\ \A n \in 0..Len(users) : out[n] \in Seq(STRING)
                 /\ SSHAuthorizedKeys(users) = out[Len(users)]
  BY KeysDefined
<1> DEFINE B == {n \in Nat : n <= N => Joint(out[n], back, n)}
<1>4. 0 \in B
  <2>1. out[0] = <<>> /\ 1..0 = {} /\ Len(<<>>) = 0
    BY <1>3 DEF JoinsKeys
  <2>2. PICK owner : owner = [a \in {} |-> 0]
    OBVIOUS
  <2>3. owner \in [{} -> {}] /\ Owned(<<>>, back, 0, owner)
    BY <2>1, <2>2 DEF Owned
  <2>4. Joint(<<>>, back, 0)
    BY <2>1, <2>3 DEF Joint
  <2> QED
    BY <2>1, <2>4
<1>5. ASSUME NEW n \in Nat, n \in B PROVE n + 1 \in B
  <2> SUFFICES ASSUME n + 1 <= N PROVE Joint(out[n + 1], back, n + 1)
    OBVIOUS
  <2>1. n + 1 \in 1..Len(back) /\ (n + 1) - 1 = n /\ n \in 0..Len(users)
    BY <1>1, <1>2
  <2>2. Joint(out[n], back, n) /\ out[n] \in Seq(STRING)
    BY <1>1, <1>3, <1>5, <2>1
  <2>3. out[n + 1] = out[n] \o back[n + 1].keys
    BY <1>3, <2>1 DEF JoinsKeys
  <2>4. Joint(out[n] \o back[n + 1].keys, back, n + 1)
    BY <1>2, <2>1, <2>2, JointMore
  <2> QED
    BY <2>3, <2>4
<1>6. Nat \subseteq B
  <2> HIDE DEF B
  <2> QED
    BY <1>4, <1>5, SetInduction
<1>7. N \in B /\ N \in 0..N
  BY <1>6
<1> QED
  BY <1>1, <1>3, <1>7

\* The first user from the end that has a key is the newest one that has it.
LEMMA NewestWithIs ==
  ASSUME NEW users \in Seq(User), NEW key, NEW i \in 1..Len(users), Contains(users[i].keys, key),
         \A j \in (i + 1)..Len(users) : ~Contains(users[j].keys, key)
  PROVE  NewestWith(users, key) = i
<1>1. Len(users) \in Nat
  OBVIOUS
<1>2. ASSUME NEW h \in 1..Len(users), Contains(users[h].keys, key),
             \A j \in (h + 1)..Len(users) : ~Contains(users[j].keys, key)
      PROVE  h = i
  <2>1. h \notin (i + 1)..Len(users) /\ i \notin (h + 1)..Len(users)
    BY <1>2
  <2> QED
    BY <1>1, <2>1
<1> QED
  BY <1>2 DEF NewestWith

\* What is left of the keys: each once, those of newer users first.
LEMMA KeysKept ==
  ASSUME NEW users \in Seq(User),
         NEW keys, keys = dedupePasswdUserSSHKeys(SSHAuthorizedKeys(users))
  PROVE  /\ keys \in Seq(STRING)
         /\ ToSet(keys) = UNION {ToSet(user.keys) : user \in ToSet(users)}
         /\ \A a, b \in 1..Len(keys) :
              a < b => /\ keys[a] # keys[b]
                       /\ NewestWith(users, keys[a]) >= NewestWith(users, keys[b])
<1>1. PICK back, all : back = Reverse(users) /\ all = SSHAuthorizedKeys(users)
  OBVIOUS
<1>2. PICK N \in Nat : N = Len(users)
  OBVIOUS
<1>3. back \in Seq(User) /\ Backwards(back, users)
  BY <1>1, ReverseFacts
<1>4. /\ \A j \in 1..N : back[j] = users[(N - j) + 1] /\ (N - j) + 1 \in 1..N
      /\ \A j \in 1..N : users[j] = back[(N - j) + 1]
  BY <1>2, <1>3 DEF Backwards
<1>5. all \in Seq(STRING) /\ Joint(all, back, N)
  BY <1>1, <1>2, KeysJoint
<1>6. PICK owner \in [1..Len(all) -> 1..N] : Owned(all, back, N, owner)
  BY <1>5 DEF Joint
<1>7. keys \in Seq(STRING) /\ OnceEach(keys, all, Len(all))
  BY <1>1, <1>5, Deduped
<1>8. PICK pos \in [1..Len(keys) -> 1..Len(all)] : Firsts(keys, all, pos)
  BY <1>7 DEF OnceEach
<1>9. \A p \in 1..Len(all) : Contains(keys, all[p])
  BY <1>7 DEF OnceEach
<1>10. Len(all) \in Nat /\ Len(keys) \in Nat
  BY <1>5, <1>7
<1>11. ASSUME NEW a \in 1..Len(keys)
      PROVE  /\ keys[a] = all[pos[a]] /\ pos[a] \in 1..Len(all) /\ owner[pos[a]] \in 1..N
             /\ Contains(back[owner[pos[a]]].keys, keys[a])
             /\ NewestWith(users, keys[a]) = (N - owner[pos[a]]) + 1
  <2>1. PICK p, m : p = pos[a] /\ m = owner[p]
    OBVIOUS
  <2>2. p \in 1..Len(all) /\ m \in 1..N /\ keys[a] = all[p]
    BY <1>8, <2>1 DEF Firsts
  <2>3. Contains(back[m].keys, keys[a])
    BY <1>6, <2>1, <2>2 DEF Owned
  <2>4. PICK i : i = (N - m) + 1
    OBVIOUS
  <2>5. i \in 1..Len(users) /\ back[m] = users[i] /\ m = (N - i) + 1
    BY <1>2, <1>4, <2>2, <2>4
  <2>6. ASSUME NEW j \in (i + 1)..Len(users), Contains(users[j].keys, keys[a]) PROVE FALSE
    <3>1. PICK l : l = (N - j) + 1
      OBVIOUS
    <3>2. l \in 1..N /\ l < m /\ j \in 1..N
      BY <1>2, <2>5, <2>2, <3>1
    <3>3. Contains(back[l].keys, keys[a])
      BY <1>4, <2>6, <3>1, <3>2
    <3>4. PICK q \in 1..Len(all) : all[q] = keys[a] /\ owner[q] = l
      BY <1>6, <3>2, <3>3 DEF Owned
    <3>5. ~(q < p)
      <4>1. q < p => q \in 1..(p - 1)
        BY <1>10, <2>2
      <4> QED
        BY <1>8, <2>1, <3>4, <4>1 DEF Firsts
    <3>6. p <= q
      BY <1>10, <2>2, <3>5
    <3>7. m <= l
      BY <1>6, <2>1, <2>2, <3>4, <3>6 DEF Owned
    <3> QED
      BY <2>2, <3>2, <3>7
  <2>7. NewestWith(users, keys[a]) = i
    BY <2>3, <2>5, <2>6, NewestWithIs
  <2> QED
    BY <2>1, <2>2, <2>3, <2>4, <2>7
<1>12. ASSUME NEW a \in 1..Len(keys), NEW b \in 1..Len(keys), a < b
       PROVE  keys[a] # keys[b] /\ NewestWith(users, keys[a]) >= NewestWith(users, keys[b])
  <2>1. pos[a] < pos[b] /\ pos[a] \in 1..Len(all) /\ pos[b] \in 1..Len(all)
    BY <1>8, <1>12 DEF Firsts
  <2>2. pos[a] \in 1..(pos[b] - 1)
    BY <1>10, <2>1
  <2>3. keys[a] # keys[b]
    <3>1. all[pos[a]] # keys[b]
      BY <1>8, <2>2 DEF Firsts
    <3> QED
      BY <1>11, <3>1
  <2>4. owner[pos[a]] <= owner[pos[b]]
    <3>1. pos[a] <= pos[b]
      BY <1>10, <2>1
    <3> QED
      BY <1>6, <2>1, <3>1 DEF Owned
  <2>5. /\ owner[pos[a]] \in 1..N /\ owner[pos[b]] \in 1..N
        /\ NewestWith(users, keys[a]) = (N - owner[pos[a]]) + 1
        /\ NewestWith(users, keys[b]) = (N - owner[pos[b]]) + 1
    BY <1>11
  <2> QED
    BY <2>3, <2>4, <2>5
<1>13. ASSUME NEW key
       PROVE  key \in ToSet(keys) <=> \E user \in ToSet(users) : key \in ToSet(user.keys)
  <2>1. ToSet(users) = {users[i] : i \in 1..N} /\ \A i \in 1..N : users[i] \in User
    BY <1>2 DEF ToSet
  <2>2. \A user \in ToSet(users) : user.keys \in Seq(STRING)
    BY <2>1 DEF User
  <2>3. ASSUME key \in ToSet(keys) PROVE \E user \in ToSet(users) : key \in ToSet(user.keys)
    <3>1. PICK a \in 1..Len(keys) : keys[a] = key
      BY <2>3 DEF ToSet
    <3>2. PICK m \in 1..N : Contains(back[m].keys, key)
      BY <1>11, <3>1
    <3>3. back[m] \in ToSet(users)
      BY <2>1, <1>4
    <3>4. key \in ToSet(back[m].keys)
      BY <2>2, <3>2, <3>3 DEF Contains, ToSet
    <3> QED
      BY <3>3, <3>4
  <2>4. ASSUME NEW user \in ToSet(users), key \in ToSet(user.keys) PROVE key \in ToSet(keys)
    <3>1. PICK i \in 1..Len(users) : users[i] = user
      BY DEF ToSet
    <3>2. PICK m : m = (N - i) + 1
      OBVIOUS
    <3>3. m \in 1..N /\ back[m] = user
      BY <1>2, <1>4, <3>1, <3>2
    <3>4. Contains(back[m].keys, key)
      BY <2>2, <2>4, <3>3 DEF Contains, ToSet
    <3>5. PICK p \in 1..Len(all) : all[p] = key
      BY <1>6, <3>3, <3>4 DEF Owned
    <3>6. Contains(keys, key)
      BY <1>9, <3>5
    <3> QED
      BY <1>7, <3>6 DEF Contains, ToSet
  <2> QED
    BY <2>3, <2>4
<1> QED
  BY <1>7, <1>12, <1>13

-----------------------------------------------------------------------------
(* The supported versions.                                                 *)

\* No entry comes twice.
Distinct(list) == \A i, j \in 1..Len(list) : list[i] = list[j] => i = j

\* AppendOnce keeps a list without repetitions.
LEMMA AppendOnceDistinct ==
  ASSUME NEW E, NEW list \in Seq(E), NEW entry \in E, Distinct(list)
  PROVE  Distinct(AppendOnce(list, entry))
<1>1. CASE Contains(list, entry)
  BY <1>1 DEF AppendOnce
<1>2. CASE ~Contains(list, entry)
  <2>1. PICK more : more = Append(list, entry)
    OBVIOUS
  <2>2. /\ more[Len(list) + 1] = entry /\ \A i \in 1..Len(list) : more[i] = list[i]
        /\ 1..Len(more) = (1..Len(list)) \cup {Len(list) + 1}
    BY <2>1, AppendFacts
  <2>3. \A i \in 1..Len(list) : more[i] # entry
    BY <1>2, <2>2 DEF Contains
  <2>4. Distinct(more)
    BY ONLY <2>2, <2>3, Distinct(list) DEF Distinct
  <2> QED
    BY <1>2, <2>1, <2>4 DEF AppendOnce
<1> QED
  BY <1>1, <1>2

\* One round of the registration of versions.
WithBoth(versions, conv) == AppendOnce(AppendOnce(versions, conv.source), conv.target)

\* The versions of the first n converters, each once.
VersionsOf(versions, list, n) ==
  /\ Distinct(versions)
  /\ \A v : Contains(versions, v) <=> \E k \in 1..n : list[k].source = v \/ list[k].target = v

\* The step of the induction over the rounds.
LEMMA WithBothFacts ==
  ASSUME NEW list \in Seq(Converter), NEW n \in 1..Len(list), NEW versions \in Seq(Version)
  PROVE  /\ WithBoth(versions, list[n]) \in Seq(Version)
         /\ VersionsOf(versions, list, n - 1) => VersionsOf(WithBoth(versions, list[n]), list, n)
<1>1. n \in Nat /\ 1..n = (1..(n - 1)) \cup {n} /\ list[n] \in Converter
  OBVIOUS
<1>2. PICK source, target : source = list[n].source /\ target = list[n].target
  OBVIOUS
<1>3. source \in Version /\ target \in Version
  BY <1>1, <1>2 DEF Converter
<1>4. PICK one : one = AppendOnce(versions, source)
  OBVIOUS
<1>5. one \in Seq(Version) /\ Adds(one, versions, source)
  BY <1>3, <1>4, AppendOnceFacts
<1>6. PICK two : two = AppendOnce(one, target)
  OBVIOUS
<1>7. two \in Seq(Version) /\ Adds(two, one, target)
  BY <1>3, <1>5, <1>6, AppendOnceFacts
<1>8. WithBoth(versions, list[n]) = two
  BY <1>2, <1>4, <1>6 DEF WithBoth
<1>9. ASSUME VersionsOf(versions, list, n - 1) PROVE VersionsOf(two, list, n)
  <2>1. Distinct(one)
    BY <1>3, <1>4, <1>9, AppendOnceDistinct DEF VersionsOf
  <2>2. Distinct(two)
    BY <1>3, <1>5, <1>6, <2>1, AppendOnceDistinct
  <2>3. ASSUME NEW v
        PROVE  Contains(two, v) <=> \E k \in 1..n : list[k].source = v \/ list[k].target = v
    <3>1. Contains(two, v) <=> Contains(versions, v) \/ v = source \/ v = target
      BY <1>5, <1>7 DEF Adds
    <3>2. Contains(versions, v) <=> \E k \in 1..(n - 1) : list[k].source = v \/ list[k].target = v
      BY <1>9 DEF VersionsOf
    <3> QED
      BY <1>1, <1>2, <3>1, <3>2
  <2> QED
    BY <2>2, <2>3 DEF VersionsOf
<1> QED
  BY <1>7, <1>8, <1>9

\* The rounds of Registered.
RegistersVersions(out, list) ==
  out[0] = <<>> /\ \A n \in 1..Len(list) : out[n] = WithBoth(out[n - 1], list[n])

\* Registered is the last of its rounds.
LEMMA RegisteredDefined ==
  ASSUME NEW list \in Seq(Converter)
  PROVE  \E out : /\ RegistersVersions(out, list)
                  /\ \A n \in 0..Len(list) : out[n] \in Seq(Version)
                  /\ Registered(list) = out[Len(list)]
<1>1. PICK N \in Nat : N = Len(list)
  OBVIOUS
<1> DEFINE S == Seq(Version)
           F == [p \in (1..N) \X S |-> WithBoth(p[2], list[p[1]])]
           out == CHOOSE g : g = [n \in 0..N |-> IF n = 0 THEN <<>>
             ELSE WithBoth(g[n - 1], list[n])]
<1>2. \A n \in 1..N, s \in S : F[<<n, s>>] = WithBoth(s, list[n])
  OBVIOUS
<1>3. F \in [(1..N) \X S -> S]
  <2>1. ASSUME NEW p \in (1..N) \X S PROVE WithBoth(p[2], list[p[1]]) \in S
    <3>1. p[2] \in Seq(Version) /\ p[1] \in 1..Len(list)
      BY <1>1
    <3> QED
      BY <3>1, WithBothFacts
  <2> QED
    BY <2>1
<1>4. Registered(list) = out[Len(list)]
  BY <1>1 DEF Registered, WithBoth
<1>5. <<>> \in S
  OBVIOUS
<1> HIDE DEF S, F
<1>6. PICK f : Loop(f, S, <<>>, N, F)
  BY <1>3, <1>5, LoopExists
<1>7. f = [n \in 0..N |-> IF n = 0 THEN <<>> ELSE WithBoth(f[n - 1], list[n])]
  <2>1. ASSUME NEW n \in 0..N
        PROVE  f[n] = IF n = 0 THEN <<>> ELSE WithBoth(f[n - 1], list[n])
    <3>1. CASE n # 0
      <4>1. n \in 1..N /\ n - 1 \in 0..N
        BY <3>1
      <4> QED
        BY <3>1, <4>1, <1>2, <1>6 DEF Loop
    <3> QED
      BY <3>1, <1>6 DEF Loop
  <2> QED
    BY <2>1, <1>6 DEF Loop
<1>8. out = [n \in 0..N |-> IF n = 0 THEN <<>> ELSE WithBoth(out[n - 1], list[n])]
  BY <1>7, Zenon
<1> HIDE DEF out
<1>9. out[0] = <<>> /\ \A n \in 1..N : out[n] = WithBoth(out[n - 1], list[n])
  BY <1>8
<1>10. \A n \in 0..N : out[n] \in S
  <2>1. \A n \in 1..N : out[n - 1] \in S => out[n] = F[<<n, out[n - 1]>>]
    BY <1>2, <1>9
  <2> QED
    BY <2>1, <1>5, <1>6, <1>9, LoopUnique
<1> QED
  BY <1>1, <1>4, <1>9, <1>10 DEF RegistersVersions, S

\* What registerConverterVersions makes of the list of converters.
LEMMA RegisteredFacts ==
  ASSUME NEW list \in Seq(Converter), NEW versions, versions = Registered(list)
  PROVE  versions \in Seq(Version) /\ VersionsOf(versions, list, Len(list))
<1>1. PICK N \in Nat : N = Len(list)
  OBVIOUS
<1>2. PICK out : /\ RegistersVersions(out, list)
                 /\ \A n \in 0..Len(list) : out[n] \in Seq(Version)
                 /\ Registered(list) = out[Len(list)]
  BY RegisteredDefined
<1> DEFINE B == {n \in Nat : n <= N => VersionsOf(out[n], list, n)}
<1>3. 0 \in B
  <2>1. out[0] = <<>> /\ 1..0 = {} /\ Len(<<>>) = 0
    BY <1>2 DEF RegistersVersions
  <2>2. VersionsOf(<<>>, list, 0)
    BY <2>1 DEF VersionsOf, Distinct, Contains
  <2> QED
    BY <2>1, <2>2
<1>4. ASSUME NEW n \in Nat, n \in B PROVE n + 1 \in B
  <2> SUFFICES ASSUME n + 1 <= N PROVE VersionsOf(out[n + 1], list, n + 1)
    OBVIOUS
  <2>1. n + 1 \in 1..Len(list) /\ (n + 1) - 1 = n /\ n \in 0..Len(list)
    BY <1>1
  <2>2. VersionsOf(out[n], list, n) /\ out[n] \in Seq(Version)
    BY <1>1, <1>2, <1>4, <2>1
  <2>3. out[n + 1] = WithBoth(out[n], list[n + 1])
    BY <1>2, <2>1 DEF RegistersVersions
  <2> QED
    BY <2>1, <2>2, <2>3, WithBothFacts
<1>5. Nat \subseteq B
  <2> HIDE DEF B
  <2> QED
    BY <1>3, <1>4, SetInduction
<1>6. N \in B /\ N \in 0..N
  BY <1>5
<1> QED
  BY <1>1, <1>2, <1>6

\* The versions of the list, each once.
Supported(versions) ==
  versions \in Seq(Version) /\ Distinct(versions) /\ ToSet(versions) = ToVersions

\* The versions that are supported before they are sorted.
LEMMA RegisteredSupported ==
  ASSUME converters \in Seq(Converter)
  PROVE  Supported(Registered(converters))
<1>1. PICK versions : versions = Registered(converters)
  OBVIOUS
<1>2. versions \in Seq(Version) /\ VersionsOf(versions, converters, Len(converters))
  BY <1>1, RegisteredFacts
<1>3. ASSUME NEW v PROVE v \in ToSet(versions) <=> v \in ToVersions
  <2>1. v \in ToSet(versions) <=> Contains(versions, v)
    BY <1>2 DEF ToSet, Contains
  <2>2. Contains(versions, v)
          <=> \E k \in 1..Len(converters) : converters[k].source = v \/ converters[k].target = v
    BY <1>2 DEF VersionsOf
  <2>3. ToSet(converters) = {converters[k] : k \in 1..Len(converters)}
    BY DEF ToSet
  <2> QED
    BY <2>1, <2>2, <2>3 DEF ToVersions
<1> QED
  BY <1>1, <1>2, <1>3 DEF Supported, VersionsOf

-----------------------------------------------------------------------------
(* semver.Sort.                                                            *)

\* Versions are strictly and totally ordered.
LEMMA PrecedesOrders ==
  /\ \A v \in Version : ~Precedes(v, v)
  /\ \A v, w \in Version : Precedes(v, w) \/ Precedes(w, v) \/ v = w
  /\ \A u, v, w \in Version : Precedes(u, v) /\ Precedes(v, w) => Precedes(u, w)
<1>1. ASSUME NEW v \in Version
      PROVE  v = <<v[1], v[2], v[3]>> /\ v[1] \in Nat /\ v[2] \in Nat /\ v[3] \in Nat
  BY DEF Version
<1>2. \A v \in Version : ~Precedes(v, v)
  BY <1>1 DEF Precedes
<1>3. \A v, w \in Version : Precedes(v, w) \/ Precedes(w, v) \/ v = w
  <2> SUFFICES ASSUME NEW v \in Version, NEW w \in Version, ~Precedes(v, w), ~Precedes(w, v)
               PROVE  v = w
    OBVIOUS
  <2>1. v[1] = w[1] /\ v[2] = w[2] /\ v[3] = w[3]
    BY <1>1 DEF Precedes
  <2> QED
    BY <1>1, <2>1
<1>4. \A u, v, w \in Version : Precedes(u, v) /\ Precedes(v, w) => Precedes(u, w)
  BY <1>1 DEF Precedes
<1> QED
  BY <1>2, <1>3, <1>4

\* The versions of a set that a version comes after.
Before(T, v) == {w \in T : Precedes(w, v)}

\* In a finite set of versions every rank is taken, by one version.
LEMMA RanksOfVersions ==
  ASSUME NEW T \in SUBSET Version, IsFiniteSet(T), NEW count, count = Cardinality(T)
  PROVE  /\ \A v \in T : Cardinality(Before(T, v)) \in 0..(count - 1)
         /\ \A v, w \in T : Cardinality(Before(T, v)) = Cardinality(Before(T, w)) => v = w
         /\ \A r \in 0..(count - 1) : \E v \in T : Cardinality(Before(T, v)) = r
<1>1. count \in Nat
  BY FS_CardinalityType
<1>2. \A v : Before(T, v) \in SUBSET T /\ IsFiniteSet(Before(T, v))
        /\ Cardinality(Before(T, v)) \in Nat
  <2>1. \A v : Before(T, v) \in SUBSET T
    BY DEF Before
  <2> QED
    BY <2>1, FS_Subset, FS_CardinalityType
<1>3. ASSUME NEW v \in T, NEW w \in T, Precedes(v, w)
      PROVE  Cardinality(Before(T, v)) < Cardinality(Before(T, w))
  <2>1. Before(T, v) \in SUBSET Before(T, w) /\ v \in Before(T, w) /\ v \notin Before(T, v)
    BY <1>3, PrecedesOrders DEF Before
  <2>2. /\ Cardinality(Before(T, v)) <= Cardinality(Before(T, w))
        /\ Cardinality(Before(T, w)) = Cardinality(Before(T, v)) => Before(T, w) = Before(T, v)
    BY <1>2, <2>1, FS_Subset
  <2> QED
    BY <1>2, <2>1, <2>2
<1>4. ASSUME NEW v \in T PROVE Cardinality(Before(T, v)) \in 0..(count - 1)
  <2>1. Before(T, v) \in SUBSET T /\ v \notin Before(T, v)
    BY PrecedesOrders DEF Before
  <2>2. /\ Cardinality(Before(T, v)) <= Cardinality(T)
        /\ Cardinality(T) = Cardinality(Before(T, v)) => T = Before(T, v)
    BY <2>1, FS_Subset
  <2> QED
    BY <1>1, <1>2, <2>1, <2>2
<1>5. ASSUME NEW v \in T, NEW w \in T, Cardinality(Before(T, v)) = Cardinality(Before(T, w))
      PROVE  v = w
  <2>1. Cardinality(Before(T, v)) \in Nat /\ Cardinality(Before(T, w)) \in Nat
    BY <1>2
  <2>2. ~Precedes(v, w) /\ ~Precedes(w, v)
    BY <1>3, <1>5, <2>1
  <2> QED
    BY <2>2, PrecedesOrders
<1>6. ASSUME NEW r \in 0..(count - 1) PROVE \E v \in T : Cardinality(Before(T, v)) = r
  <2> DEFINE R == 0..(count - 1)
             f == [v \in T |-> Cardinality(Before(T, v))]
  <2>1. IsFiniteSet(R) /\ Cardinality(R) = count
    BY <1>1, FS_Interval
  <2>2. f \in [T -> R]
    BY <1>4
  <2>3. f \in Injection(T, R)
    BY <1>5, <2>2 DEF Injection, IsInjective
  <2> HIDE DEF f, R
  <2>4. f \in Surjection(T, R)
    BY <2>1, <2>3, FS_Injection
  <2>5. r \in R
    BY DEF R
  <2>6. PICK v \in T : f[v] = r
    BY <2>4, <2>5 DEF Surjection
  <2> QED
    BY <2>6 DEF f
<1> QED
  BY <1>4, <1>5, <1>6

\* Sorting neither loses nor makes up a version.
LEMMA SortSupported ==
  ASSUME NEW versions, Supported(versions)
  PROVE  Sort(versions) \in Seq(Version) /\ ToSet(Sort(versions)) = ToSet(versions)
<1>1. PICK T : T = ToSet(versions)
  OBVIOUS
<1>2. PICK N \in Nat : N = Len(versions)
  BY DEF Supported
<1>3. T = {versions[i] : i \in 1..N} /\ T \in SUBSET Version
  BY <1>1, <1>2 DEF Supported, ToSet
<1>4. IsFiniteSet(T) /\ Cardinality(T) = N
  <2> DEFINE f == [i \in 1..N |-> versions[i]]
  <2>1. IsFiniteSet(1..N) /\ Cardinality(1..N) = N
    <3>1. Cardinality(1..N) = (IF 1 > N THEN 0 ELSE N - 1 + 1) /\ IsFiniteSet(1..N)
      BY ONLY FS_Interval, 1 \in Int, N \in Int
    <3> QED
      BY ONLY <3>1, N \in Nat
  <2>2. f \in Surjection(1..N, T)
    BY <1>3 DEF Surjection
  <2>3. f \in Injection(1..N, T)
    BY <1>2, <1>3 DEF Injection, IsInjective, Supported, Distinct
  <2> HIDE DEF f
  <2> QED
    BY <2>1, <2>2, <2>3, FS_Surjection
<1>5. /\ \A v \in T : Cardinality(Before(T, v)) \in 0..(N - 1)
      /\ \A v, w \in T : Cardinality(Before(T, v)) = Cardinality(Before(T, w)) => v = w
      /\ \A r \in 0..(N - 1) : \E v \in T : Cardinality(Before(T, v)) = r
  BY <1>3, <1>4, RanksOfVersions
<1>6. PICK sorted : sorted = Sort(versions)
  OBVIOUS
<1>7. sorted = [i \in 1..N |-> CHOOSE v \in T : Cardinality(Before(T, v)) = i - 1]
  BY <1>1, <1>2, <1>6 DEF Sort, Before
<1>8. \A i \in 1..N : sorted[i] \in T /\ Cardinality(Before(T, sorted[i])) = i - 1
  <2>1. ASSUME NEW i \in 1..N PROVE \E v \in T : Cardinality(Before(T, v)) = i - 1
    <3>1. i - 1 \in 0..(N - 1)
      OBVIOUS
    <3> QED
      BY <1>5, <3>1
  <2> QED
    BY <1>7, <2>1
<1>9. sorted \in [1..N -> T] /\ DOMAIN sorted = 1..N
  BY <1>7, <1>8
<1>10. sorted \in Seq(Version)
  <2>1. sorted \in [1..N -> Version]
    BY <1>3, <1>9
  <2> QED
    BY ONLY <2>1, N \in Nat
<1>11. ASSUME NEW v \in T PROVE \E i \in 1..N : sorted[i] = v
  <2>1. PICK r \in 0..(N - 1) : r = Cardinality(Before(T, v))
    BY <1>5
  <2>2. r + 1 \in 1..N /\ (r + 1) - 1 = r
    OBVIOUS
  <2>3. sorted[r + 1] \in T /\ Cardinality(Before(T, sorted[r + 1])) = r
    BY <1>8, <2>2
  <2> QED
    BY <1>5, <2>1, <2>2, <2>3
<1>12. ToSet(sorted) = T
  BY <1>9, <1>11 DEF ToSet
<1> QED
  BY <1>1, <1>6, <1>10, <1>12

-----------------------------------------------------------------------------
(* ParseAndConvertConfig: the invariant and what follows from it.          *)

\* The config without its duplicates.
Cleaned(c, given) ==
  /\ c.version = v22 /\ c.expressible = given.expressible
  /\ c.files = outFiles(given.files) /\ c.units = outUnits(given.units)
  /\ c.users = outUsers(given.users)

\* What stands in the way of a translation, in the raw config.
Excused(c) ==
  \/ ~c.expressible
  \/ \E i \in 1..Len(c.units) : Repeats(c.units[i].dropins)
  \/ \E i, j \in 1..Len(c.files) :
       c.files[i].inode = c.files[j].inode /\ c.files[i].name # c.files[j].name

\* The supported versions, before and after newIgnitionConverter sorts them.
SupportedInv ==
  IF built THEN supportedVersions \in Seq(Version) /\ ToSet(supportedVersions) = ToVersions
  ELSE Supported(supportedVersions)

\* What each stage of ParseAndConvertConfig has to work on.
StageInv ==
  /\ raw \in RawConfig
  /\ stage # "idle" => built /\ converters = buildConverterList
  /\ stage # "done" => result = "none"
  /\ stage = "parsed" => config = [raw EXCEPT !.version = v22]
  /\ stage \in {"convert", "converting"} => Cleaned(config, raw)

\* What each refusal goes back to.
ResultInv ==
  /\ result # "unsupported"
  /\ result = "unknown version" => IgnParseWrapper(raw) = "unknown version" /\ stage = "done"
  /\ result = "untranslatable" => Excused(raw)

-----------------------------------------------------------------------------
\* One user is left, with the keys of all of them.
LEMMA UsersKept ==
  ASSUME NEW users \in Seq(User), NEW out, out = outUsers(users)
  PROVE  \A i \in 1..Len(out) :
           /\ i = 1 /\ out[i].keys = dedupePasswdUserSSHKeys(SSHAuthorizedKeys(users))
<1>1. CASE users = <<>>
  <2>1. out = <<>>
    BY <1>1 DEF outUsers
  <2> QED
    BY <2>1
<1>2. CASE users # <<>>
  <2>1. PICK keys : keys = dedupePasswdUserSSHKeys(SSHAuthorizedKeys(users))
    OBVIOUS
  <2>2. PICK user : user = [users[Len(users)] EXCEPT !.keys = keys]
    OBVIOUS
  <2>3. out = <<user>>
    BY <1>2, <2>1, <2>2 DEF outUsers
  <2>4. users[Len(users)] \in User
    BY <1>2
  <2>5. user.keys = keys
    BY <2>2, <2>4 DEF User
  <2> QED
    BY <2>1, <2>3, <2>5
<1> QED
  BY <1>1, <1>2

\* What NewestWins asks of a config without its duplicates.
LEMMA CleanedNewest ==
  ASSUME raw \in RawConfig, Cleaned(config, raw)
  PROVE  NewestFilesAndUnits /\ AllKeysOnce
<1>1. raw.files \in Seq(File) /\ raw.units \in Seq(Unit) /\ raw.users \in Seq(User)
  BY DEF RawConfig
<1>2. /\ config.files = outFiles(raw.files) /\ config.units = outUnits(raw.units)
      /\ config.users = outUsers(raw.users)
  BY DEF Cleaned
<1>3. /\ ~Repeats(config.files)
      /\ ToSet(config.files)
           = {raw.files[i] : i \in {j \in 1..Len(raw.files) : Newest(raw.files, j)}}
  BY <1>1, <1>2, FilesKept
<1>4. /\ ~Repeats(config.units)
      /\ {[unit EXCEPT !.dropins = ToSet(@)] : unit \in ToSet(config.units)}
           = {[raw.units[i] EXCEPT !.dropins = DropinsOf(raw.units, raw.units[i].name)] :
                i \in {j \in 1..Len(raw.units) : Newest(raw.units, j)}}
  BY <1>1, <1>2, UnitsKept
<1>5. AllKeysOnce
  <2>1. PICK keys : keys = dedupePasswdUserSSHKeys(SSHAuthorizedKeys(raw.users))
    OBVIOUS
  <2>2. \A i \in 1..Len(config.users) : i = 1 /\ config.users[i].keys = keys
    BY <1>1, <1>2, <2>1, UsersKept
  <2>3. /\ ToSet(keys) = UNION {ToSet(user.keys) : user \in ToSet(raw.users)}
        /\ \A a, b \in 1..Len(keys) :
             a < b => /\ keys[a] # keys[b]
                      /\ NewestWith(raw.users, keys[a]) >= NewestWith(raw.users, keys[b])
    BY <1>1, <2>1, KeysKept
  <2> QED
    BY <2>2, <2>3 DEF AllKeysOnce
<1> QED
  BY <1>3, <1>4, <1>5 DEF NewestFilesAndUnits

\* What a translation refuses then was wrong in the raw config.
LEMMA CleanedExcused ==
  ASSUME raw \in RawConfig, Cleaned(config, raw), ~Translatable(config)
  PROVE  Excused(raw)
<1>1. raw.files \in Seq(File) /\ raw.units \in Seq(Unit)
  BY DEF RawConfig
<1>2. /\ config.files = outFiles(raw.files) /\ config.units = outUnits(raw.units)
      /\ config.expressible = raw.expressible
  BY DEF Cleaned
<1>3. CASE ~config.expressible
  BY <1>2, <1>3 DEF Excused
<1>4. CASE Repeats(config.units)
  BY <1>1, <1>2, <1>4, UnitsKept
<1>5. ASSUME NEW i \in 1..Len(config.units), Repeats(config.units[i].dropins) PROVE Excused(raw)
  <2>1. \A j \in 1..Len(config.units) : Repeats(config.units[j].dropins) =>
              \E k \in 1..Len(raw.units) : Repeats(raw.units[k].dropins)
    BY <1>1, <1>2, UnitsKept
  <2> QED
    BY <1>5, <2>1 DEF Excused
<1>6. ASSUME NEW i \in 1..Len(config.files), NEW j \in 1..Len(config.files), i # j,
             config.files[i].inode = config.files[j].inode
      PROVE  Excused(raw)
  <2>1. /\ config.files \in Seq(File) /\ ~Repeats(config.files)
        /\ ToSet(config.files)
             = {raw.files[k] : k \in {l \in 1..Len(raw.files) : Newest(raw.files, l)}}
    BY <1>1, <1>2, FilesKept
  <2>2. config.files[i].name # config.files[j].name
    BY <1>6, <2>1 DEF Repeats
  <2>3. config.files[i] \in ToSet(config.files) /\ config.files[j] \in ToSet(config.files)
    BY <2>1 DEF ToSet
  <2>4. PICK k \in 1..Len(raw.files), l \in 1..Len(raw.files) :
          config.files[i] = raw.files[k] /\ config.files[j] = raw.files[l]
    BY <2>1, <2>3
  <2> QED
    BY <1>6, <2>2, <2>4 DEF Excused
<1> QED
  BY <1>3, <1>4, <1>5, <1>6 DEF Translatable, HasDuplicates

-----------------------------------------------------------------------------
\* The repository's own list takes 2.2 to 3.5.
LEMMA OwnListReaches ==
  ASSUME WalkInv, built, converters = buildConverterList
  PROVE  Tuple(v22, v35) \in Known
<1>1. stack = <<>> /\ todo = {}
  BY DEF WalkInv
<1>2. \A tuple \in Known : Continued(tuple, converters, Known)
  BY <1>1 DEF WalkInv, PairsInv, Underway
<1>3. \A version \in ToVersions : Started(version, converters, Known)
  BY <1>1 DEF WalkInv, VersionsInv, Starting
<1>4. /\ Len(converters) = 10
      /\ converters[9] = Typed(<<2, 2, 0>>, <<3, 2, 0>>)
      /\ converters[6] = TypedNoError(<<3, 2, 0>>, <<3, 3, 0>>)
      /\ converters[4] = TypedNoError(<<3, 3, 0>>, <<3, 4, 0>>)
      /\ converters[2] = TypedNoError(<<3, 4, 0>>, <<3, 5, 0>>)
  BY DEF buildConverterList
<1>5. /\ converters[9].source = v22 /\ converters[9].target = <<3, 2, 0>>
      /\ converters[6].source = <<3, 2, 0>> /\ converters[6].target = <<3, 3, 0>>
      /\ converters[4].source = <<3, 3, 0>> /\ converters[4].target = <<3, 4, 0>>
      /\ converters[2].source = <<3, 4, 0>> /\ converters[2].target = v35
  BY <1>4 DEF Typed, TypedNoError, v22, v35
<1>6. /\ 9 \in From(converters, v22) /\ 6 \in From(converters, <<3, 2, 0>>)
      /\ 4 \in From(converters, <<3, 3, 0>>) /\ 2 \in From(converters, <<3, 4, 0>>)
  BY <1>4, <1>5 DEF From
<1>7. v22 \in ToVersions
  <2>1. converters[9] \in ToSet(converters)
    BY <1>4 DEF ToSet, buildConverterList
  <2> QED
    BY <1>5, <2>1 DEF ToVersions
<1>8. Tuple(v22, <<3, 2, 0>>) \in Known
  BY <1>3, <1>5, <1>6, <1>7 DEF Started
<1>9. /\ IsUp(converters[6]) /\ IsUp(converters[4]) /\ IsUp(converters[2])
      /\ IsUp(Tuple(v22, <<3, 2, 0>>)) /\ IsUp(Tuple(v22, <<3, 3, 0>>))
         /\ IsUp(Tuple(v22, <<3, 4, 0>>))
  BY <1>5 DEF IsUp, Precedes, Tuple, v22, v35
<1>10. ASSUME NEW v, NEW i \in From(converters, v), Tuple(v22, v) \in Known,
              IsUp(converters[i]), IsUp(Tuple(v22, v))
       PROVE  Tuple(v22, converters[i].target) \in Known
  <2>1. PICK tuple \in Known : tuple = Tuple(v22, v)
    BY <1>10
  <2>2. tuple.source = v22 /\ tuple.target = v
    BY <2>1 DEF Tuple
  <2>3. IsUp(converters[i]) = IsUp(tuple)
    BY <1>10, <2>1 DEF IsUp
  <2> QED
    BY <1>2, <1>10, <2>2, <2>3 DEF Continued
<1>11. Tuple(v22, <<3, 3, 0>>) \in Known
  <2>1. Tuple(v22, converters[6].target) \in Known
    BY ONLY <1>6, <1>8, <1>9, <1>10
  <2> QED
    BY ONLY <1>5, <2>1
<1>12. Tuple(v22, <<3, 4, 0>>) \in Known
  <2>1. Tuple(v22, converters[4].target) \in Known
    BY ONLY <1>6, <1>9, <1>10, <1>11
  <2> QED
    BY ONLY <1>5, <2>1
<1>13. Tuple(v22, converters[2].target) \in Known
  BY ONLY <1>6, <1>9, <1>10, <1>12
<1> QED
  BY ONLY <1>5, <1>13

\* The versions of the repository's own list.
OwnMinors == {<<3, 5>>, <<3, 4>>, <<3, 3>>, <<3, 2>>, <<3, 1>>, <<3, 0>>, <<2, 2>>}

LEMMA OwnVersions ==
  ASSUME converters = buildConverterList, NEW v \in ToVersions
  PROVE  <<v[1], v[2]>> \in OwnMinors
<1>1. PICK conv \in ToSet(buildConverterList) : v = conv.source \/ v = conv.target
  BY DEF ToVersions
<1>2. PICK i \in 1..10 : conv = buildConverterList[i]
  BY <1>1 DEF ToSet, buildConverterList
<1>3. i \in {1, 2, 3, 4, 5, 6, 7, 8, 9, 10}
  OBVIOUS
<1>4. /\ conv.source \in {<<3, 5, 0>>, <<3, 4, 0>>, <<3, 3, 0>>, <<3, 2, 0>>, <<3, 0, 0>>, <<2,
         2, 0>>}
      /\ conv.target \in {<<3, 5, 0>>, <<3, 4, 0>>, <<3, 3, 0>>, <<3, 2, 0>>, <<3, 1, 0>>, <<2,
         2, 0>>}
  BY <1>2, <1>3 DEF buildConverterList, Typed, TypedNoError
<1> QED
  BY <1>1, <1>4 DEF OwnMinors

\* Versions that are not of the list are not supported.
LEMMA NotSupported ==
  ASSUME converters = buildConverterList, supportedVersions \in Seq(Version),
         ToSet(supportedVersions) = ToVersions, NEW a, NEW b, <<a, b>> \notin OwnMinors
  PROVE  /\ ~Contains(GetSupportedMinorVersions, <<a, b>>)
         /\ ~Contains(supportedVersions, <<a, b, 0>>)
<1>1. ASSUME NEW i \in 1..Len(supportedVersions)
      PROVE  <<supportedVersions[i][1], supportedVersions[i][2]>> \in OwnMinors
  <2>1. PICK w : w = supportedVersions[i]
    OBVIOUS
  <2>2. w \in ToVersions
    BY <2>1 DEF ToSet
  <2>3. <<w[1], w[2]>> \in OwnMinors
    BY <2>2, OwnVersions
  <2> QED
    BY <2>1, <2>3
<1>2. ~Contains(GetSupportedMinorVersions, <<a, b>>)
  <2>1. PICK n \in Nat : n = Len(supportedVersions)
    OBVIOUS
  <2>2. PICK minors : minors = [i \in 1..n |-> <<supportedVersions[i][1],
          supportedVersions[i][2]>>]
    OBVIOUS
  <2>3. minors = GetSupportedMinorVersions
    BY <2>1, <2>2 DEF GetSupportedMinorVersions
  <2>4. minors \in [1..n -> OwnMinors]
    BY ONLY <1>1, <2>1, <2>2
  <2>5. Len(minors) = n /\ \A i \in 1..n : minors[i] \in OwnMinors
    BY ONLY <2>4, n \in Nat
  <2> QED
    BY <2>3, <2>5 DEF Contains
<1>3. ~Contains(supportedVersions, <<a, b, 0>>)
  <2>1. ASSUME NEW i \in 1..Len(supportedVersions), supportedVersions[i] = <<a, b, 0>> PROVE FALSE
    <3>1. supportedVersions[i][1] = a /\ supportedVersions[i][2] = b
      BY <2>1
    <3> QED
      BY <1>1, <3>1
  <2> QED
    BY <2>1 DEF Contains
<1> QED
  BY <1>2, <1>3

\* What neither parser knows is no version of the list, unless it is mistyped.
LEMMA UnknownIsUnsupported ==
  ASSUME converters = buildConverterList, supportedVersions \in Seq(Version),
         ToSet(supportedVersions) = ToVersions, raw \in RawConfig,
         IgnParseWrapper(raw) = "unknown version", raw.version[3] = 0, ~Mistyped(raw)
  PROVE  /\ ~Contains(GetSupportedMinorVersions, <<raw.version[1], raw.version[2]>>)
         /\ GetSupportedMinorVersion(raw.version) = errIgnitionConverterUnknownVersion
<1>1. ParseV3(raw) = "ErrUnknownVersion" /\ ParseV2(raw) = "ErrUnknownVersion"
  BY DEF IgnParseWrapper, ParseV3
<1>2. /\ raw.version # NoVersion /\ raw.version # Unreadable
      /\ raw.version \notin {<<3, minor, 0>> : minor \in 0..5}
  BY <1>1 DEF ParseV3
<1>3. raw.version # v22
  <2>1. SUFFICES ASSUME raw.version = v22 PROVE FALSE
    OBVIOUS
  <2>2. v22 \in raw.reads /\ ~Precedes(v22, v22)
    <3>1. v22 \in raw.reads
      BY <2>1 DEF Mistyped
    <3>2. ~Precedes(v22, v22)
      BY ONLY DEF Precedes, v22
    <3> QED
      BY <3>1, <3>2
  <2>3. ParseV2(raw) = IF raw.valid THEN "ok" ELSE "ErrInvalid"
    BY <2>1, <2>2 DEF ParseV2, ParseOwn
  <2> QED
    BY <1>1, <2>3
<1>4. PICK v \in Version : v = raw.version
  BY <1>2 DEF RawConfig
<1>5. PICK a \in Nat, b \in Nat : v[1] = a /\ v[2] = b /\ v[3] = 0 /\ v = <<a, b, 0>>
  BY ONLY v \in Version, raw.version[3] = 0, <1>4 DEF Version
<1>6. <<a, b>> \notin OwnMinors
  <2>1. ~(a = 3 /\ b \in 0..5)
    <3>1. SUFFICES ASSUME a = 3, b \in 0..5 PROVE FALSE
      OBVIOUS
    <3>2. v = <<3, b, 0>>
      BY ONLY <1>5, <3>1
    <3> QED
      BY ONLY <1>2, <1>4, <3>1, <3>2
  <2>2. ~(a = 2 /\ b = 2)
    BY ONLY <1>4, <1>5, <1>3 DEF v22
  <2> QED
    BY ONLY <2>1, <2>2 DEF OwnMinors
<1>7. /\ ~Contains(GetSupportedMinorVersions, <<a, b>>)
      /\ ~Contains(supportedVersions, <<a, b, 0>>)
  BY <1>6, NotSupported
<1>8. raw.version[1] = a /\ raw.version[2] = b
  BY ONLY <1>4, <1>5
<1> QED
  BY ONLY <1>7, <1>8 DEF GetSupportedMinorVersion

-----------------------------------------------------------------------------
(* The invariant is kept.                                                  *)

\* Only the return of newIgnitionConverter touches the supported versions.
LEMMA ConvertersStay ==
  ASSUME [ConfigNext]_allVars
  PROVE  ReturnInstance \/ UNCHANGED <<converters, supportedVersions, built>>
BY DEF ConfigNext, ParseAndConvertConfig, Next, Registration, VisitVersion, RegisterChain,
   SkipConverter,
       ReturnFromCall, Convert, ConvertsToItself, ConvertUnsupported, ConvertStarts, ConvertStep,
       ConvertReturns, ConvertFails, ConfigIsParsed, removeIgnDuplicateFilesUnitsUsers,
       ConfigConversionStarts, ConfigIsTranslated, ConfigIsConverted, ConfigIsRefused,
       ConfigIsReturned, vars, allVars

LEMMA SupportedInit ==
  ASSUME ConfigInit
  PROVE  SupportedInv
<1>1. converters \in Seq(Converter) /\ supportedVersions = Registered(converters) /\ ~built
  BY ConvertersAssumption DEF ConfigInit, Init
<1> QED
  BY <1>1, RegisteredSupported DEF SupportedInv

LEMMA SupportedNext ==
  ASSUME SupportedInv, [ConfigNext]_allVars
  PROVE  SupportedInv'
<1>1. CASE ReturnInstance
  <2>1. /\ ~built /\ built' /\ converters' = converters
        /\ supportedVersions' = Sort(supportedVersions)
    BY <1>1 DEF ReturnInstance
  <2>2. Supported(supportedVersions)
    BY <2>1 DEF SupportedInv
  <2>3. ToSet(supportedVersions) = ToVersions
    BY <2>2 DEF Supported
  <2>4. /\ Sort(supportedVersions) \in Seq(Version)
        /\ ToSet(Sort(supportedVersions)) = ToSet(supportedVersions)
    BY <2>2, SortSupported
  <2>5. ToVersions' = ToVersions
    BY <2>1 DEF ToVersions
  <2>6. supportedVersions' \in Seq(Version) /\ ToSet(supportedVersions)' = ToVersions'
    BY <2>1, <2>3, <2>4, <2>5
  <2> QED
    BY <2>1, <2>6 DEF SupportedInv
<1>2. CASE UNCHANGED <<converters, supportedVersions, built>>
  <2>1. ToVersions' = ToVersions
    BY <1>2 DEF ToVersions
  <2> QED
    BY <1>2, <2>1 DEF SupportedInv, Supported
<1> QED
  BY <1>1, <1>2, ConvertersStay

\* The stages, action by action.
LEMMA StageInit ==
  ASSUME ConfigInit
  PROVE  StageInv /\ ResultInv
<1>1. NoConfig \in RawConfig
  BY DEF NoConfig, Config, RawConfig
<1> QED
  BY <1>1 DEF ConfigInit, StageInv, ResultInv

LEMMA IdleStage ==
  ASSUME StageInv, ResultInv, stage = "idle", UNCHANGED configVars
  PROVE  (StageInv /\ ResultInv)'
<1>1. stage' = "idle" /\ raw' = raw /\ config' = config /\ result' = result
  BY DEF configVars
<1>2. result = "none"
  BY DEF StageInv
<1> QED
  BY <1>1, <1>2 DEF StageInv, ResultInv

LEMMA ParsedStage ==
  ASSUME StageInv, ResultInv, Ready, NEW c \in RawConfigs, ConfigIsParsed(c)
  PROVE  (StageInv /\ ResultInv)'
<1>1. c \in RawConfig
  BY RawConfigsAssumption
<1>2. result = "none" /\ built' /\ converters' = buildConverterList /\ raw' = c
  BY DEF StageInv, Ready, ConfigIsParsed
<1>3. CASE IgnParseWrapper(c) = "v2"
  <2>1. stage' = "parsed" /\ config' = [c EXCEPT !.version = v22] /\ result' = "none"
    BY <1>2, <1>3 DEF ConfigIsParsed
  <2> QED
    BY <1>1, <1>2, <2>1 DEF StageInv, ResultInv
<1>4. CASE IgnParseWrapper(c) # "v2"
  <2>1. stage' = "done" /\ result' = IgnParseWrapper(c)
    BY <1>4 DEF ConfigIsParsed, Finish
  <2>2. IgnParseWrapper(c) \in {"v3", "invalid version", "v2", "unknown version",
                               "spec v2 failed", "spec v3 failed"}
    BY DEF IgnParseWrapper
  <2>3. IgnParseWrapper(raw)' = IgnParseWrapper(c)
    BY <1>2
  <2> QED
    BY <1>1, <1>2, <2>1, <2>2, <2>3 DEF StageInv, ResultInv
<1> QED
  BY <1>3, <1>4

LEMMA RemovedStage ==
  ASSUME StageInv, ResultInv, removeIgnDuplicateFilesUnitsUsers
  PROVE  (StageInv /\ ResultInv)'
<1>1. /\ stage = "parsed" /\ result = "none" /\ raw \in RawConfig
      /\ built' /\ converters' = buildConverterList /\ raw' = raw
      /\ config = [raw EXCEPT !.version = v22]
  BY DEF StageInv, removeIgnDuplicateFilesUnitsUsers, vars
<1>2. CASE CoreUsersOnly(config.users)
  <2>1. /\ stage' = "convert" /\ result' = "none"
        /\ config' = [config EXCEPT !.files = outFiles(@), !.units = outUnits(@), !.users
           = outUsers(@)]
    BY <1>1, <1>2 DEF removeIgnDuplicateFilesUnitsUsers
  <2>2. /\ config.version = v22 /\ config.expressible = raw.expressible
        /\ config.files = raw.files /\ config.units = raw.units /\ config.users = raw.users
        /\ config \in [version : {v22}, reads : SUBSET Version, valid : BOOLEAN, expressible : BOOLEAN,
                       files : Seq(File), units : Seq(Unit), users : Seq(User)]
    BY <1>1 DEF RawConfig
  <2>3. Cleaned(config', raw)
    BY <2>1, <2>2 DEF Cleaned
  <2>4. Cleaned(config, raw)'
    BY <1>1, <2>3 DEF Cleaned
  <2> QED
    BY <1>1, <2>1, <2>4 DEF StageInv, ResultInv
<1>3. CASE ~CoreUsersOnly(config.users)
  <2>1. stage' = "done" /\ result' = "unexpected user"
    BY <1>3 DEF removeIgnDuplicateFilesUnitsUsers, Finish
  <2> QED
    BY <1>1, <2>1 DEF StageInv, ResultInv
<1> QED
  BY <1>2, <1>3

\* No conversion starts that has no chain.
LEMMA StartsStage ==
  ASSUME WalkInv, StageInv, ResultInv, ConfigConversionStarts
  PROVE  (StageInv /\ ResultInv)'
<1>1. /\ stage = "convert" /\ result = "none" /\ raw \in RawConfig /\ Cleaned(config, raw)
      /\ built /\ converters = buildConverterList /\ raw' = raw /\ config' = config
  BY DEF StageInv, ConfigConversionStarts
<1>2. Tuple(config.version, v35) \in DOMAIN converterPaths
  BY <1>1, OwnListReaches DEF Cleaned, Known
<1>3. ConvertStarts(config.version, v35) /\ stage' = "converting" /\ result' = "none"
  BY <1>1, <1>2 DEF ConfigConversionStarts
<1>4. built' /\ converters' = buildConverterList
  BY <1>1, <1>3 DEF ConvertStarts
<1>5. Cleaned(config, raw)'
  BY <1>1 DEF Cleaned
<1> QED
  BY <1>1, <1>3, <1>4, <1>5 DEF StageInv, ResultInv

LEMMA SameStage ==
  ASSUME StageInv, ResultInv, UNCHANGED configVars, UNCHANGED <<built, converters>>
  PROVE  (StageInv /\ ResultInv)'
<1>1. /\ stage' = stage /\ raw' = raw /\ config' = config /\ result' = result
      /\ built' = built /\ converters' = converters
  BY DEF configVars
<1>2. StageInv'
  <2>1. Cleaned(config, raw) => Cleaned(config, raw)'
    BY <1>1 DEF Cleaned
  <2> QED
    BY <1>1, <2>1 DEF StageInv
<1>3. ResultInv'
  <2>1. IgnParseWrapper(raw)' = IgnParseWrapper(raw)
    BY <1>1
  <2>2. Excused(raw) => Excused(raw)'
    BY <1>1 DEF Excused
  <2> QED
    BY <1>1, <2>1, <2>2 DEF ResultInv
<1> QED
  BY <1>2, <1>3

\* A refusal has its reason in the raw config.
LEMMA RefusedStage ==
  ASSUME ConverterInv, StageInv, ResultInv, NEW error, ConfigIsRefused(error)
  PROVE  (StageInv /\ ResultInv)'
<1>1. /\ stage = "converting" /\ ConvertFails(error) /\ raw \in RawConfig /\ Cleaned(config, raw)
      /\ built /\ converters = buildConverterList /\ raw' = raw
      /\ stage' = "done" /\ result' = error
  BY DEF StageInv, ConfigIsRefused, Finish
<1>2. error = "untranslatable"
  BY <1>1, FailsInv
<1>3. ~Translatable(config)
  BY <1>2 DEF ConfigIsRefused
<1>4. Excused(raw)
  BY <1>1, <1>3, CleanedExcused
<1>5. Excused(raw)'
  BY <1>1, <1>4 DEF Excused
<1>6. built' /\ converters' = buildConverterList
  BY <1>1 DEF ConvertFails
<1> QED
  BY <1>1, <1>2, <1>5, <1>6 DEF StageInv, ResultInv

LEMMA ConvertedStage ==
  ASSUME StageInv, ResultInv, ConfigIsConverted
  PROVE  (StageInv /\ ResultInv)'
<1>1. /\ stage = "converting" /\ ConvertReturns /\ raw \in RawConfig
      /\ built /\ converters = buildConverterList /\ raw' = raw
      /\ stage' = "done" /\ result' \in {"v3", "panic"}
  BY DEF StageInv, ConfigIsConverted, Finish
<1>2. built' /\ converters' = buildConverterList
  BY <1>1 DEF ConvertReturns
<1> QED
  BY <1>1, <1>2 DEF StageInv, ResultInv

LEMMA ReturnedStage ==
  ASSUME StageInv, ResultInv, ConfigIsReturned
  PROVE  (StageInv /\ ResultInv)'
<1>1. stage' = "idle" /\ raw' = NoConfig /\ result' = "none"
  BY DEF ConfigIsReturned
<1>2. NoConfig \in RawConfig
  BY DEF NoConfig, Config, RawConfig
<1> QED
  BY <1>1, <1>2 DEF StageInv, ResultInv

LEMMA StageNext ==
  ASSUME ConfigInv, WalkInv, StageInv, ResultInv, [ConfigNext]_allVars
  PROVE  (StageInv /\ ResultInv)'
<1>1. CASE stage = "idle" /\ Next /\ UNCHANGED configVars
  BY <1>1, IdleStage
<1>2. ASSUME Ready, NEW c \in RawConfigs, ConfigIsParsed(c) PROVE (StageInv /\ ResultInv)'
  BY <1>2, ParsedStage
<1>3. CASE removeIgnDuplicateFilesUnitsUsers
  BY <1>3, RemovedStage
<1>4. CASE ConfigConversionStarts
  BY <1>4, StartsStage
<1>5. CASE ConfigIsTranslated
  <2>1. UNCHANGED configVars /\ UNCHANGED <<built, converters>>
    BY <1>5 DEF ConfigIsTranslated, ConvertStep
  <2> QED
    BY <2>1, SameStage
<1>6. CASE ConfigIsConverted
  BY <1>6, ConvertedStage
<1>7. ASSUME NEW error, ConfigIsRefused(error) PROVE (StageInv /\ ResultInv)'
  <2>1. ConverterInv
    BY DEF ConfigInv
  <2> QED
    BY <1>7, <2>1, RefusedStage
<1>8. CASE ConfigIsReturned
  BY <1>8, ReturnedStage
<1>9. CASE UNCHANGED allVars
  <2>1. UNCHANGED configVars /\ UNCHANGED <<built, converters>>
    BY <1>9 DEF allVars, vars
  <2> QED
    BY <2>1, SameStage
<1> QED
  BY <1>1, <1>2, <1>3, <1>4, <1>5, <1>6, <1>7, <1>8, <1>9 DEF ConfigNext, ParseAndConvertConfig

PackageInv == SupportedInv /\ StageInv /\ ResultInv

LEMMA PackageInvariant == ConfigSpec => []PackageInv
<1>1. ConfigInit => PackageInv
  BY SupportedInit, StageInit DEF PackageInv
<1>2. ConfigInv /\ WalkInv /\ PackageInv /\ [ConfigNext]_allVars => PackageInv'
  BY SupportedNext, StageNext DEF PackageInv
<1>3. ConfigInit => WalkInv
  BY WalkInit DEF ConfigInit
<1> QED
  BY <1>1, <1>2, <1>3, ConfigInvariant, ConfigWalk, PTL DEF ConfigSpec

-----------------------------------------------------------------------------
(* Theorems.                                                               *)

\* For every list of converters: what is walked, registered and called is made of
\* the converters of the list, and the supported versions, as registered and as
\* sorted, are exactly their sources and targets.
THEOREM SupportsWhatItConverts == ConfigSpec => []TypeOK
<1>1. SupportedInv => ToSet(supportedVersions) = ToVersions
  BY DEF SupportedInv, Supported
<1>2. PackageInv /\ MadeOfConverters => TypeOK
  BY <1>1 DEF PackageInv, TypeOK
<1> QED
  BY <1>2, PackageInvariant, WalksTheGivenList, PTL

\* For all raw configs: when removeIgnDuplicateFilesUnitsUsers is through, of the
\* entries of one name the newest is left, an older unit has lost only dropins that
\* a newer unit of its name has too, and of a dropin it repeats itself all but the
\* first, and no SSH key is missing or comes twice.
THEOREM RemovalKeepsTheNewest == ConfigSpec => []NewestWins
<1>1. PackageInv => NewestWins
  <2>1. SUFFICES ASSUME PackageInv, stage \in {"convert", "converting"}
                 PROVE  NewestFilesAndUnits /\ AllKeysOnce
    BY DEF NewestWins
  <2>2. raw \in RawConfig /\ Cleaned(config, raw)
    BY <2>1 DEF PackageInv, StageInv
  <2> QED
    BY <2>2, CleanedNewest
<1> QED
  BY <1>1, PackageInvariant, PTL

\* For all raw configs and every order of the registration: ParseAndConvertConfig
\* never panics and never finds a config unsupported, a refused translation has
\* its reason in the raw config, and a version refused as unknown is none of the
\* supported ones, unless it is a mistyped 2.2.
THEOREM ConfigsAreRefusedForTheirOwnSake == ConfigSpec => []RefusedForItsOwnSake
<1>1. ASSUME ConfigInv, PackageInv PROVE RefusedForItsOwnSake
  <2>1. NeverPanics /\ result # "unsupported"
    BY <1>1 DEF ConfigInv, PackageInv, ResultInv
  <2>2. ASSUME result = "unknown version", raw.version[3] = 0, ~Mistyped(raw)
        PROVE  /\ ~Contains(GetSupportedMinorVersions, <<raw.version[1], raw.version[2]>>)
               /\ GetSupportedMinorVersion(raw.version) = errIgnitionConverterUnknownVersion
    <3>1. stage = "done" /\ IgnParseWrapper(raw) = "unknown version"
      BY ONLY <1>1, <2>2 DEF PackageInv, ResultInv
    <3>2. built /\ converters = buildConverterList /\ raw \in RawConfig
      BY ONLY <1>1, <3>1 DEF PackageInv, StageInv
    <3>3. supportedVersions \in Seq(Version) /\ ToSet(supportedVersions) = ToVersions
      BY ONLY <1>1, <3>2 DEF PackageInv, SupportedInv
    <3> QED
      BY <2>2, <3>1, <3>2, <3>3, UnknownIsUnsupported
  <2>3. result = "untranslatable" => Excused(raw)
    BY <1>1 DEF PackageInv, ResultInv
  <2> QED
    BY <2>1, <2>2, <2>3 DEF RefusedForItsOwnSake, Excused
<1> QED
  BY <1>1, ConfigInvariant, PackageInvariant, PTL

=============================================================================
