---------------------------- MODULE TemplateProofs ----------------------------
(***************************************************************************)
(* The rendering of templates, for every tree of well formed directories,  *)
(* every config and every template directory the loops run on.             *)
(***************************************************************************)
EXTENDS TemplateLoops, FiniteSetTheorems, SequenceTheorems, TLAPS

\* The map m is what filterTemplates makes of the template files past.
Reflects(m, past) ==
  /\ \A n \in DOMAIN m : \E i \in 1..Len(past) : HasLastWord(past, i) /\ past[i].name = n
  /\ \A i \in 1..Len(past) : HasLastWord(past, i) =>
       past[i].name \in DOMAIN m /\ m[past[i].name] = past[i].text

Files(k) == ToSet(AllOf(k))

\* The files of a kind the walk has not come to, in its order.
UnderWay(k)     == IF k = kind THEN walk ELSE <<>>
Ahead(level, k) == IF <<level, k>> \in ToSet(todo) THEN FilesIn(level, k) ELSE <<>>
Left(k)         == UnderWay(k) \o (Ahead("common", k) \o Ahead("role", k))

\* The walk has read the files of a kind up to those that are left.
KindInv(k) ==
  \E past \in Seq(Files(k)) :
    /\ AllOf(k) = past \o Left(k)
    /\ Reflects(found[k], past)
    /\ \A i \in 1..Len(past) : past[i].kind # "broken"

\* No directory comes twice, and the common ones come first.
TodoInv ==
  /\ todo \in Seq(Levels \X Kinds)
  /\ \A i \in 1..Len(todo) : Exists(tree[todo[i][1]])
  /\ \A i, j \in 1..Len(todo) : i < j =>
       todo[i] # todo[j] /\ (todo[j][1] = "common" => todo[i][1] = "common")

DirsInv ==
  \A level \in Levels :
    /\ ~IsNoDir(tree[level])
    /\ Exists(tree[level]) =>
         \A k \in Kinds : <<level, k>> \in ToSet(todo) \/ ~IsNoDir(tree[level].sub[k])

WalkInv ==
  /\ kind \in Kinds /\ walk \in Seq(Files(kind))
  /\ TodoInv /\ DirsInv
  /\ \A k \in Kinds : KindInv(k)

\* The tree was read whole, and the maps hold what it says.
ReadWhole ==
  /\ \A level \in Levels :
       /\ ~IsNoDir(tree[level])
       /\ Exists(tree[level]) => \A k \in Kinds : ~IsNoDir(tree[level].sub[k])
  /\ \A k \in Kinds : \A t \in Files(k) : t.kind # "broken"
  /\ \A k \in Kinds : Reflects(found[k], AllOf(k))

\* A text of the maps is valid, or its turn is yet to come.
PendingInv ==
  /\ pending \in Seq(ToSet(pending))
  /\ \A k \in {"files", "units"} : \A n \in DOMAIN found[k] :
       found[k][n].valid \/ <<k, found[k][n]>> \in ToSet(pending)

TreeInv  == \A level \in Levels : WellFormed(tree[level])
FoundInv == found = [k \in Kinds |-> found[k]] /\ \A k \in Kinds : IsFiniteSet(DOMAIN found[k])

RenderInv ==
  /\ TreeInv /\ FoundInv
  /\ result = Start => /\ todo = <<>> /\ kind \in Kinds /\ walk = <<>>
                       /\ \A k \in Kinds : found[k] = <<>>
  /\ result = Walking => WalkInv
  /\ result = Transpiling => ReadWhole /\ PendingInv
  /\ AllOrNothing

-----------------------------------------------------------------------------
(* One more template file.                                                 *)

\* Who has the last word, with t as the last file.
LEMMA OneMoreFile ==
  ASSUME NEW S, NEW past \in Seq(S), NEW t \in S
  PROVE  /\ Append(past, t) \in Seq(S) /\ Len(Append(past, t)) = Len(past) + 1
         /\ Len(past) \in Nat
         /\ Append(past, t)[Len(past) + 1] = t
         /\ \A i \in 1..Len(past) : Append(past, t)[i] = past[i]
         /\ HasLastWord(Append(past, t), Len(past) + 1) <=> RendersText(t)
         /\ \A i \in 1..Len(past) :
              HasLastWord(Append(past, t), i)
                <=> HasLastWord(past, i) /\ (t.name = past[i].name => ~Speaks(t))
<1> DEFINE more == Append(past, t)
<1>1. /\ more \in Seq(S) /\ Len(more) = Len(past) + 1 /\ Len(past) \in Nat
      /\ more[Len(past) + 1] = t
      /\ \A i \in 1..Len(past) : more[i] = past[i]
  OBVIOUS
<1> HIDE DEF more
<1>2. HasLastWord(more, Len(past) + 1) <=> RendersText(t)
  BY <1>1 DEF HasLastWord
<1>3. ASSUME NEW i \in 1..Len(past)
      PROVE  HasLastWord(more, i)
               <=> HasLastWord(past, i) /\ (t.name = past[i].name => ~Speaks(t))
  <2>1. (i + 1)..Len(more) = ((i + 1)..Len(past)) \cup {Len(past) + 1}
    BY <1>1
  <2>2. \A later \in (i + 1)..Len(past) : more[later] = past[later]
    BY <1>1
  <2>3. more[i] = past[i]
    BY <1>1
  <2> QED
    BY <1>1, <2>1, <2>2, <2>3 DEF HasLastWord
<1> QED
  BY <1>1, <1>2, <1>3 DEF more

LEMMA TextReflected ==
  ASSUME NEW S, NEW past \in Seq(S), NEW t \in S, NEW m, Reflects(m, past), RendersText(t),
         NEW after, after = [n \in DOMAIN m \cup {t.name} |-> IF n = t.name THEN t.text ELSE m[n]]
  PROVE  Reflects(after, Append(past, t))
<1> DEFINE more == Append(past, t)
<1>1. /\ Len(more) = Len(past) + 1 /\ Len(past) \in Nat /\ more[Len(past) + 1] = t
      /\ \A i \in 1..Len(past) : more[i] = past[i]
      /\ HasLastWord(more, Len(past) + 1)
      /\ \A i \in 1..Len(past) :
           HasLastWord(more, i) <=> HasLastWord(past, i) /\ t.name # past[i].name
  BY OneMoreFile DEF Speaks
<1> HIDE DEF more
<1>2. ASSUME NEW n \in DOMAIN after
      PROVE  \E i \in 1..Len(more) : HasLastWord(more, i) /\ more[i].name = n
  <2>1. CASE n = t.name
    BY <2>1, <1>1
  <2>2. CASE n # t.name
    <3>1. PICK i \in 1..Len(past) : HasLastWord(past, i) /\ past[i].name = n
      BY <2>2 DEF Reflects
    <3> QED
      BY <2>2, <3>1, <1>1
  <2> QED
    BY <2>1, <2>2
<1>3. ASSUME NEW i \in 1..Len(more), HasLastWord(more, i)
      PROVE  more[i].name \in DOMAIN after /\ after[more[i].name] = more[i].text
  <2>1. CASE i = Len(past) + 1
    BY <2>1, <1>1
  <2>2. CASE i \in 1..Len(past)
    <3>1. HasLastWord(past, i) /\ t.name # past[i].name /\ more[i] = past[i]
      BY <2>2, <1>1, <1>3
    <3>2. past[i].name \in DOMAIN m /\ m[past[i].name] = past[i].text
      BY <2>2, <3>1 DEF Reflects
    <3> QED
      BY <3>1, <3>2
  <2> QED
    BY <2>1, <2>2, <1>1
<1> QED
  BY <1>2, <1>3 DEF Reflects, more

LEMMA EmptyReflected ==
  ASSUME NEW S, NEW past \in Seq(S), NEW t \in S, NEW m, Reflects(m, past), t.kind = "empty",
         NEW after, after = Restrict(m, DOMAIN m \ {t.name})
  PROVE  Reflects(after, Append(past, t))
<1> DEFINE more == Append(past, t)
<1>1. ~RendersText(t) /\ Speaks(t)
  BY DEF RendersText, Speaks
<1>2. /\ Len(more) = Len(past) + 1 /\ Len(past) \in Nat
      /\ \A i \in 1..Len(past) : more[i] = past[i]
      /\ ~HasLastWord(more, Len(past) + 1)
      /\ \A i \in 1..Len(past) :
           HasLastWord(more, i) <=> HasLastWord(past, i) /\ t.name # past[i].name
  BY <1>1, OneMoreFile
<1> HIDE DEF more
<1>3. /\ DOMAIN after = DOMAIN m \ {t.name}
      /\ \A n \in DOMAIN after : after[n] = m[n]
  BY DEF Restrict
<1>4. ASSUME NEW n \in DOMAIN after
      PROVE  \E i \in 1..Len(more) : HasLastWord(more, i) /\ more[i].name = n
  <2>1. PICK i \in 1..Len(past) : HasLastWord(past, i) /\ past[i].name = n
    BY <1>3 DEF Reflects
  <2> QED
    BY <2>1, <1>2, <1>3
<1>5. ASSUME NEW i \in 1..Len(more), HasLastWord(more, i)
      PROVE  more[i].name \in DOMAIN after /\ after[more[i].name] = more[i].text
  <2>1. i \in 1..Len(past) /\ HasLastWord(past, i) /\ t.name # past[i].name /\ more[i] = past[i]
    BY <1>2, <1>5
  <2>2. past[i].name \in DOMAIN m /\ m[past[i].name] = past[i].text
    BY <2>1 DEF Reflects
  <2> QED
    BY <2>1, <2>2, <1>3
<1> QED
  BY <1>4, <1>5 DEF Reflects, more

LEMMA SilentReflected ==
  ASSUME NEW S, NEW past \in Seq(S), NEW t \in S, NEW m, Reflects(m, past), ~Speaks(t)
  PROVE  Reflects(m, Append(past, t))
<1> DEFINE more == Append(past, t)
<1>1. /\ Len(more) = Len(past) + 1 /\ Len(past) \in Nat
      /\ \A i \in 1..Len(past) : more[i] = past[i]
      /\ ~HasLastWord(more, Len(past) + 1)
      /\ \A i \in 1..Len(past) : HasLastWord(more, i) <=> HasLastWord(past, i)
  BY OneMoreFile DEF Speaks
<1> HIDE DEF more
<1>2. ASSUME NEW n \in DOMAIN m
      PROVE  \E i \in 1..Len(more) : HasLastWord(more, i) /\ more[i].name = n
  <2>1. PICK i \in 1..Len(past) : HasLastWord(past, i) /\ past[i].name = n
    BY DEF Reflects
  <2> QED
    BY <2>1, <1>1
<1>3. ASSUME NEW i \in 1..Len(more), HasLastWord(more, i)
      PROVE  more[i].name \in DOMAIN m /\ m[more[i].name] = more[i].text
  <2>1. i \in 1..Len(past) /\ HasLastWord(past, i) /\ more[i] = past[i]
    BY <1>1, <1>3
  <2> QED
    BY <2>1 DEF Reflects
<1> QED
  BY <1>2, <1>3 DEF Reflects, more

-----------------------------------------------------------------------------
(* The files of a tree.                                                    *)

LEMMA ConcatElements ==
  ASSUME NEW a, a \in Seq(ToSet(a)), NEW b, b \in Seq(ToSet(b))
  PROVE  /\ ToSet(a \o b) = ToSet(a) \cup ToSet(b)
         /\ a \o b \in Seq(ToSet(a \o b))
         /\ a \in Seq(ToSet(a \o b)) /\ b \in Seq(ToSet(a \o b))
<1> DEFINE S == ToSet(a) \cup ToSet(b)
<1>1. a \in Seq(S) /\ b \in Seq(S)
  <2>1. ToSet(a) \subseteq S /\ ToSet(b) \subseteq S
    OBVIOUS
  <2> QED
    BY <2>1
<1>2. /\ a \o b \in Seq(S) /\ Len(a \o b) = Len(a) + Len(b)
      /\ \A i \in 1..Len(a) : (a \o b)[i] = a[i]
      /\ \A i \in 1..Len(b) : (a \o b)[Len(a) + i] = b[i]
      /\ Len(a) \in Nat /\ Len(b) \in Nat
  BY <1>1
<1>3. ASSUME NEW x \in S PROVE x \in ToSet(a \o b)
  <2>1. CASE x \in ToSet(a)
    <3>1. PICK i \in 1..Len(a) : x = a[i]
      BY <2>1, <1>1 DEF ToSet
    <3>2. i \in DOMAIN (a \o b) /\ (a \o b)[i] = x
      BY <3>1, <1>2
    <3> QED
      BY <3>2 DEF ToSet
  <2>2. CASE x \in ToSet(b)
    <3>1. PICK i \in 1..Len(b) : x = b[i]
      BY <2>2, <1>1 DEF ToSet
    <3>2. Len(a) + i \in DOMAIN (a \o b) /\ (a \o b)[Len(a) + i] = x
      BY <3>1, <1>2
    <3> QED
      BY <3>2 DEF ToSet
  <2> QED
    BY <2>1, <2>2
<1>4. ToSet(a \o b) \subseteq S
  BY <1>2 DEF ToSet
<1>5. ToSet(a \o b) = S
  BY <1>3, <1>4
<1> QED
  BY <1>1, <1>2, <1>5

LEMMA ElementsOfSeq ==
  ASSUME NEW S, NEW s \in Seq(S)
  PROVE  s \in Seq(ToSet(s)) /\ ToSet(s) \subseteq S
BY DEF ToSet

\* FilesIn and AllOf are sequences of template files.
LEMMA FilesOfTree ==
  ASSUME TreeInv, NEW k \in Kinds
  PROVE  /\ AllOf(k) \in Seq(Files(k))
         /\ \A level \in Levels : FilesIn(level, k) \in Seq(Files(k))
         /\ \A t \in Files(k) : t.name \in Nat /\ t.kind \in {"empty", "text", "broken"}
<1>1. ASSUME NEW level \in Levels
      PROVE  /\ FilesIn(level, k) \in Seq(ToSet(FilesIn(level, k)))
             /\ \A t \in ToSet(FilesIn(level, k)) :
                  t.name \in Nat /\ t.kind \in {"empty", "text", "broken"}
  <2>1. CASE FilesIn(level, k) = <<>>
    BY <2>1 DEF ToSet
  <2>2. CASE FilesIn(level, k) # <<>>
    <3> DEFINE order == tree[level].sub[k].walk
    <3>1. /\ tree[level].is = "dir" /\ tree[level].sub[k].is = "dir"
          /\ FilesIn(level, k) = order
      BY <2>2 DEF FilesIn, Exists
    <3>2. WellFormed(tree[level])
      BY DEF TreeInv
    <3>3. /\ order \in Seq({order[i] : i \in DOMAIN order})
          /\ \A i \in DOMAIN order :
               order[i].name \in Nat /\ order[i].kind \in {"empty", "text", "broken"}
      BY <3>1, <3>2 DEF WellFormed
    <3> HIDE DEF order
    <3>4. order \in Seq(ToSet(order))
      BY <3>3 DEF ToSet
    <3>5. \A t \in ToSet(order) : t.name \in Nat /\ t.kind \in {"empty", "text", "broken"}
      BY <3>3 DEF ToSet
    <3> QED
      BY <3>1, <3>4, <3>5
  <2> QED
    BY <2>1, <2>2
<1>2. /\ ToSet(AllOf(k)) = ToSet(FilesIn("common", k)) \cup ToSet(FilesIn("role", k))
      /\ AllOf(k) \in Seq(ToSet(AllOf(k)))
      /\ FilesIn("common", k) \in Seq(ToSet(AllOf(k)))
      /\ FilesIn("role", k) \in Seq(ToSet(AllOf(k)))
  BY <1>1, ConcatElements DEF AllOf, Levels
<1> QED
  BY <1>1, <1>2 DEF Files, Levels

\* The head of what is left moves over to what is past.
LEMMA MovesOver ==
  ASSUME NEW S, NEW a \in Seq(S), NEW b \in Seq(S), b # <<>>
  PROVE  a \o b = Append(a, b[1]) \o Tail(b) /\ Tail(b) \in Seq(S) /\ b[1] \in S
<1> DEFINE x == a \o b
           y == Append(a, b[1]) \o Tail(b)
<1>1. b[1] \in S /\ Tail(b) \in Seq(S) /\ Len(Tail(b)) = Len(b) - 1 /\ Len(b) \in Nat
      /\ Len(a) \in Nat /\ \A i \in 1..(Len(b) - 1) : Tail(b)[i] = b[i + 1]
  OBVIOUS
<1>2. Append(a, b[1]) \in Seq(S) /\ Len(Append(a, b[1])) = Len(a) + 1
      /\ Append(a, b[1])[Len(a) + 1] = b[1] /\ \A i \in 1..Len(a) : Append(a, b[1])[i] = a[i]
  BY <1>1
<1>3. x \in Seq(S) /\ y \in Seq(S) /\ Len(x) = Len(a) + Len(b) /\ Len(y) = Len(x)
  BY <1>1, <1>2
<1>4. ASSUME NEW i \in 1..Len(x) PROVE x[i] = y[i]
  <2>1. CASE i \in 1..Len(a)
    BY <2>1, <1>1, <1>2, <1>3
  <2>2. CASE i = Len(a) + 1
    BY <2>2, <1>1, <1>2, <1>3
  <2>3. CASE i > Len(a) + 1
    <3>1. y[i] = Tail(b)[i - (Len(a) + 1)]
      BY <2>3, <1>1, <1>2, <1>3
    <3>2. x[i] = b[i - Len(a)]
      BY <2>3, <1>1, <1>2, <1>3
    <3>3. i - (Len(a) + 1) \in 1..(Len(b) - 1)
      BY <2>3, <1>1, <1>3
    <3> QED
      BY <3>1, <3>2, <3>3, <1>1
  <2> QED
    BY <2>1, <2>2, <2>3, <1>1, <1>3
<1> HIDE DEF x, y
<1>5. x = y
  BY <1>3, <1>4, SeqEqual
<1> QED
  BY <1>1, <1>5 DEF x, y

LEMMA NothingAppended ==
  ASSUME NEW S, NEW s \in Seq(S)
  PROVE  <<>> \o s = s /\ s \o <<>> = s
OBVIOUS

LEMMA NothingBetween ==
  ASSUME NEW S, NEW a \in Seq(S), NEW b \in Seq(S)
  PROVE  <<>> \o (a \o b) = a \o (<<>> \o b)
<1>1. a \o b \in Seq(S)
  OBVIOUS
<1> QED
  BY <1>1, NothingAppended

LEMMA ConcatParts ==
  ASSUME NEW S, NEW a \in Seq(S), NEW b \in Seq(S), NEW i \in 1..Len(a \o b)
  PROVE  \/ i \in 1..Len(a) /\ (a \o b)[i] = a[i]
         \/ i > Len(a) /\ i - Len(a) \in 1..Len(b) /\ (a \o b)[i] = b[i - Len(a)]
OBVIOUS

\* A step within the first of three parts.
LEMMA FirstPartMoves ==
  ASSUME NEW S, NEW w \in Seq(S), NEW r \in Seq(S), w # <<>>
  PROVE  /\ w \o r \in Seq(S) /\ w \o r # <<>> /\ (w \o r)[1] = w[1]
         /\ Tail(w \o r) = Tail(w) \o r
<1>1. /\ w \o r \in Seq(S) /\ Len(w \o r) = Len(w) + Len(r) /\ Len(w) \in Nat /\ Len(w) >= 1
      /\ Len(r) \in Nat
      /\ \A i \in 1..Len(w) : (w \o r)[i] = w[i]
  OBVIOUS
<1>2. Tail(w) \in Seq(S) /\ Len(Tail(w)) = Len(w) - 1
      /\ \A i \in 1..(Len(w) - 1) : Tail(w)[i] = w[i + 1]
  BY <1>1
<1>3. Tail(w \o r) \in Seq(S) /\ Len(Tail(w \o r)) = Len(w) + Len(r) - 1
      /\ \A i \in 1..(Len(w) + Len(r) - 1) : Tail(w \o r)[i] = (w \o r)[i + 1]
  BY <1>1
<1>4. Tail(w) \o r \in Seq(S) /\ Len(Tail(w) \o r) = Len(w) + Len(r) - 1
  BY <1>1, <1>2
<1>5. ASSUME NEW i \in 1..(Len(w) + Len(r) - 1) PROVE Tail(w \o r)[i] = (Tail(w) \o r)[i]
  <2>1. CASE i <= Len(w) - 1
    BY <2>1, <1>1, <1>2, <1>3
  <2>2. CASE i > Len(w) - 1
    <3>1. (Tail(w) \o r)[i] = r[i - (Len(w) - 1)]
      BY <2>2, <1>1, <1>2, <1>4
    <3>2. (w \o r)[i + 1] = r[i + 1 - Len(w)]
      BY <2>2, <1>1
    <3> QED
      BY <3>1, <3>2, <1>1, <1>3
  <2> QED
    BY <2>1, <2>2, <1>1
<1>6. Tail(w \o r) = Tail(w) \o r
  BY <1>3, <1>4, <1>5, SeqEqual
<1> QED
  BY <1>1, <1>6

-----------------------------------------------------------------------------
(* The walk over the directories.                                          *)

\* The input of a call stays.
LEMMA SameFiles ==
  ASSUME UNCHANGED input
  PROVE  /\ \A k : AllOf(k)' = AllOf(k) /\ Files(k)' = Files(k)
         /\ \A level, k : FilesIn(level, k)' = FilesIn(level, k)
         /\ TreeInv => TreeInv'
BY DEF input, AllOf, Files, FilesIn, TreeInv

LEMMA SameDecisions ==
  ASSUME UNCHANGED input
  PROVE  \A k : Deciding(k)' = Deciding(k)
<1>1. \A k : AllOf(k)' = AllOf(k)
  BY SameFiles
<1>2. \A files, i : HasLastWord(files, i)' <=> HasLastWord(files, i)
  BY DEF input, HasLastWord, Speaks, RendersText
<1> QED
  BY <1>1, <1>2 DEF Deciding

LEMMA SameWords ==
  ASSUME UNCHANGED input, NEW k, NEW past, Reflects(found'[k], past)
  PROVE  Reflects(found[k], past)'
BY DEF input, Reflects, HasLastWord, Speaks, RendersText

LEMMA KindKept ==
  ASSUME UNCHANGED input, NEW k \in Kinds, NEW past \in Seq(Files(k)),
         AllOf(k) = past \o Left(k)', Reflects(found'[k], past),
         \A i \in 1..Len(past) : past[i].kind # "broken"
  PROVE  KindInv(k)'
<1>1. Reflects(found[k], past)'
  BY SameWords
<1>2. AllOf(k)' = past \o Left(k)' /\ past \in Seq(Files(k)')
  BY SameFiles
<1> QED
  BY <1>1, <1>2 DEF KindInv

LEMMA InitRender ==
  ASSUME Fresh, TreeInv
  PROVE  RenderInv
<1>1. \A k \in Kinds : found[k] = <<>> /\ DOMAIN found[k] = {}
  BY DEF Fresh
<1>2. FoundInv
  BY <1>1, FS_EmptySet DEF Fresh, FoundInv
<1>3. result = Start /\ todo = <<>> /\ kind \in Kinds /\ walk = <<>>
  BY DEF Fresh, Kinds
<1> QED
  BY <1>1, <1>2, <1>3 DEF RenderInv, AllOrNothing, Start, Walking, Transpiling, Outcome

LEMMA FreshCall ==
  ASSUME Fresh', TreeInv'
  PROVE  RenderInv'
BY InitRender, PTL

\* What is not a MachineConfig and not under way claims nothing.
LEMMA FailedRender ==
  ASSUME RenderInv, UNCHANGED <<input, found>>, result' = Failed
  PROVE  RenderInv'
<1>1. TreeInv' /\ FoundInv'
  BY SameFiles DEF RenderInv, FoundInv
<1> QED
  BY <1>1 DEF RenderInv, AllOrNothing, Failed, Start, Walking, Transpiling, Outcome

LEMMA WalkingRender ==
  ASSUME RenderInv, UNCHANGED input, FoundInv', result' = Walking, WalkInv'
  PROVE  RenderInv'
<1>1. TreeInv'
  BY SameFiles DEF RenderInv
<1> QED
  BY <1>1 DEF RenderInv, AllOrNothing, Start, Walking, Transpiling, Outcome

LEMMA Subdirs ==
  ASSUME NEW level \in Levels
  PROVE  LET subdirs == SubdirsOf(level)
         IN  /\ subdirs \in Seq({level} \X Kinds) /\ Len(subdirs) \in Nat
             /\ ToSet(subdirs) = IF Exists(tree[level]) THEN {level} \X Kinds ELSE {}
             /\ \A i, j \in 1..Len(subdirs) : i < j => subdirs[i] # subdirs[j]
             /\ Len(subdirs) > 0 => Exists(tree[level])
<1> DEFINE three == << <<level, "files">>, <<level, "units">>, <<level, "extensions">> >>
<1>1. CASE Exists(tree[level])
  <2>1. SubdirsOf(level) = three
    BY <1>1 DEF SubdirsOf
  <2>2. /\ three \in Seq({level} \X Kinds) /\ Len(three) = 3 /\ DOMAIN three = 1..3
        /\ three[1] = <<level, "files">> /\ three[2] = <<level, "units">>
        /\ three[3] = <<level, "extensions">>
    BY DEF Kinds
  <2> HIDE DEF three
  <2>3. ToSet(three) = {level} \X Kinds
    <3>1. ToSet(three) = {three[1], three[2], three[3]}
      BY <2>2, 1..3 = {1, 2, 3} DEF ToSet
    <3> QED
      BY <3>1, <2>2 DEF Kinds
  <2>4. \A i, j \in 1..Len(three) : i < j => three[i] # three[j]
    BY <2>2
  <2> QED
    BY <1>1, <2>1, <2>2, <2>3, <2>4
<1>2. CASE ~Exists(tree[level])
  BY <1>2 DEF SubdirsOf, ToSet
<1> QED
  BY <1>1, <1>2

LEMMA FindDirs ==
  ASSUME RenderInv, FindPlatformDirs
  PROVE  RenderInv'
<1> DEFINE c == SubdirsOf("common")
           r == SubdirsOf("role")
<1>1. /\ result = Start /\ result' = Walking /\ UNCHANGED <<input, kind, walk, found>>
      /\ todo' = c \o r /\ \A level \in Levels : ~IsNoDir(tree[level])
  BY DEF FindPlatformDirs
<1>2. /\ c \in Seq({"common"} \X Kinds) /\ Len(c) \in Nat
      /\ ToSet(c) = IF Exists(tree["common"]) THEN {"common"} \X Kinds ELSE {}
      /\ \A i, j \in 1..Len(c) : i < j => c[i] # c[j]
      /\ Len(c) > 0 => Exists(tree["common"])
  BY Subdirs DEF Levels
<1>3. /\ r \in Seq({"role"} \X Kinds) /\ Len(r) \in Nat
      /\ ToSet(r) = IF Exists(tree["role"]) THEN {"role"} \X Kinds ELSE {}
      /\ \A i, j \in 1..Len(r) : i < j => r[i] # r[j]
      /\ Len(r) > 0 => Exists(tree["role"])
  BY Subdirs DEF Levels
<1> HIDE DEF c, r
<1>4. c \in Seq(Levels \X Kinds) /\ r \in Seq(Levels \X Kinds)
  <2>1. {"common"} \X Kinds \subseteq Levels \X Kinds /\ {"role"} \X Kinds \subseteq Levels \X Kinds
    BY DEF Levels
  <2> QED
    BY <2>1, <1>2, <1>3
<1>5. /\ todo' \in Seq(Levels \X Kinds) /\ Len(todo') = Len(c) + Len(r)
      /\ \A i \in 1..Len(c) : todo'[i] = c[i] /\ c[i][1] = "common"
      /\ \A i \in 1..Len(r) : todo'[Len(c) + i] = r[i] /\ r[i][1] = "role"
  BY <1>1, <1>2, <1>3, <1>4
<1>6. ASSUME NEW i \in 1..Len(todo')
      PROVE  \/ i \in 1..Len(c) /\ todo'[i] = c[i] /\ todo'[i][1] = "common"
             \/ /\ i > Len(c) /\ i - Len(c) \in 1..Len(r)
                /\ todo'[i] = r[i - Len(c)] /\ todo'[i][1] = "role"
  BY <1>1, <1>2, <1>3, <1>4, ConcatParts
<1>7. TodoInv'
  <2>1. \A i \in 1..Len(todo') : Exists(tree[todo'[i][1]])
    BY <1>2, <1>3, <1>6
  <2>2. ASSUME NEW i \in 1..Len(todo'), NEW j \in 1..Len(todo'), i < j
        PROVE  todo'[i] # todo'[j] /\ (todo'[j][1] = "common" => todo'[i][1] = "common")
    <3>1. CASE j \in 1..Len(c)
      <4>1. i \in 1..Len(c)
        BY <2>2, <3>1, <1>2, <1>5, <1>3
      <4> QED
        BY <4>1, <3>1, <2>2, <1>2, <1>5
    <3>2. CASE j > Len(c)
      <4>1. todo'[j] = r[j - Len(c)] /\ todo'[j][1] = "role" /\ j - Len(c) \in 1..Len(r)
        BY <3>2, <1>6, <1>2
      <4>2. CASE i \in 1..Len(c)
        BY <4>1, <4>2, <1>6, <1>2, <1>5
      <4>3. CASE i > Len(c)
        <5>1. todo'[i] = r[i - Len(c)] /\ i - Len(c) \in 1..Len(r)
          BY <4>3, <1>6, <1>2
        <5>2. i - Len(c) < j - Len(c)
          BY <2>2, <1>2, <1>5, <1>3
        <5> QED
          BY <4>1, <5>1, <5>2, <1>3
      <4> QED
        BY <4>2, <4>3, <1>6
    <3> QED
      BY <3>1, <3>2, <1>6
  <2> QED
    BY <1>1, <1>5, <2>1, <2>2 DEF TodoInv, input
<1>8. ToSet(todo') = ToSet(c) \cup ToSet(r)
  <2>1. c \in Seq(ToSet(c)) /\ r \in Seq(ToSet(r))
    BY <1>4, ElementsOfSeq
  <2> QED
    BY <1>1, <2>1, ConcatElements
<1>9. ASSUME NEW level \in Levels, NEW k \in Kinds
      PROVE  <<level, k>> \in ToSet(todo') <=> Exists(tree[level])
  BY <1>2, <1>3, <1>8 DEF Levels
<1>10. DirsInv'
  BY <1>1, <1>9 DEF DirsInv, input
<1>11. ASSUME NEW k \in Kinds PROVE KindInv(k)'
  <2>1. TreeInv /\ walk' = <<>> /\ found'[k] = <<>>
    BY <1>1 DEF RenderInv
  <2>2. ASSUME NEW level \in Levels PROVE Ahead(level, k)' = FilesIn(level, k)
    BY <1>1, <1>9, SameFiles DEF Ahead, FilesIn
  <2>3. UnderWay(k)' = <<>>
    BY <2>1 DEF UnderWay
  <2>4. Left(k)' = <<>> \o AllOf(k)
    BY <2>2, <2>3 DEF Left, AllOf, Levels
  <2>5. AllOf(k) = <<>> \o Left(k)'
    BY <2>1, <2>4, FilesOfTree, NothingAppended
  <2>6. Reflects(found'[k], <<>>)
    BY <2>1 DEF Reflects
  <2>7. <<>> \in Seq(Files(k)) /\ \A i \in 1..Len(<<>>) : <<>>[i].kind # "broken"
    OBVIOUS
  <2> QED
    BY <1>1, <2>5, <2>6, <2>7, KindKept
<1>12. FoundInv' /\ kind' \in Kinds /\ walk' \in Seq(Files(kind)')
  BY <1>1 DEF RenderInv, FoundInv
<1> QED
  BY <1>1, <1>7, <1>10, <1>11, <1>12, WalkingRender DEF WalkInv

\* The next directory is taken off the list.
LEMMA DirTaken ==
  ASSUME TodoInv, todo # <<>>, todo' = Tail(todo), UNCHANGED input
  PROVE  /\ TodoInv' /\ todo[1] \in Levels \X Kinds /\ Exists(tree[todo[1][1]])
         /\ ToSet(todo') = ToSet(todo) \ {todo[1]} /\ todo[1] \in ToSet(todo)
         /\ todo[1][1] = "role" => \A k : <<"common", k>> \notin ToSet(todo)
<1>1. /\ todo \in Seq(Levels \X Kinds) /\ Len(todo) \in Nat /\ Len(todo) >= 1
      /\ todo[1] \in Levels \X Kinds /\ DOMAIN todo = 1..Len(todo)
  BY DEF TodoInv
<1>2. /\ todo' \in Seq(Levels \X Kinds) /\ Len(todo') = Len(todo) - 1
      /\ DOMAIN todo' = 1..Len(todo')
      /\ \A i \in 1..Len(todo') : todo'[i] = todo[i + 1] /\ i + 1 \in 1..Len(todo)
  BY <1>1
<1>3. TodoInv'
  <2>1. \A i \in 1..Len(todo') : Exists(tree'[todo'[i][1]])
    BY <1>2 DEF TodoInv, input
  <2>2. ASSUME NEW i \in 1..Len(todo'), NEW j \in 1..Len(todo'), i < j
        PROVE  todo'[i] # todo'[j] /\ (todo'[j][1] = "common" => todo'[i][1] = "common")
    <3>1. i + 1 < j + 1 /\ i + 1 \in 1..Len(todo) /\ j + 1 \in 1..Len(todo)
      BY <2>2, <1>2
    <3> QED
      BY <3>1, <1>2 DEF TodoInv
  <2> QED
    BY <1>2, <2>1, <2>2 DEF TodoInv, Exists
<1>4. ToSet(todo') = ToSet(todo) \ {todo[1]}
  <2>1. ASSUME NEW x \in ToSet(todo') PROVE x \in ToSet(todo) /\ x # todo[1]
    <3>1. PICK i \in 1..Len(todo') : x = todo[i + 1] /\ i + 1 \in 1..Len(todo)
      BY <1>2 DEF ToSet
    <3>2. todo[1] # todo[i + 1]
      BY <3>1, <1>1 DEF TodoInv
    <3> QED
      BY <3>1, <3>2, <1>1 DEF ToSet
  <2>2. ASSUME NEW x \in ToSet(todo), x # todo[1] PROVE x \in ToSet(todo')
    <3>1. PICK i \in 1..Len(todo) : x = todo[i]
      BY <1>1 DEF ToSet
    <3>2. i - 1 \in 1..Len(todo') /\ todo'[i - 1] = x
      <4>1. i - 1 \in 1..Len(todo')
        BY <3>1, <2>2, <1>1, <1>2
      <4>2. todo'[i - 1] = todo[(i - 1) + 1]
        BY <4>1, <1>2
      <4> QED
        BY <3>1, <4>1, <4>2
    <3> QED
      BY <3>2, <1>2 DEF ToSet
  <2> QED
    BY <2>1, <2>2
<1>5. ASSUME todo[1][1] = "role", NEW k, <<"common", k>> \in ToSet(todo) PROVE FALSE
  <2>1. PICK i \in 1..Len(todo) : todo[i] = <<"common", k>>
    BY <1>1, <1>5 DEF ToSet
  <2>2. todo[i][1] = "common"
    BY <2>1
  <2>3. i > 1
    BY <2>2, <1>1, <1>5
  <2> QED
    BY <2>2, <2>3, <1>1, <1>5 DEF TodoInv
<1>6. todo[1] \in ToSet(todo) /\ Exists(tree[todo[1][1]])
  BY <1>1 DEF ToSet, TodoInv
<1> QED
  BY <1>1, <1>3, <1>4, <1>5, <1>6

LEMMA EntersDir ==
  ASSUME RenderInv, EnterDir
  PROVE  RenderInv'
<1> DEFINE level == todo[1][1]
           entered == todo[1][2]
<1>1. /\ result = Walking /\ result' = Walking /\ walk = <<>> /\ todo # <<>>
      /\ Exists(NextDir) /\ walk' = NextDir.walk /\ kind' = entered /\ todo' = Tail(todo)
      /\ UNCHANGED <<input, found>>
  BY DEF EnterDir, BetweenDirs
<1>2. TreeInv /\ WalkInv
  BY <1>1 DEF RenderInv
<1>3. /\ TodoInv' /\ todo[1] \in Levels \X Kinds /\ Exists(tree[level])
      /\ ToSet(todo') = ToSet(todo) \ {todo[1]} /\ todo[1] \in ToSet(todo)
      /\ level = "role" => \A k : <<"common", k>> \notin ToSet(todo)
  BY <1>1, <1>2, DirTaken DEF WalkInv
<1>4. level \in Levels /\ entered \in Kinds /\ todo[1] = <<level, entered>>
  BY <1>3
<1> HIDE DEF level, entered
<1>5. NextDir = tree[level].sub[entered] /\ walk' = FilesIn(level, entered)
  BY <1>1, <1>3 DEF NextDir, FilesIn, level, entered
<1>6. walk' \in Seq(Files(kind)')
  BY <1>1, <1>2, <1>4, <1>5, FilesOfTree, SameFiles
<1>7. DirsInv'
  <2>1. ~IsNoDir(tree[level].sub[entered])
    BY <1>1, <1>5 DEF Exists, IsNoDir
  <2> QED
    BY <1>1, <1>2, <1>3, <1>4, <2>1 DEF WalkInv, DirsInv, input
<1>8. ASSUME NEW k \in Kinds PROVE KindInv(k)'
  <2>1. PICK past \in Seq(Files(k)) :
          /\ AllOf(k) = past \o Left(k) /\ Reflects(found[k], past)
          /\ \A i \in 1..Len(past) : past[i].kind # "broken"
    BY <1>2 DEF WalkInv, KindInv
  <2>2. /\ \A l \in Levels : Ahead(l, k) \in Seq(Files(k))
        /\ \A l \in Levels : FilesIn(l, k) \in Seq(Files(k))
    BY <1>2, FilesOfTree DEF Ahead
  <2>3. UnderWay(k) = <<>>
    BY <1>1 DEF UnderWay
  <2>4. \A l \in Levels :
          Ahead(l, k)' = IF <<l, k>> = <<level, entered>> THEN <<>> ELSE Ahead(l, k)
    BY <1>1, <1>3, <1>4, SameFiles DEF Ahead
  <2>5. UnderWay(k)' = IF k = entered THEN FilesIn(level, k) ELSE <<>>
    BY <1>1, <1>5 DEF UnderWay
  <2>6. Left(k)' = Left(k)
    <3>1. CASE k # entered
      BY <3>1, <2>3, <2>4, <2>5 DEF Left, Levels
    <3>2. CASE k = entered /\ level = "common"
      <4>1. Ahead("common", k) = FilesIn("common", k) /\ Ahead("common", k)' = <<>>
            /\ Ahead("role", k)' = Ahead("role", k) /\ UnderWay(k)' = FilesIn("common", k)
        BY <3>2, <1>3, <1>4, <2>4, <2>5 DEF Ahead, Levels
      <4>2. /\ Left(k) = <<>> \o (FilesIn("common", k) \o Ahead("role", k))
            /\ Left(k)' = FilesIn("common", k) \o (<<>> \o Ahead("role", k))
        BY <4>1, <2>3 DEF Left
      <4>3. FilesIn("common", k) \in Seq(Files(k)) /\ Ahead("role", k) \in Seq(Files(k))
        BY <2>2 DEF Levels
      <4> QED
        BY ONLY <4>2, <4>3, NothingBetween
    <3>3. CASE k = entered /\ level = "role"
      <4>1. Ahead("common", k) = <<>> /\ Ahead("common", k)' = <<>>
            /\ Ahead("role", k) = FilesIn("role", k) /\ Ahead("role", k)' = <<>>
            /\ UnderWay(k)' = FilesIn("role", k)
        BY <3>3, <1>3, <1>4, <2>4, <2>5 DEF Ahead, Levels
      <4>2. /\ Left(k) = <<>> \o (<<>> \o FilesIn("role", k))
            /\ Left(k)' = FilesIn("role", k) \o (<<>> \o <<>>)
        BY <4>1, <2>3 DEF Left
      <4>3. FilesIn("role", k) \in Seq(Files(k)) /\ <<>> \in Seq(Files(k))
        BY <2>2 DEF Levels
      <4>4. <<>> \o FilesIn("role", k) = FilesIn("role", k) /\ <<>> \o <<>> = <<>>
            /\ FilesIn("role", k) \o <<>> = FilesIn("role", k)
        BY ONLY <4>3, NothingAppended
      <4> QED
        BY ONLY <4>2, <4>4
    <3> QED
      BY <1>4, <3>1, <3>2, <3>3 DEF Levels
  <2>7. AllOf(k) = past \o Left(k)' /\ Reflects(found'[k], past)
    BY <1>1, <2>1, <2>6
  <2> QED
    BY <1>1, <2>1, <2>7, KindKept
<1>9. FoundInv' /\ kind' \in Kinds
  BY <1>1, <1>4 DEF RenderInv, FoundInv
<1> QED
  BY <1>1, <1>3, <1>6, <1>7, <1>8, <1>9, WalkingRender DEF WalkInv

LEMMA SkipsDir ==
  ASSUME RenderInv, SkipMissingDir
  PROVE  RenderInv'
<1> DEFINE level == todo[1][1]
           skipped == todo[1][2]
<1>1. /\ result = Walking /\ result' = Walking /\ walk = <<>> /\ todo # <<>>
      /\ ~Exists(NextDir) /\ ~IsNoDir(NextDir) /\ todo' = Tail(todo)
      /\ UNCHANGED <<input, kind, walk, found>>
  BY DEF SkipMissingDir, BetweenDirs
<1>2. TreeInv /\ WalkInv
  BY <1>1 DEF RenderInv
<1>3. /\ TodoInv' /\ todo[1] \in Levels \X Kinds
      /\ ToSet(todo') = ToSet(todo) \ {todo[1]}
  BY <1>1, <1>2, DirTaken DEF WalkInv
<1>4. level \in Levels /\ skipped \in Kinds /\ todo[1] = <<level, skipped>>
  BY <1>3
<1> HIDE DEF level, skipped
<1>5. NextDir = tree[level].sub[skipped] /\ FilesIn(level, skipped) = <<>>
  BY <1>1 DEF NextDir, FilesIn, level, skipped
<1>6. DirsInv'
  BY <1>1, <1>2, <1>3, <1>4, <1>5 DEF WalkInv, DirsInv, input
<1>7. ASSUME NEW k \in Kinds PROVE KindInv(k)'
  <2>1. PICK past \in Seq(Files(k)) :
          /\ AllOf(k) = past \o Left(k) /\ Reflects(found[k], past)
          /\ \A i \in 1..Len(past) : past[i].kind # "broken"
    BY <1>2 DEF WalkInv, KindInv
  <2>2. \A l \in Levels : Ahead(l, k)' = Ahead(l, k)
    BY <1>1, <1>3, <1>4, <1>5, SameFiles DEF Ahead
  <2>3. Left(k)' = Left(k)
    BY <1>1, <2>2 DEF Left, UnderWay, Levels
  <2>4. AllOf(k) = past \o Left(k)' /\ Reflects(found'[k], past)
    BY <1>1, <2>1, <2>3
  <2> QED
    BY <1>1, <2>1, <2>4, KindKept
<1>8. FoundInv' /\ kind' \in Kinds /\ walk' \in Seq(Files(kind)')
  BY <1>1, <1>2 DEF RenderInv, FoundInv, WalkInv
<1> QED
  BY <1>1, <1>3, <1>6, <1>7, <1>8, WalkingRender DEF WalkInv

\* A template file that is not broken, whatever it makes of the map.
LEMMA FiltersFile ==
  ASSUME RenderInv, AtTemplate, walk[1].kind # "broken",
         NEW texts, Filtered(texts), IsFiniteSet(DOMAIN texts),
         \A past \in Seq(Files(kind)) :
           Reflects(found[kind], past) => Reflects(texts, Append(past, walk[1]))
  PROVE  RenderInv'
<1>1. /\ result = Walking /\ result' = Walking /\ walk # <<>>
      /\ found' = [found EXCEPT ![kind] = texts] /\ walk' = Tail(walk)
      /\ UNCHANGED <<input, todo, kind>>
  BY DEF AtTemplate, Filtered
<1>2. TreeInv /\ WalkInv /\ FoundInv
  BY <1>1 DEF RenderInv
<1>3. kind \in Kinds /\ walk \in Seq(Files(kind)) /\ TodoInv /\ DirsInv
  BY <1>2 DEF WalkInv
<1>4. DOMAIN found = Kinds
  BY <1>2 DEF FoundInv
<1>5. /\ found'[kind] = texts /\ DOMAIN found' = Kinds
      /\ \A k \in Kinds \ {kind} : found'[k] = found[k]
  BY <1>1, <1>3, <1>4
<1>6. FoundInv'
  <2>1. found' = [k \in Kinds |-> found'[k]]
    BY <1>1, <1>4, <1>5
  <2>2. \A k \in Kinds : IsFiniteSet(DOMAIN found'[k])
    BY <1>2, <1>5 DEF FoundInv
  <2> QED
    BY <2>1, <2>2 DEF FoundInv
<1>7. TodoInv' /\ DirsInv'
  BY <1>1, <1>3 DEF TodoInv, DirsInv, input
<1>8. walk' \in Seq(Files(kind)')
  BY <1>1, <1>3, SameFiles
<1>9. ASSUME NEW k \in Kinds PROVE KindInv(k)'
  <2>1. PICK past \in Seq(Files(k)) :
          /\ AllOf(k) = past \o Left(k) /\ Reflects(found[k], past)
          /\ \A i \in 1..Len(past) : past[i].kind # "broken"
    BY <1>2 DEF WalkInv, KindInv
  <2>2. \A l \in Levels : Ahead(l, k)' = Ahead(l, k)
    BY <1>1, SameFiles DEF Ahead
  <2>3. CASE k # kind
    <3>1. Left(k)' = Left(k)
      BY <1>1, <2>2, <2>3 DEF Left, UnderWay, Levels
    <3>2. AllOf(k) = past \o Left(k)' /\ Reflects(found'[k], past)
      BY <1>5, <2>1, <2>3, <3>1
    <3> QED
      BY <1>1, <2>1, <3>2, KindKept
  <2>4. CASE k = kind
    <3> DEFINE ahead == Ahead("common", k) \o Ahead("role", k)
               more  == Append(past, walk[1])
    <3>1. ahead \in Seq(Files(k)) /\ ahead' = ahead
      <4>1. \A l \in Levels : Ahead(l, k) \in Seq(Files(k))
        BY <1>2, FilesOfTree DEF Ahead
      <4> QED
        BY <4>1, <2>2 DEF Levels
    <3>2. Left(k) = walk \o ahead /\ Left(k)' = Tail(walk) \o ahead
      BY <1>1, <2>4, <3>1 DEF Left, UnderWay
    <3> HIDE DEF ahead
    <3>3. /\ Left(k) \in Seq(Files(k)) /\ Left(k) # <<>> /\ Left(k)[1] = walk[1]
          /\ Left(k)' = Tail(Left(k))
      <4>1. walk \in Seq(Files(k)) /\ walk # <<>>
        BY <1>1, <1>3, <2>4
      <4>2. /\ walk \o ahead \in Seq(Files(k)) /\ walk \o ahead # <<>>
            /\ (walk \o ahead)[1] = walk[1] /\ Tail(walk \o ahead) = Tail(walk) \o ahead
        BY <3>1, <4>1, FirstPartMoves
      <4> QED
        BY <3>2, <4>2
    <3>4. AllOf(k) = more \o Left(k)' /\ walk[1] \in Files(k)
      BY <2>1, <3>3, MovesOver
    <3>5. Reflects(found'[k], more)
      BY <1>5, <2>1, <2>4
    <3>6. more \in Seq(Files(k)) /\ \A i \in 1..Len(more) : more[i].kind # "broken"
      <4>1. /\ more \in Seq(Files(k)) /\ Len(more) = Len(past) + 1 /\ Len(past) \in Nat
            /\ more[Len(past) + 1] = walk[1] /\ \A i \in 1..Len(past) : more[i] = past[i]
        BY <3>4, OneMoreFile
      <4> HIDE DEF more
      <4>2. ASSUME NEW i \in 1..Len(more) PROVE more[i].kind # "broken"
        <5>1. CASE i = Len(past) + 1
          BY <5>1, <4>1
        <5>2. CASE i # Len(past) + 1
          <6>1. i \in 1..Len(past)
            BY <5>2, <4>1
          <6>2. more[i] = past[i] /\ past[i].kind # "broken"
            BY <6>1, <4>1, <2>1
          <6> QED
            BY <6>2
        <5> QED
          BY <5>1, <5>2
      <4> QED
        BY <4>1, <4>2
    <3> QED
      BY <1>1, <3>4, <3>5, <3>6, KindKept
  <2> QED
    BY <2>3, <2>4
<1> QED
  BY <1>1, <1>3, <1>6, <1>7, <1>8, <1>9, WalkingRender DEF WalkInv

LEMMA FiltersEmpty ==
  ASSUME RenderInv, EmptyTemplate
  PROVE  RenderInv'
<1> DEFINE t     == walk[1]
           texts == Restrict(found[kind], DOMAIN found[kind] \ {t.name})
<1>1. AtTemplate /\ t.kind = "empty" /\ Filtered(texts)
  BY DEF EmptyTemplate
<1>2. kind \in Kinds /\ t \in Files(kind) /\ IsFiniteSet(DOMAIN found[kind])
  BY <1>1 DEF RenderInv, WalkInv, FoundInv, AtTemplate
<1>3. DOMAIN texts = DOMAIN found[kind] \ {t.name}
  BY DEF Restrict
<1>4. IsFiniteSet(DOMAIN texts)
  BY <1>2, <1>3, FS_RemoveElement
<1>5. \A past \in Seq(Files(kind)) : Reflects(found[kind], past) => Reflects(texts, Append(past, t))
  BY <1>1, <1>2, EmptyReflected
<1> QED
  BY <1>1, <1>4, <1>5, FiltersFile

LEMMA FiltersBlank ==
  ASSUME RenderInv, BlankTemplate
  PROVE  RenderInv'
<1> DEFINE t == walk[1]
<1>1. AtTemplate /\ t.kind = "text" /\ ~RendersText(t) /\ Filtered(found[kind])
  BY DEF BlankTemplate
<1>2. t \in Files(kind) /\ IsFiniteSet(DOMAIN found[kind]) /\ ~Speaks(t)
  BY <1>1 DEF RenderInv, WalkInv, FoundInv, AtTemplate, Speaks
<1>3. \A past \in Seq(Files(kind)) :
        Reflects(found[kind], past) => Reflects(found[kind], Append(past, t))
  BY <1>2, SilentReflected
<1> QED
  BY <1>1, <1>2, <1>3, FiltersFile

LEMMA FiltersText ==
  ASSUME RenderInv, TextTemplate
  PROVE  RenderInv'
<1> DEFINE t     == walk[1]
           texts == [n \in DOMAIN found[kind] \cup {t.name} |->
                       IF n = t.name THEN t.text ELSE found[kind][n]]
<1>1. AtTemplate /\ RendersText(t) /\ Filtered(texts)
  BY DEF TextTemplate
<1>2. t.kind # "broken"
  BY <1>1 DEF RendersText
<1>3. kind \in Kinds /\ t \in Files(kind) /\ IsFiniteSet(DOMAIN found[kind])
  BY <1>1 DEF RenderInv, WalkInv, FoundInv, AtTemplate
<1>4. DOMAIN texts = DOMAIN found[kind] \cup {t.name}
  OBVIOUS
<1>5. IsFiniteSet(DOMAIN texts)
  BY <1>3, <1>4, FS_AddElement
<1>6. \A past \in Seq(Files(kind)) : Reflects(found[kind], past) => Reflects(texts, Append(past, t))
  BY <1>1, <1>3, TextReflected
<1> QED
  BY <1>1, <1>2, <1>5, <1>6, FiltersFile

-----------------------------------------------------------------------------
(* The texts of the maps, and the MachineConfig.                           *)

\* How many names come before a name.
Rank(m, n) == Cardinality({before \in DOMAIN m : before < n})

\* Ranks grow with the names and take each value from 0 up to the number of
\* names.
LEMMA Ranks ==
  ASSUME NEW m, IsFiniteSet(DOMAIN m), DOMAIN m \subseteq Nat
  PROVE  /\ \A n \in DOMAIN m : Rank(m, n) \in Nat /\ Rank(m, n) < Cardinality(DOMAIN m)
         /\ \A n, o \in DOMAIN m : n < o => Rank(m, n) < Rank(m, o)
         /\ \A r \in Nat : r < Cardinality(DOMAIN m) => \E n \in DOMAIN m : Rank(m, n) = r
<1> DEFINE D         == DOMAIN m
           Before(o) == {before \in D : before < o}
           count     == Cardinality(D)
<1>0. count \in Nat
  BY FS_CardinalityType
<1>1. \A o \in D : IsFiniteSet(Before(o)) /\ Cardinality(Before(o)) \in Nat
  <2>1. \A o \in D : Before(o) \in SUBSET D
    OBVIOUS
  <2> QED
    BY <2>1, FS_Subset, FS_CardinalityType
<1>2. ASSUME NEW o \in D, NEW p \in D, o < p
      PROVE  Cardinality(Before(o)) < Cardinality(Before(p))
  <2>1. Before(o) \in SUBSET Before(p) /\ o \in Before(p) /\ o \notin Before(o)
    BY <1>2
  <2>2. /\ Cardinality(Before(o)) <= Cardinality(Before(p))
        /\ Cardinality(Before(p)) = Cardinality(Before(o)) => Before(p) = Before(o)
    BY <1>1, <2>1, FS_Subset
  <2> QED
    BY <1>1, <2>1, <2>2
<1>3. ASSUME NEW o \in D PROVE Cardinality(Before(o)) < count
  <2>1. Before(o) \in SUBSET D /\ o \notin Before(o)
    OBVIOUS
  <2>2. /\ Cardinality(Before(o)) <= Cardinality(D)
        /\ Cardinality(D) = Cardinality(Before(o)) => D = Before(o)
    BY <2>1, FS_Subset
  <2> QED
    BY <1>0, <1>1, <2>1, <2>2
<1>4. \A o \in D : Rank(m, o) = Cardinality(Before(o))
  BY DEF Rank
<1>5. /\ \A o \in D : Rank(m, o) \in Nat /\ Rank(m, o) < count
      /\ \A o, p \in D : o < p => Rank(m, o) < Rank(m, p)
  BY <1>1, <1>2, <1>3, <1>4
<1> HIDE DEF Before
<1>6. ASSUME NEW r \in Nat, r < count PROVE \E n \in D : Rank(m, n) = r
  <2> DEFINE T == 0..(count - 1)
             f == [o \in D |-> Rank(m, o)]
  <2>1. IsFiniteSet(T) /\ Cardinality(T) = count
    BY <1>0, FS_Interval
  <2>2. f \in [D -> T]
    <3>1. \A o \in D : Rank(m, o) \in T
      BY <1>0, <1>5
    <3> QED
      BY <3>1
  <2>3. \A o, p \in D : f[o] = f[p] => o = p
    <3>1. ASSUME NEW o \in D, NEW p \in D, Rank(m, o) = Rank(m, p) PROVE o = p
      <4>1. ~(o < p) /\ ~(p < o) /\ o \in Nat /\ p \in Nat
        BY <1>5, <3>1
      <4> QED
        BY <4>1
    <3> QED
      BY <3>1
  <2>4. f \in Injection(D, T)
    BY <2>2, <2>3 DEF Injection, IsInjective
  <2> HIDE DEF f, T
  <2>5. f \in Surjection(D, T)
    BY <2>1, <2>4, FS_Injection
  <2>6. r \in T
    BY <1>0, <1>6 DEF T
  <2>7. PICK n \in D : f[n] = r
    BY <2>5, <2>6 DEF Surjection
  <2> QED
    BY <2>7 DEF f
<1> QED
  BY <1>5, <1>6

\* SortedNames gives every name, and each before the greater ones.
LEMMA NamesSorted ==
  ASSUME NEW m, IsFiniteSet(DOMAIN m), DOMAIN m \subseteq Nat
  PROVE  /\ Cardinality(DOMAIN m) \in Nat
         /\ DOMAIN SortedNames(m) = 1..Cardinality(DOMAIN m)
         /\ Len(SortedNames(m)) = Cardinality(DOMAIN m)
         /\ \A i \in 1..Cardinality(DOMAIN m) : SortedNames(m)[i] \in DOMAIN m
         /\ \A i, j \in 1..Cardinality(DOMAIN m) : i < j => SortedNames(m)[i] < SortedNames(m)[j]
         /\ \A n \in DOMAIN m : \E i \in 1..Cardinality(DOMAIN m) : SortedNames(m)[i] = n
<1> DEFINE count == Cardinality(DOMAIN m)
<1>1. count \in Nat
  BY FS_CardinalityType
<1>2. /\ DOMAIN SortedNames(m) = 1..count
      /\ \A i \in 1..count : SortedNames(m)[i] = CHOOSE n \in DOMAIN m : Rank(m, n) = i - 1
  BY DEF SortedNames, Rank
<1>3. ASSUME NEW i \in 1..count
      PROVE  SortedNames(m)[i] \in DOMAIN m /\ Rank(m, SortedNames(m)[i]) = i - 1
  <2>1. i - 1 \in Nat /\ i - 1 < count
    BY <1>1
  <2>2. \E n \in DOMAIN m : Rank(m, n) = i - 1
    BY <2>1, Ranks
  <2> QED
    BY <1>2, <2>2
<1>4. ASSUME NEW i \in 1..count, NEW j \in 1..count, i < j
      PROVE  SortedNames(m)[i] < SortedNames(m)[j]
  <2> DEFINE n == SortedNames(m)[i]
             o == SortedNames(m)[j]
  <2>1. n \in DOMAIN m /\ o \in DOMAIN m /\ Rank(m, n) = i - 1 /\ Rank(m, o) = j - 1
    BY <1>3
  <2>2. n \in Nat /\ o \in Nat
    BY <2>1
  <2> HIDE DEF n, o
  <2>3. Rank(m, n) < Rank(m, o)
    BY <1>1, <1>4, <2>1
  <2>4. o < n => Rank(m, o) < Rank(m, n)
    BY <2>1, Ranks
  <2>5. n # o /\ ~(o < n)
    BY <1>1, <2>1, <2>3, <2>4
  <2>6. n < o
    BY <2>2, <2>5
  <2> QED
    BY <2>6 DEF n, o
<1>5. ASSUME NEW n \in DOMAIN m PROVE \E i \in 1..count : SortedNames(m)[i] = n
  <2> DEFINE i == Rank(m, n) + 1
  <2>1. i \in 1..count /\ i - 1 = Rank(m, n)
    BY <1>1, Ranks
  <2> HIDE DEF i
  <2>2. SortedNames(m)[i] \in DOMAIN m /\ Rank(m, SortedNames(m)[i]) = Rank(m, n)
    BY <1>3, <2>1
  <2>3. SortedNames(m)[i] = n
    <3> DEFINE o == SortedNames(m)[i]
    <3>1. o \in Nat /\ n \in Nat /\ o \in DOMAIN m /\ Rank(m, o) = Rank(m, n) /\ Rank(m, n) \in Nat
      BY <2>2, Ranks
    <3> HIDE DEF o
    <3>2. ~(o < n) /\ ~(n < o)
      BY <3>1, Ranks
    <3>3. o = n
      BY <3>1, <3>2
    <3> QED
      BY <3>3 DEF o
  <2> QED
    BY <2>1, <2>3
<1>6. Len(SortedNames(m)) = count
  <2>1. SortedNames(m) = [i \in 1..count |-> CHOOSE n \in DOMAIN m : Rank(m, n) = i - 1]
    BY DEF SortedNames, Rank
  <2>2. SortedNames(m) \in [1..count -> DOMAIN m]
    BY <1>2, <1>3, <2>1
  <2> QED
    BY <1>1, <2>2
<1> QED
  BY <1>1, <1>2, <1>3, <1>4, <1>5, <1>6

\* keySortVals leaves no value of a map out.
LEMMA EveryValueSorted ==
  ASSUME NEW m, IsFiniteSet(DOMAIN m), DOMAIN m \subseteq Nat, NEW n \in DOMAIN m
  PROVE  \E i \in 1..Cardinality(DOMAIN m) : keySortVals(m)[i] = m[n]
<1>1. PICK i \in 1..Cardinality(DOMAIN m) : SortedNames(m)[i] = n
  BY NamesSorted
<1>2. keySortVals(m)[i] = m[n]
  BY <1>1 DEF keySortVals
<1> QED
  BY <1>2

\* The texts of a kind, in the order of their names.
Tagged(k) == [i \in 1..Cardinality(DOMAIN found[k]) |-> <<k, keySortVals(found[k])[i]>>]

LEMMA EveryTextTagged ==
  ASSUME NEW k, IsFiniteSet(DOMAIN found[k]), DOMAIN found[k] \subseteq Nat
  PROVE  /\ Tagged(k) \in Seq(ToSet(Tagged(k)))
         /\ \A n \in DOMAIN found[k] : <<k, found[k][n]>> \in ToSet(Tagged(k))
<1> DEFINE count == Cardinality(DOMAIN found[k])
<1>1. count \in Nat
  BY FS_CardinalityType
<1>2. DOMAIN Tagged(k) = 1..count /\ \A i \in 1..count : Tagged(k)[i] = <<k, keySortVals(found[k])[i]>>
  BY DEF Tagged
<1>3. Tagged(k) = [i \in 1..count |-> Tagged(k)[i]]
  BY DEF Tagged
<1> HIDE DEF count
<1>4. \A i \in 1..count : Tagged(k)[i] \in ToSet(Tagged(k))
  BY <1>2 DEF ToSet
<1>5. Tagged(k) \in Seq(ToSet(Tagged(k)))
  BY <1>1, <1>3, <1>4
<1>6. ASSUME NEW n \in DOMAIN found[k] PROVE <<k, found[k][n]>> \in ToSet(Tagged(k))
  <2>1. PICK i \in 1..count : keySortVals(found[k])[i] = found[k][n]
    BY EveryValueSorted DEF count
  <2> QED
    BY <2>1, <1>2, <1>4
<1> QED
  BY <1>5, <1>6

\* The walk is over.
LEMMA WalkIsOver ==
  ASSUME RenderInv, result = Walking, walk = <<>>, todo = <<>>
  PROVE  ReadWhole
<1>1. WalkInv /\ TreeInv
  BY DEF RenderInv
<1>2. ToSet(todo) = {}
  BY DEF ToSet
<1>3. ASSUME NEW k \in Kinds
      PROVE  Reflects(found[k], AllOf(k)) /\ \A t \in Files(k) : t.kind # "broken"
  <2>1. PICK past \in Seq(Files(k)) :
          /\ AllOf(k) = past \o Left(k) /\ Reflects(found[k], past)
          /\ \A i \in 1..Len(past) : past[i].kind # "broken"
    BY <1>1 DEF WalkInv, KindInv
  <2>2. Left(k) = <<>>
    BY <1>2 DEF Left, UnderWay, Ahead
  <2>3. AllOf(k) = past
    BY <2>1, <2>2, NothingAppended
  <2> QED
    BY <2>1, <2>3 DEF Files, ToSet
<1> QED
  BY <1>1, <1>2, <1>3 DEF ReadWhole, WalkInv, DirsInv

LEMMA SameWhole ==
  ASSUME ReadWhole, UNCHANGED <<input, found>>
  PROVE  ReadWhole'
<1>1. \A k \in Kinds : Reflects(found[k], AllOf(k))'
  BY SameFiles DEF ReadWhole, input, Reflects, HasLastWord, Speaks, RendersText
<1> QED
  BY <1>1, SameFiles DEF ReadWhole, input

LEMMA StartsTranspile ==
  ASSUME RenderInv, StartTranspile
  PROVE  RenderInv'
<1>1. /\ result = Walking /\ walk = <<>> /\ todo = <<>>
      /\ pending' = Tagged("files") \o Tagged("units")
      /\ result' = Transpiling /\ UNCHANGED <<input, found>>
  BY DEF StartTranspile, Tagged, walking
<1>2. ReadWhole /\ TreeInv /\ FoundInv
  BY <1>1, WalkIsOver DEF RenderInv
<1>3. ASSUME NEW k \in Kinds
      PROVE  /\ Tagged(k) \in Seq(ToSet(Tagged(k)))
             /\ \A n \in DOMAIN found[k] : <<k, found[k][n]>> \in ToSet(Tagged(k))
  <2>1. \A i \in 1..Len(AllOf(k)) : AllOf(k)[i].name \in Nat
    BY <1>2, FilesOfTree
  <2>2. DOMAIN found[k] \subseteq Nat
    BY <1>2, <2>1 DEF ReadWhole, Reflects
  <2> QED
    BY <1>2, <2>2, EveryTextTagged DEF FoundInv
<1>4. PendingInv'
  <2>1. /\ ToSet(pending') = ToSet(Tagged("files")) \cup ToSet(Tagged("units"))
        /\ pending' \in Seq(ToSet(pending'))
    BY <1>1, <1>3, ConcatElements DEF Kinds
  <2> QED
    BY <1>1, <1>3, <2>1 DEF PendingInv, Kinds
<1>5. ReadWhole' /\ TreeInv' /\ FoundInv'
  BY <1>1, <1>2, SameWhole, SameFiles DEF FoundInv
<1> QED
  BY <1>1, <1>4, <1>5 DEF RenderInv, AllOrNothing, Start, Walking, Transpiling, Outcome

LEMMA Transpiles ==
  ASSUME RenderInv, TranspileNext
  PROVE  RenderInv'
<1>1. /\ result = Transpiling /\ result' = Transpiling /\ pending # <<>> /\ pending[1][2].valid
      /\ pending' = Tail(pending) /\ UNCHANGED <<input, found>>
  BY DEF TranspileNext, walking
<1>2. ReadWhole /\ PendingInv /\ TreeInv /\ FoundInv
  BY <1>1 DEF RenderInv
<1>3. PendingInv'
  <2>1. /\ pending \in Seq(ToSet(pending)) /\ Len(pending) \in Nat
        /\ DOMAIN pending = 1..Len(pending)
        /\ DOMAIN pending' = 1..(Len(pending) - 1)
        /\ \A i \in 1..(Len(pending) - 1) : pending'[i] = pending[i + 1]
        /\ pending' \in Seq(ToSet(pending))
    BY <1>1, <1>2 DEF PendingInv
  <2>2. pending' \in Seq(ToSet(pending'))
    BY <2>1, ElementsOfSeq
  <2>3. ASSUME NEW x \in ToSet(pending), x # pending[1] PROVE x \in ToSet(pending')
    <3>1. PICK i \in 1..Len(pending) : x = pending[i]
      BY <2>1 DEF ToSet
    <3>2. i - 1 \in 1..(Len(pending) - 1)
      BY <2>1, <2>3, <3>1
    <3>3. pending'[i - 1] = pending[(i - 1) + 1]
      BY <2>1, <3>2
    <3>4. pending'[i - 1] = x
      BY <3>1, <3>3
    <3> QED
      BY <2>1, <3>2, <3>4 DEF ToSet
  <2>4. ASSUME NEW k \in {"files", "units"}, NEW n \in DOMAIN found[k], ~found[k][n].valid
        PROVE  <<k, found[k][n]>> \in ToSet(pending')
    <3>1. <<k, found[k][n]>> \in ToSet(pending)
      BY <1>2, <2>4 DEF PendingInv
    <3>2. <<k, found[k][n]>> # pending[1]
      BY <1>1, <2>4
    <3> QED
      BY <2>3, <3>1, <3>2
  <2> QED
    BY <1>1, <2>2, <2>4 DEF PendingInv
<1>4. ReadWhole' /\ TreeInv' /\ FoundInv'
  BY <1>1, <1>2, SameWhole, SameFiles DEF FoundInv
<1> QED
  BY <1>1, <1>3, <1>4 DEF RenderInv, AllOrNothing, Start, Walking, Transpiling, Outcome

LEMMA ReturnsConfig ==
  ASSUME RenderInv, ReturnMachineConfig
  PROVE  RenderInv'
<1>1. /\ result = Transpiling /\ pending = <<>> /\ result'.outcome = "ok"
      /\ UNCHANGED <<input, found>>
  BY DEF ReturnMachineConfig, walking
<1>2. ReadWhole /\ PendingInv /\ TreeInv /\ FoundInv
  BY <1>1 DEF RenderInv
<1>3. \A k \in {"files", "units"} : \A n \in DOMAIN found[k] : found[k][n].valid
  BY <1>1, <1>2 DEF PendingInv, ToSet
<1>4. ASSUME NEW k \in {"files", "units"}, NEW t \in Deciding(k) PROVE t.text.valid
  <2>1. PICK i \in 1..Len(AllOf(k)) : HasLastWord(AllOf(k), i) /\ t = AllOf(k)[i]
    BY DEF Deciding
  <2>2. t.name \in DOMAIN found[k] /\ found[k][t.name] = t.text
    BY <1>2, <2>1 DEF ReadWhole, Reflects, Kinds
  <2> QED
    BY <1>3, <2>2
<1>5. \A k : Deciding(k)' = Deciding(k)
  BY <1>1, SameDecisions
<1>6. AllOrNothing'
  BY <1>1, <1>2, <1>4, <1>5, SameFiles DEF AllOrNothing, ReadWhole, Files, input
<1>7. TreeInv' /\ FoundInv'
  BY <1>1, <1>2, SameFiles DEF FoundInv
<1> QED
  BY <1>1, <1>6, <1>7 DEF RenderInv, Start, Walking, Transpiling, Outcome

LEMMA SameRender ==
  ASSUME RenderInv, UNCHANGED vars
  PROVE  RenderInv'
<1>1. UNCHANGED <<input, todo, kind, walk, found, pending, result>>
  BY DEF vars, input
<1>2. TreeInv' /\ FoundInv'
  BY <1>1, SameFiles DEF RenderInv, FoundInv
<1>3. ASSUME WalkInv PROVE WalkInv'
  <2>1. \A k \in Kinds : KindInv(k)'
    <3>1. ASSUME NEW k \in Kinds PROVE KindInv(k)'
      <4>1. PICK past \in Seq(Files(k)) :
              /\ AllOf(k) = past \o Left(k) /\ Reflects(found[k], past)
              /\ \A i \in 1..Len(past) : past[i].kind # "broken"
        BY <1>3 DEF WalkInv, KindInv
      <4>2. Left(k)' = Left(k)
        BY <1>1, SameFiles DEF Left, UnderWay, Ahead
      <4> QED
        BY <1>1, <4>1, <4>2, KindKept
    <3> QED
      BY <3>1
  <2> QED
    BY <1>1, <1>3, <2>1, SameFiles DEF WalkInv, TodoInv, DirsInv, input
<1>4. ASSUME ReadWhole, PendingInv PROVE ReadWhole' /\ PendingInv'
  BY <1>1, <1>4, SameWhole DEF PendingInv
<1>5. AllOrNothing'
  <2>1. \A k : Deciding(k)' = Deciding(k)
    BY <1>1, SameDecisions
  <2> QED
    BY <1>1, <2>1, SameFiles DEF RenderInv, AllOrNothing, input
<1> QED
  BY <1>1, <1>2, <1>3, <1>4, <1>5 DEF RenderInv

LEMMA NextRender == RenderInv /\ [Next]_vars => RenderInv'
<1> SUFFICES ASSUME RenderInv, [Next]_vars PROVE RenderInv'
  OBVIOUS
<1>1. CASE FindPlatformDirs
  BY <1>1, FindDirs
<1>2. CASE PlatformDirIsNoDir \/ DirIsNoDir \/ BrokenTemplate \/ ReadFails \/ TranspileFails
  BY <1>2, FailedRender
  DEF PlatformDirIsNoDir, DirIsNoDir, BrokenTemplate, ReadFails, TranspileFails, walking
<1>3. CASE EnterDir
  BY <1>3, EntersDir
<1>4. CASE SkipMissingDir
  BY <1>4, SkipsDir
<1>5. CASE EmptyTemplate
  BY <1>5, FiltersEmpty
<1>6. CASE BlankTemplate
  BY <1>6, FiltersBlank
<1>7. CASE TextTemplate
  BY <1>7, FiltersText
<1>8. CASE StartTranspile
  BY <1>8, StartsTranspile
<1>9. CASE TranspileNext
  BY <1>9, Transpiles
<1>10. CASE ReturnMachineConfig
  BY <1>10, ReturnsConfig
<1>11. CASE UNCHANGED vars
  BY <1>11, SameRender DEF vars
<1> QED
  BY <1>1, <1>2, <1>3, <1>4, <1>5, <1>6, <1>7, <1>8, <1>9, <1>10, <1>11 DEF Next

-----------------------------------------------------------------------------
(* The loops over roles and names.                                         *)

NamesWellFormed(list) ==
  list \in Seq(ToSet(list)) /\ \A n \in ToSet(list) : n.isDir => WellFormed(n.base)

LoopInv ==
  /\ RenderInv
  /\ WellFormed(dir.common)
  /\ \A r \in ToSet(dir.entries) : r.isDir => NamesWellFormed(r.list)
  /\ NamesWellFormed(names)

LEMMA NoNames == NamesWellFormed(<<>>)
BY DEF NamesWellFormed, ToSet

LEMMA NamesGoOn ==
  ASSUME NEW list, NamesWellFormed(list), list # <<>>
  PROVE  NamesWellFormed(Tail(list)) /\ list[1] \in ToSet(list)
<1>1. list \in Seq(ToSet(list))
  BY DEF NamesWellFormed
<1>2. list[1] \in ToSet(list) /\ Tail(list) \in Seq(ToSet(list))
  BY <1>1
<1>3. Tail(list) \in Seq(ToSet(Tail(list))) /\ ToSet(Tail(list)) \subseteq ToSet(list)
  BY <1>2, ElementsOfSeq
<1> QED
  BY <1>2, <1>3 DEF NamesWellFormed

LEMMA LoopInitInv == LoopInit => LoopInv
<1> SUFFICES ASSUME LoopInit PROVE LoopInv
  OBVIOUS
<1>1. NamesWellFormed(names)
  BY NoNames DEF LoopInit
<1>2. CASE OneCall
  <2>1. TreeInv /\ Fresh
    BY <1>2, TreesAssumption DEF OneCall, Init, TreesAssumption, TreeInv
  <2>2. WellFormed(dir.common) /\ ToSet(dir.entries) = {}
    BY <1>2 DEF OneCall, Nowhere, WellFormed, ToSet
  <2> QED
    BY <1>1, <2>1, <2>2, InitRender DEF LoopInv
<1>3. CASE AllRoles
  <2>1. WellFormed(dir.common)
    BY <1>3, TemplateDirsAssumption DEF AllRoles, TemplateDirsAssumption
  <2>2. \A r \in ToSet(dir.entries) : r.isDir => NamesWellFormed(r.list)
    BY <1>3, TemplateDirsAssumption DEF AllRoles, TemplateDirsAssumption, NamesWellFormed
  <2>3. WellFormed(Nowhere)
    BY DEF Nowhere, WellFormed
  <2>4. tree = [common |-> dir.common, role |-> Nowhere] /\ Fresh
    BY <1>3 DEF AllRoles
  <2>5. tree["common"] = dir.common /\ tree["role"] = Nowhere
    BY <2>4
  <2>6. TreeInv
    BY <2>1, <2>3, <2>5 DEF TreeInv, Levels
  <2> QED
    BY <1>1, <2>1, <2>2, <2>4, <2>6, InitRender DEF LoopInv
<1> QED
  BY <1>2, <1>3 DEF LoopInit

\* A name's call starts afresh, on the directories of that name.
LEMMA CallsAfresh ==
  ASSUME LoopInv, CallForName
  PROVE  LoopInv'
<1>1. /\ names # <<>> /\ names[1].isDir /\ names' = Tail(names) /\ UNCHANGED dir
      /\ tree' = [common |-> dir.common, role |-> names[1].base]
  BY DEF CallForName
<1>2. Fresh'
  BY DEF CallForName, Fresh
<1>3. NamesWellFormed(Tail(names)) /\ names[1] \in ToSet(names)
  BY <1>1, NamesGoOn DEF LoopInv
<1>4. WellFormed(dir.common) /\ WellFormed(names[1].base)
  BY <1>1, <1>3 DEF LoopInv, NamesWellFormed
<1>5. tree'["common"] = dir.common /\ tree'["role"] = names[1].base
  BY <1>1
<1>6. TreeInv'
  <2>1. WellFormed(tree'["common"]) /\ WellFormed(tree'["role"])
    BY <1>4, <1>5
  <2> QED
    BY <2>1 DEF TreeInv, Levels
<1>7. RenderInv'
  BY <1>2, <1>6, FreshCall
<1>8. NamesWellFormed(names)'
  BY <1>1, <1>3 DEF NamesWellFormed
<1>9. WellFormed(dir.common)' /\ \A r \in ToSet(dir.entries)' : r.isDir => NamesWellFormed(r.list)
  BY <1>1 DEF LoopInv
<1> QED
  BY <1>7, <1>8, <1>9 DEF LoopInv, NamesWellFormed

LEMMA LoopNextInv == LoopInv /\ [LoopNext]_allVars => LoopInv'
<1> SUFFICES ASSUME LoopInv, [LoopNext]_allVars PROVE LoopInv'
  OBVIOUS
<1> USE DEF NamesWellFormed
<1>1. CASE loop \in {"one", "call"} /\ Next /\ UNCHANGED loops
  BY <1>1, NextRender DEF LoopInv, loops
<1>2. ASSUME UNCHANGED <<vars, dir>>, NamesWellFormed(names')
      PROVE  LoopInv'
  BY <1>2, SameRender DEF LoopInv
<1>3. CASE SkipFile
  BY <1>2, <1>3, NamesGoOn DEF SkipFile, LoopInv
<1>4. CASE EnterRole
  <2>1. names' \in Listings(roles[1].name) /\ UNCHANGED <<vars, dir>>
    BY <1>4 DEF EnterRole
  <2>2. NamesWellFormed(names')
    BY <2>1 DEF Listings, LoopInv
  <2> QED
    BY <1>2, <2>1, <2>2
<1>5. CASE DirIsUnreadable \/ NameReturns \/ NameFails \/ RoleReturns \/ LoopReturns
  BY <1>2, <1>5 DEF DirIsUnreadable, NameReturns, NameFails, RoleReturns, LoopReturns, LoopInv
<1>6. CASE CallForName
  BY <1>6, CallsAfresh
<1>7. CASE UNCHANGED allVars
  BY <1>2, <1>7 DEF allVars, loops, LoopInv
<1> QED
  BY <1>1, <1>3, <1>4, <1>5, <1>6, <1>7 DEF LoopNext

\* A MachineConfig comes only from a tree that was read whole, for every tree,
\* config and template directory: no template is left out, in whatever order
\* the directories fail, and no text of the maps is lost on its way.
THEOREM ConfigsComeWhole == LoopSpec => []AllOrNothing
<1>1. LoopInv => AllOrNothing
  BY DEF LoopInv, RenderInv
<1> QED
  BY <1>1, LoopInitInv, LoopNextInv, PTL DEF LoopSpec

-----------------------------------------------------------------------------
(* What a tree makes: the maps, and of them the MachineConfig, are determined by it. *)

\* The template files of a kind, in a tree.
FilesOf(t, k) ==
  LET In(level) == IF Exists(t[level]) /\ Exists(t[level].sub[k])
                   THEN t[level].sub[k].walk ELSE <<>>
  IN  In("common") \o In("role")

\* A map of names to texts.
IsMap(m) == m = [n \in DOMAIN m |-> m[n]]

\* The maps that filterTemplates makes of a tree.
MapsOf(maps, t) ==
  /\ maps = [k \in Kinds |-> maps[k]]
  /\ \A k \in Kinds : IsMap(maps[k]) /\ Reflects(maps[k], FilesOf(t, k))

\* Files make one map: the last of a name decides what it says.
LEMMA OneMap ==
  ASSUME NEW past, NEW a, NEW b, IsMap(a), IsMap(b), Reflects(a, past), Reflects(b, past)
  PROVE  a = b
<1>1. DOMAIN a = DOMAIN b
  BY DEF Reflects
<1>2. ASSUME NEW n \in DOMAIN a PROVE a[n] = b[n]
  BY <1>1 DEF Reflects
<1>3. [n \in DOMAIN a |-> a[n]] = [n \in DOMAIN b |-> b[n]]
  BY <1>1, <1>2
<1> QED
  BY <1>3 DEF IsMap

\* A tree makes one set of maps.
LEMMA OneMaps ==
  ASSUME NEW t, NEW a, NEW b, MapsOf(a, t), MapsOf(b, t)
  PROVE  a = b
<1>1. \A k \in Kinds : a[k] = b[k]
  BY OneMap DEF MapsOf
<1>2. [k \in Kinds |-> a[k]] = [k \in Kinds |-> b[k]]
  BY <1>1
<1> QED
  BY <1>2 DEF MapsOf

\* The texts of the maps in the order in which they are transpiled.
TextsInTurn(maps) ==
  LET Texts(k) == [i \in 1..Cardinality(DOMAIN maps[k]) |-> <<k, keySortVals(maps[k])[i]>>]
  IN  Texts("files") \o Texts("units")

\* One round of the transpilation.
Merging(out, tagged) ==
  [out EXCEPT ![tagged[1]] = Merge(@, Entry(tagged[1], tagged[2]))]

\* The first n rounds of the transpilation.
Rounds(g, texts, n) == g[0] = NoEntries /\ \A i \in 1..n : g[i] = Merging(g[i - 1], texts[i])

\* They end with out, and with nothing else.
Makes(out, texts, n) ==
  /\ \E g : Rounds(g, texts, n)
  /\ \A g : Rounds(g, texts, n) => g[n] = out

\* The texts left are the last ones, and the ones before them made out.
Reached(out, texts, left) ==
  /\ Len(texts) \in Nat /\ Len(left) \in Nat /\ Len(left) <= Len(texts)
  /\ \A i \in 1..Len(left) : left[i] = texts[(Len(texts) - Len(left)) + i]
  /\ Makes(out, texts, Len(texts) - Len(left))

\* Before the first round nothing is made.
LEMMA NothingMade ==
  ASSUME NEW texts
  PROVE  Makes(NoEntries, texts, 0)
<1>1. PICK g : g = [i \in {0} |-> NoEntries]
  OBVIOUS
<1>2. 1..0 = {} /\ g[0] = NoEntries
  BY <1>1
<1>3. Rounds(g, texts, 0)
  BY <1>2 DEF Rounds
<1> QED
  BY <1>3 DEF Makes, Rounds

\* One more round goes on from what the ones before it made.
LEMMA MakesMore ==
  ASSUME NEW out, NEW texts, NEW n \in Nat, Makes(out, texts, n)
  PROVE  Makes(Merging(out, texts[n + 1]), texts, n + 1)
<1>1. PICK more : more = Merging(out, texts[n + 1])
  OBVIOUS
<1>2. PICK g : Rounds(g, texts, n) /\ g[n] = out
  BY DEF Makes
<1>3. PICK h : h = [i \in 0..(n + 1) |-> IF i = n + 1 THEN more ELSE g[i]]
  OBVIOUS
<1>4. h[n + 1] = more /\ \A i \in 0..n : h[i] = g[i]
  BY <1>3
<1>5. Rounds(h, texts, n + 1)
  <2>1. h[0] = NoEntries
    BY <1>2, <1>4 DEF Rounds
  <2>2. ASSUME NEW i \in 1..n PROVE h[i] = Merging(h[i - 1], texts[i])
    <3>1. i \in 0..n /\ i - 1 \in 0..n
      OBVIOUS
    <3>2. g[i] = Merging(g[i - 1], texts[i])
      BY <1>2 DEF Rounds
    <3> QED
      BY <1>4, <3>1, <3>2
  <2>3. h[n + 1] = Merging(h[(n + 1) - 1], texts[n + 1])
    <3>1. (n + 1) - 1 = n /\ n \in 0..n
      OBVIOUS
    <3> QED
      BY <1>1, <1>2, <1>4, <3>1
  <2>4. \A i \in 1..(n + 1) : i \in 1..n \/ i = n + 1
    OBVIOUS
  <2> QED
    BY <2>1, <2>2, <2>3, <2>4 DEF Rounds
<1>6. ASSUME NEW f, Rounds(f, texts, n + 1) PROVE f[n + 1] = more
  <2>1. 1..n \subseteq 1..(n + 1) /\ n + 1 \in 1..(n + 1) /\ (n + 1) - 1 = n
    OBVIOUS
  <2>2. Rounds(f, texts, n) /\ f[n + 1] = Merging(f[(n + 1) - 1], texts[n + 1])
    BY <1>6, <2>1 DEF Rounds
  <2>3. f[n] = out
    BY <2>2 DEF Makes
  <2> QED
    BY <1>1, <2>1, <2>2, <2>3
<1> QED
  BY <1>1, <1>5, <1>6 DEF Makes

\* What GenerateMachineConfigForName returns for the maps, and for a tree.
Denotes(spec, maps) ==
  \E out : /\ Makes(out, TextsInTurn(maps), Len(TextsInTurn(maps)))
           /\ spec = [outcome |-> "ok", config |-> out,
                      extensions |-> SortedNames(maps["extensions"])]

\* What it returns for a tree.
SpecOf(spec, t) == \E maps : MapsOf(maps, t) /\ Denotes(spec, maps)

\* A tree makes one MachineConfig: neither the order in which its directories
\* are walked nor what was rendered before has a say in it.
LEMMA OneSpec ==
  ASSUME NEW t, NEW a, NEW b, SpecOf(a, t), SpecOf(b, t)
  PROVE  a = b
<1>1. PICK maps : MapsOf(maps, t) /\ Denotes(a, maps)
  BY DEF SpecOf
<1>2. PICK others : MapsOf(others, t) /\ Denotes(b, others)
  BY DEF SpecOf
<1>3. maps = others
  BY <1>1, <1>2, OneMaps
<1>4. PICK texts, n : texts = TextsInTurn(maps) /\ n = Len(TextsInTurn(maps))
  OBVIOUS
<1>5. PICK out : /\ Makes(out, texts, n)
                 /\ a = [outcome |-> "ok", config |-> out,
                         extensions |-> SortedNames(maps["extensions"])]
  BY <1>1, <1>4 DEF Denotes
<1>6. PICK other : /\ Makes(other, texts, n)
                   /\ b = [outcome |-> "ok", config |-> other,
                           extensions |-> SortedNames(maps["extensions"])]
  BY <1>2, <1>3, <1>4 DEF Denotes
<1>7. out = other
  BY <1>5, <1>6 DEF Makes
<1> QED
  BY <1>5, <1>6, <1>7

-----------------------------------------------------------------------------
(* A call of GenerateMachineConfigForName makes what its tree makes. *)

\* What a call has made so far is what its tree makes.
CallMadeInv ==
  /\ \A k \in Kinds : IsMap(found[k])
  /\ result \in {Start, Walking} => outConfig = NoEntries
  /\ result = Transpiling => Reached(outConfig, TextsInTurn(found), pending)
  /\ result.outcome = "ok" => SpecOf(result, tree)

\* The files of the tree of the call.
LEMMA FilesOfTheTree == \A k : FilesOf(tree, k) = AllOf(k)
BY DEF FilesOf, AllOf, FilesIn

\* The config stays, and with it what a tree makes.
LEMMA SameSpecOf ==
  ASSUME config' = config, NEW spec, NEW t, SpecOf(spec, t)
  PROVE  SpecOf(spec, t)'
<1>1. PICK maps : MapsOf(maps, t) /\ Denotes(spec, maps)
  BY DEF SpecOf
<1>2. \A k \in Kinds : Reflects(maps[k], FilesOf(t, k))'
  BY <1>1 DEF MapsOf, Reflects, HasLastWord, Speaks, RendersText
<1>3. MapsOf(maps, t)'
  BY <1>1, <1>2 DEF MapsOf
<1> QED
  BY <1>1, <1>3 DEF SpecOf

\* A call starts with nothing made.
LEMMA FreshMade ==
  ASSUME Fresh
  PROVE  CallMadeInv
<1>1. \A k \in Kinds : found[k] = <<>>
  BY DEF Fresh
<1>2. IsMap(<<>>)
  BY DEF IsMap
<1> QED
  BY <1>1, <1>2 DEF Fresh, CallMadeInv, Start, Walking, Transpiling, Outcome

\* What leaves the call alone leaves it where it was.
LEMMA SameMade ==
  ASSUME CallMadeInv, UNCHANGED vars
  PROVE  CallMadeInv'
<1>1. /\ config' = config /\ tree' = tree /\ found' = found /\ pending' = pending
      /\ outConfig' = outConfig /\ result' = result
  BY DEF vars
<1>2. SpecOf(result, tree) => SpecOf(result, tree)'
  <2>1. PICK spec, t : spec = result /\ t = tree
    OBVIOUS
  <2>2. SpecOf(spec, t) => SpecOf(spec, t)'
    BY <1>1, SameSpecOf
  <2> QED
    BY <1>1, <2>1, <2>2 DEF SpecOf, MapsOf, Denotes
<1>3. Reached(outConfig, TextsInTurn(found), pending)
        => Reached(outConfig, TextsInTurn(found), pending)'
  BY <1>1
<1> QED
  BY <1>1, <1>2, <1>3 DEF CallMadeInv

\* While the tree is walked only the maps change.
LEMMA WalkingMade ==
  ASSUME CallMadeInv, \A k \in Kinds : IsMap(found'[k]), result \in {Start, Walking},
         result' = Walking, outConfig' = outConfig
  PROVE  CallMadeInv'
<1>1. result'.outcome # "ok" /\ result' # Transpiling
  BY DEF Walking, Transpiling, Outcome
<1> QED
  BY <1>1 DEF CallMadeInv, IsMap

\* A call that fails returns no MachineConfig.
LEMMA FailedMade ==
  ASSUME CallMadeInv, found' = found, result' = Failed
  PROVE  CallMadeInv'
<1>1. result'.outcome # "ok" /\ result' \notin {Start, Walking, Transpiling}
  BY DEF Failed, Start, Walking, Transpiling, Outcome
<1> QED
  BY <1>1 DEF CallMadeInv, IsMap

\* filterTemplates leaves the text of a file in its map, or removes it.
LEMMA FilteredMade ==
  ASSUME RenderInv, CallMadeInv, EmptyTemplate \/ BlankTemplate \/ TextTemplate
  PROVE  CallMadeInv'
<1>1. result = Walking /\ result' = Walking /\ outConfig' = outConfig
  BY DEF EmptyTemplate, BlankTemplate, TextTemplate, AtTemplate, Filtered, building
<1>2. PICK texts : found' = [found EXCEPT ![kind] = texts] /\ IsMap(texts)
  <2>1. kind \in Kinds
    BY <1>1 DEF RenderInv, WalkInv
  <2>2. CASE EmptyTemplate
    <3>1. PICK texts : /\ texts = Restrict(found[kind], DOMAIN found[kind] \ {walk[1].name})
                       /\ found' = [found EXCEPT ![kind] = texts]
      BY <2>2 DEF EmptyTemplate, Filtered
    <3>2. IsMap(texts)
      BY <3>1 DEF Restrict, IsMap
    <3> QED
      BY <3>1, <3>2
  <2>3. CASE BlankTemplate
    BY <2>1, <2>3 DEF BlankTemplate, Filtered, CallMadeInv
  <2>4. CASE TextTemplate
    <3>1. PICK texts : /\ texts = [n \in DOMAIN found[kind] \cup {walk[1].name} |->
                                     IF n = walk[1].name THEN walk[1].text ELSE found[kind][n]]
                       /\ found' = [found EXCEPT ![kind] = texts]
      BY <2>4 DEF TextTemplate, Filtered
    <3>2. IsMap(texts)
      BY <3>1 DEF IsMap
    <3> QED
      BY <3>1, <3>2
  <2> QED
    BY <2>2, <2>3, <2>4
<1>3. found = [k \in Kinds |-> found[k]]
  BY DEF RenderInv, FoundInv
<1>4. ASSUME NEW k \in Kinds PROVE IsMap(found'[k])
  <2>1. found'[k] = texts \/ found'[k] = found[k]
    BY <1>2, <1>3
  <2> QED
    BY <1>2, <2>1 DEF CallMadeInv
<1> QED
  BY <1>1, <1>4, WalkingMade

\* All texts of the maps wait for the transpilation.
LEMMA StartMade ==
  ASSUME RenderInv, CallMadeInv, StartTranspile
  PROVE  CallMadeInv'
<1>1. /\ result = Walking /\ result' = Transpiling /\ found' = found /\ outConfig' = outConfig
      /\ pending' = TextsInTurn(found)
  BY DEF StartTranspile, TextsInTurn, walking
<1>2. outConfig' = NoEntries
  BY <1>1 DEF CallMadeInv
<1>3. PendingInv'
  BY <1>1, StartsTranspile DEF RenderInv
<1>4. PICK texts : texts = TextsInTurn(found)
  OBVIOUS
<1>5. Len(texts) \in Nat
  BY <1>1, <1>3, <1>4 DEF PendingInv
<1>6. Len(texts) - Len(texts) = 0 /\ \A i \in 1..Len(texts) : 0 + i = i
  BY <1>5
<1>7. Makes(NoEntries, texts, 0)
  BY NothingMade
<1>8. Reached(NoEntries, texts, texts)
  BY <1>5, <1>6, <1>7 DEF Reached
<1>9. TextsInTurn(found)' = texts
  BY <1>1, <1>4
<1>10. result'.outcome # "ok" /\ result' \notin {Start, Walking}
  BY <1>1 DEF Start, Walking, Transpiling, Outcome
<1> QED
  BY <1>1, <1>2, <1>4, <1>8, <1>9, <1>10 DEF CallMadeInv, IsMap

\* A text is transpiled: one more round.
LEMMA NextMade ==
  ASSUME RenderInv, CallMadeInv, TranspileNext
  PROVE  CallMadeInv'
<1>1. /\ result = Transpiling /\ result' = Transpiling /\ found' = found
      /\ pending # <<>> /\ pending' = Tail(pending) /\ outConfig' = Merging(outConfig, pending[1])
  BY DEF TranspileNext, Merging, walking
<1>2. PICK texts, left, rest : texts = TextsInTurn(found) /\ left = pending /\ rest = pending'
  OBVIOUS
<1>3. Reached(outConfig, texts, left)
  BY <1>1, <1>2 DEF CallMadeInv
<1>4. left \in Seq(ToSet(left)) /\ left # <<>>
  BY <1>1, <1>2 DEF RenderInv, PendingInv
<1>5. /\ Len(left) \in Nat /\ Len(left) >= 1 /\ Len(rest) = Len(left) - 1
      /\ \A i \in 1..Len(rest) : rest[i] = left[i + 1]
  BY <1>1, <1>2, <1>4
<1>6. PICK n \in Nat : n = Len(texts) - Len(left) /\ Len(texts) = n + Len(left)
  BY <1>3 DEF Reached
<1>7. /\ Makes(outConfig, texts, n) /\ \A i \in 1..Len(left) : left[i] = texts[n + i]
  BY <1>3, <1>6 DEF Reached
<1>8. left[1] = texts[n + 1]
  BY <1>5, <1>7
<1>9. Makes(outConfig', texts, n + 1)
  BY <1>1, <1>2, <1>7, <1>8, MakesMore
<1>10. /\ Len(texts) - Len(rest) = n + 1 /\ Len(rest) \in Nat /\ Len(rest) <= Len(texts)
       /\ Len(texts) \in Nat
  BY <1>5, <1>6
<1>11. ASSUME NEW i \in 1..Len(rest) PROVE rest[i] = texts[(n + 1) + i]
  <2>1. i + 1 \in 1..Len(left) /\ n + (i + 1) = (n + 1) + i
    BY <1>5, <1>6
  <2> QED
    BY <1>5, <1>7, <2>1
<1>12. Reached(outConfig', texts, rest)
  BY <1>9, <1>10, <1>11 DEF Reached
<1>13. TextsInTurn(found)' = texts
  BY <1>1, <1>2
<1>14. result'.outcome # "ok" /\ result' \notin {Start, Walking}
  BY <1>1 DEF Start, Walking, Transpiling, Outcome
<1> QED
  BY <1>1, <1>2, <1>12, <1>13, <1>14 DEF CallMadeInv, IsMap

\* The last text is transpiled, and the call returns what all rounds made.
LEMMA ReturnMade ==
  ASSUME RenderInv, CallMadeInv, ReturnMachineConfig
  PROVE  CallMadeInv'
<1>1. /\ result = Transpiling /\ pending = <<>> /\ found' = found
      /\ tree' = tree /\ config' = config
      /\ result' = [outcome |-> "ok", config |-> outConfig,
                    extensions |-> SortedNames(found["extensions"])]
  BY DEF ReturnMachineConfig, input, walking
<1>2. PICK texts : texts = TextsInTurn(found)
  OBVIOUS
<1>3. Reached(outConfig, texts, <<>>)
  BY <1>1, <1>2 DEF CallMadeInv
<1>4. Len(texts) - 0 = Len(texts)
  BY <1>3 DEF Reached
<1>5. Makes(outConfig, texts, Len(texts))
  BY <1>3, <1>4 DEF Reached
<1>6. Denotes(result', found)
  BY <1>1, <1>2, <1>5 DEF Denotes
<1>7. MapsOf(found, tree)
  <2>1. found = [k \in Kinds |-> found[k]] /\ ReadWhole
    BY <1>1 DEF RenderInv, FoundInv
  <2>2. \A k \in Kinds : IsMap(found[k]) /\ Reflects(found[k], FilesOf(tree, k))
    BY <2>1, FilesOfTheTree DEF ReadWhole, CallMadeInv
  <2> QED
    BY <2>1, <2>2 DEF MapsOf
<1>8. PICK spec, t : spec = result' /\ t = tree
  OBVIOUS
<1>9. SpecOf(spec, t)
  BY <1>6, <1>7, <1>8 DEF SpecOf
<1>10. SpecOf(spec, t)'
  BY <1>1, <1>9, SameSpecOf
<1>11. SpecOf(result, tree)'
  BY <1>1, <1>8, <1>10 DEF SpecOf
<1>12. result' \notin {Start, Walking, Transpiling}
  BY <1>1 DEF Start, Walking, Transpiling, Outcome
<1> QED
  BY <1>1, <1>11, <1>12 DEF CallMadeInv, IsMap

\* Every step of a call keeps to what its tree makes.
LEMMA CallMadeNext == RenderInv /\ CallMadeInv /\ [Next]_vars => CallMadeInv'
<1> SUFFICES ASSUME RenderInv, CallMadeInv, [Next]_vars PROVE CallMadeInv'
  OBVIOUS
<1>1. CASE FindPlatformDirs
  BY <1>1, WalkingMade DEF FindPlatformDirs, building, CallMadeInv
<1>2. CASE PlatformDirIsNoDir \/ DirIsNoDir \/ BrokenTemplate \/ ReadFails \/ TranspileFails
  BY <1>2, FailedMade
  DEF PlatformDirIsNoDir, DirIsNoDir, BrokenTemplate, ReadFails, TranspileFails, walking
<1>3. CASE EnterDir \/ SkipMissingDir
  BY <1>3, WalkingMade DEF EnterDir, SkipMissingDir, BetweenDirs, building, CallMadeInv
<1>4. CASE EmptyTemplate \/ BlankTemplate \/ TextTemplate
  BY <1>4, FilteredMade
<1>5. CASE StartTranspile
  BY <1>5, StartMade
<1>6. CASE TranspileNext
  BY <1>6, NextMade
<1>7. CASE ReturnMachineConfig
  BY <1>7, ReturnMade
<1>8. CASE UNCHANGED vars
  BY <1>8, SameMade
<1> QED
  BY <1>1, <1>2, <1>3, <1>4, <1>5, <1>6, <1>7, <1>8 DEF Next

-----------------------------------------------------------------------------
(* The loops over the roles and their names. *)

\* The names of the directories in a listing.
NamesIn(list) == {e.name : e \in {f \in ToSet(list) : f.isDir}}

\* The MachineConfigs a role needs.
PairsFor(r) == {r} \X UNION {NamesIn(list) : list \in Listings(r)}

\* The MachineConfigs that all roles need.
AllPairs == UNION {PairsFor(r) : r \in NamesIn(dir.entries)}

\* What a MachineConfig is for.
Pair(cfg) == <<cfg.role, cfg.name>>

\* The ones that are made.
MadePairs == {Pair(cfgs[i]) : i \in 1..Len(cfgs)}

\* The ones still to come: the call under way, the rest of its role, and the
\* roles after it.
ToCome ==
  (IF loop = "call" THEN {<<role, name>>} ELSE {})
  \cup (IF loop \in {"names", "call"} THEN {role} \X NamesIn(names) ELSE {})
  \cup UNION {PairsFor(r) : r \in NamesIn(roles)}

\* What os.ReadDir returns: a list that has a name once.
Listing(list) == list \in Seq(ToSet(list)) /\ DistinctNames(list)

\* The template directory is made of listings.
DirInv ==
  /\ Listing(dir.entries)
  /\ \A r \in ToSet(dir.entries) : r.isDir => Listing(r.list)

\* A call for a name runs on the tree of an entry of that name.
TreeFor(r, n, t) ==
  \E list \in Listings(r) : \E e \in ToSet(list) :
    e.isDir /\ e.name = n /\ t = [common |-> dir.common, role |-> e.base]

\* A MachineConfig is what the tree of its role and name makes.
MadeFor(cfg) == \E t : TreeFor(cfg.role, cfg.name, t) /\ SpecOf(cfg.spec, t)

\* There is one MachineConfig for a role and a name, made of their tree.
CfgsInv ==
  /\ Len(cfgs) \in Nat /\ cfgs \in Seq({cfgs[i] : i \in 1..Len(cfgs)})
  /\ \A i, j \in 1..Len(cfgs) : Pair(cfgs[i]) = Pair(cfgs[j]) => i = j
  /\ \A i \in 1..Len(cfgs) : MadeFor(cfgs[i])

\* What is made and what is to come is what is needed, and nothing is made twice.
PairsInv == MadePairs \cup ToCome = AllPairs /\ MadePairs \cap ToCome = {}

\* The loops are somewhere in the listings.
RoleInv ==
  /\ Listing(roles)
  /\ loop \in {"names", "call"} =>
       /\ Listing(names) /\ role \notin NamesIn(roles)
       /\ \E list \in Listings(role) : ToSet(names) \subseteq ToSet(list)
  /\ loop = "call" => name \notin NamesIn(names) /\ TreeFor(role, name, tree)
  /\ loop = "done" => roles = <<>>

\* The inductive invariant of the loops. A call on a tree of its own ("one")
\* returns no list, and a loop that failed an empty one.
RolesInv ==
  /\ DirInv
  /\ loop \in {"roles", "names", "call", "done"} => CfgsInv /\ PairsInv /\ RoleInv
  /\ loop = "failed" => cfgs = <<>>

\* What the loops do to a listing: its first entry goes, and no other has its name.
LEMMA ListingGoesOn ==
  ASSUME NEW list, Listing(list), list # <<>>
  PROVE  /\ Listing(Tail(list)) /\ list[1] \in ToSet(list)
         /\ ToSet(Tail(list)) \subseteq ToSet(list)
         /\ NamesIn(list) = IF list[1].isDir THEN {list[1].name} \cup NamesIn(Tail(list))
                            ELSE NamesIn(Tail(list))
         /\ list[1].name \notin NamesIn(Tail(list))
<1>1. PICK rest, S : rest = Tail(list) /\ S = ToSet(list)
  OBVIOUS
<1>2. list \in Seq(S) /\ DistinctNames(list)
  BY <1>1 DEF Listing
<1>3. /\ rest \in Seq(S) /\ Len(list) \in Nat /\ Len(list) >= 1 /\ Len(rest) = Len(list) - 1
      /\ \A i \in 1..Len(rest) : rest[i] = list[i + 1]
      /\ list[1] \in S /\ DOMAIN list = 1..Len(list) /\ DOMAIN rest = 1..Len(rest)
  BY <1>1, <1>2
<1>4. rest \in Seq(ToSet(rest)) /\ ToSet(rest) \subseteq S
  BY <1>3, ElementsOfSeq
<1>5. DistinctNames(rest)
  <2>1. SUFFICES ASSUME NEW i \in 1..Len(rest), NEW j \in 1..Len(rest),
                        rest[i].name = rest[j].name
                 PROVE  i = j
    BY DEF DistinctNames
  <2>2. i + 1 \in 1..Len(list) /\ j + 1 \in 1..Len(list)
    BY <1>3
  <2>3. list[i + 1].name = list[j + 1].name
    BY <1>3, <2>1
  <2>4. i + 1 = j + 1
    BY <1>2, <2>2, <2>3 DEF DistinctNames
  <2> QED
    BY <1>3, <2>4
<1>6. ToSet(list) = {list[1]} \cup ToSet(rest)
  <2>1. ASSUME NEW i \in 1..Len(list) PROVE list[i] \in {list[1]} \cup ToSet(rest)
    <3>1. CASE i = 1
      BY <3>1
    <3>2. CASE i # 1
      <4>1. i - 1 \in 1..Len(rest) /\ (i - 1) + 1 = i
        BY <1>3, <3>2
      <4>2. rest[i - 1] = list[i]
        BY <1>3, <4>1
      <4> QED
        BY <1>3, <4>1, <4>2 DEF ToSet
    <3> QED
      BY <3>1, <3>2
  <2>2. ToSet(list) \subseteq {list[1]} \cup ToSet(rest)
    BY <1>3, <2>1 DEF ToSet
  <2> QED
    BY <1>1, <1>3, <1>4, <2>2
<1>7. ASSUME NEW e \in ToSet(rest) PROVE e.name # list[1].name
  <2>1. PICK i \in 1..Len(rest) : e = rest[i]
    BY <1>3 DEF ToSet
  <2>2. i + 1 \in 1..Len(list) /\ 1 \in 1..Len(list) /\ i + 1 # 1 /\ e = list[i + 1]
    BY <1>3, <2>1
  <2> QED
    BY <1>2, <2>2 DEF DistinctNames
<1>8. list[1].name \notin NamesIn(rest)
  BY <1>7 DEF NamesIn
<1>9. NamesIn(list) = IF list[1].isDir THEN {list[1].name} \cup NamesIn(rest) ELSE NamesIn(rest)
  BY <1>6 DEF NamesIn
<1> QED
  BY <1>1, <1>3, <1>4, <1>5, <1>8, <1>9 DEF Listing

\* A listing has one entry of a name.
LEMMA OfOneName ==
  ASSUME NEW list, Listing(list), NEW a \in ToSet(list), NEW b \in ToSet(list), a.name = b.name
  PROVE  a = b
<1>1. PICK i \in 1..Len(list), j \in 1..Len(list) : a = list[i] /\ b = list[j]
  BY DEF Listing, ToSet
<1> QED
  BY <1>1 DEF Listing, DistinctNames

\* A role has one listing.
LEMMA OneListing ==
  ASSUME DirInv, NEW r, NEW a \in Listings(r), NEW b \in Listings(r)
  PROVE  a = b /\ Listing(a)
<1>1. PICK e \in ToSet(dir.entries) : e.isDir /\ e.name = rolePath(r) /\ a = e.list
  BY DEF Listings
<1>2. PICK f \in ToSet(dir.entries) : f.isDir /\ f.name = rolePath(r) /\ b = f.list
  BY DEF Listings
<1>3. e = f
  BY <1>1, <1>2, OfOneName DEF DirInv
<1> QED
  BY <1>1, <1>2, <1>3 DEF DirInv

\* Roles that use one directory call for a name on one tree.
LEMMA OneTree ==
  ASSUME DirInv, NEW r, NEW q, rolePath(r) = rolePath(q), NEW n, NEW t, NEW u,
         TreeFor(r, n, t), TreeFor(q, n, u)
  PROVE  t = u
<1>1. Listings(r) = Listings(q)
  BY DEF Listings
<1>2. PICK list \in Listings(r) : \E e \in ToSet(list) :
        e.isDir /\ e.name = n /\ t = [common |-> dir.common, role |-> e.base]
  BY DEF TreeFor
<1>3. PICK other \in Listings(r) : \E e \in ToSet(other) :
        e.isDir /\ e.name = n /\ u = [common |-> dir.common, role |-> e.base]
  BY <1>1 DEF TreeFor
<1>4. list = other /\ Listing(list)
  BY OneListing
<1>5. PICK e \in ToSet(list) : e.name = n /\ t = [common |-> dir.common, role |-> e.base]
  BY <1>2
<1>6. PICK f \in ToSet(list) : f.name = n /\ u = [common |-> dir.common, role |-> f.base]
  BY <1>3, <1>4
<1>7. e = f
  BY <1>4, <1>5, <1>6, OfOneName
<1> QED
  BY <1>5, <1>6, <1>7

\* When the loops are done nothing is to come.
LEMMA RolesDone ==
  ASSUME RolesInv
  PROVE  RolesShareTemplates
<1> SUFFICES ASSUME loop = "done" PROVE RolesShareTemplates
  BY DEF RolesShareTemplates, RolesInv
<1>1. DirInv /\ CfgsInv /\ PairsInv /\ RoleInv
  BY DEF RolesInv
<1>2. ToCome = {}
  <2>1. roles = <<>>
    BY <1>1 DEF RoleInv
  <2>2. NamesIn(roles) = {}
    BY <2>1 DEF NamesIn, ToSet
  <2> QED
    BY <2>2 DEF ToCome
<1>3. MadePairs = AllPairs
  BY <1>1, <1>2 DEF PairsInv
<1>4. ASSUME NEW i \in 1..Len(cfgs), NEW j \in 1..Len(cfgs)
      PROVE  /\ cfgs[i].role = cfgs[j].role /\ cfgs[i].name = cfgs[j].name => i = j
             /\ rolePath(cfgs[i].role) = rolePath(cfgs[j].role) /\ cfgs[i].name = cfgs[j].name
                  => cfgs[i].spec = cfgs[j].spec
  <2>1. cfgs[i].role = cfgs[j].role /\ cfgs[i].name = cfgs[j].name => i = j
    BY <1>1 DEF CfgsInv, Pair
  <2>2. ASSUME rolePath(cfgs[i].role) = rolePath(cfgs[j].role), cfgs[i].name = cfgs[j].name
        PROVE  cfgs[i].spec = cfgs[j].spec
    <3>1. PICK t : TreeFor(cfgs[i].role, cfgs[i].name, t) /\ SpecOf(cfgs[i].spec, t)
      BY <1>1 DEF CfgsInv, MadeFor
    <3>2. PICK u : TreeFor(cfgs[j].role, cfgs[i].name, u) /\ SpecOf(cfgs[j].spec, u)
      BY <1>1, <2>2 DEF CfgsInv, MadeFor
    <3>3. t = u
      BY <1>1, <2>2, <3>1, <3>2, OneTree
    <3> QED
      BY <3>1, <3>2, <3>3, OneSpec
  <2> QED
    BY <2>1, <2>2
<1>5. ASSUME NEW r \in RoleDirs
      PROVE  {cfg.name : cfg \in {c \in ToSet(cfgs) : c.role = r}}
               = UNION {{e.name : e \in {f \in ToSet(list) : f.isDir}} : list \in Listings(r)}
  <2>1. ToSet(cfgs) = {cfgs[i] : i \in 1..Len(cfgs)}
    BY <1>1 DEF CfgsInv, ToSet
  <2>2. r \in NamesIn(dir.entries)
    BY DEF RoleDirs, NamesIn
  <2>3. ASSUME NEW n
        PROVE  <<r, n>> \in AllPairs <=> n \in UNION {NamesIn(list) : list \in Listings(r)}
    BY <2>2 DEF AllPairs, PairsFor
  <2>4. ASSUME NEW n
        PROVE  <<r, n>> \in MadePairs
                 <=> n \in {cfg.name : cfg \in {c \in ToSet(cfgs) : c.role = r}}
    BY <2>1 DEF MadePairs, Pair
  <2>5. {cfg.name : cfg \in {c \in ToSet(cfgs) : c.role = r}}
          = UNION {NamesIn(list) : list \in Listings(r)}
    BY <1>3, <2>3, <2>4
  <2> QED
    BY <2>5 DEF NamesIn
<1> QED
  BY <1>4, <1>5 DEF RolesShareTemplates

-----------------------------------------------------------------------------
(* The loops step by step. *)

\* What the primed lists have.
LEMMA NextLists ==
  /\ NamesIn(roles)' = NamesIn(roles') /\ NamesIn(names)' = NamesIn(names')
  /\ Listing(roles)' = Listing(roles') /\ Listing(names)' = Listing(names')
<1>1. NamesIn(roles)' = NamesIn(roles')
  BY DEF NamesIn
<1>2. NamesIn(names)' = NamesIn(names')
  BY DEF NamesIn
<1>3. Listing(roles)' = Listing(roles')
  BY DEF Listing, DistinctNames
<1>4. Listing(names)' = Listing(names')
  BY DEF Listing, DistinctNames
<1> QED
  BY <1>1, <1>2, <1>3, <1>4

\* The template directory stays, and with it what the roles need.
LEMMA SameDir ==
  ASSUME dir' = dir
  PROVE  /\ \A r : Listings(r)' = Listings(r) /\ PairsFor(r)' = PairsFor(r)
         /\ AllPairs' = AllPairs
         /\ \A r, n, t : TreeFor(r, n, t) => TreeFor(r, n, t)'
         /\ DirInv => DirInv'
<1>1. \A r : Listings(r)' = Listings(r)
  BY DEF Listings
<1>2. \A r : PairsFor(r)' = PairsFor(r)
  BY <1>1 DEF PairsFor
<1>3. AllPairs' = AllPairs
  BY <1>2 DEF AllPairs
<1>4. \A r, n, t : TreeFor(r, n, t) => TreeFor(r, n, t)'
  BY <1>1 DEF TreeFor
<1> QED
  BY <1>1, <1>2, <1>3, <1>4 DEF DirInv

\* A MachineConfig stays what its tree makes.
LEMMA SameMadeFor ==
  ASSUME dir' = dir, config' = config, NEW cfg, MadeFor(cfg)
  PROVE  MadeFor(cfg)'
<1>1. PICK t : TreeFor(cfg.role, cfg.name, t) /\ SpecOf(cfg.spec, t)
  BY DEF MadeFor
<1>2. TreeFor(cfg.role, cfg.name, t)'
  BY <1>1, SameDir
<1>3. SpecOf(cfg.spec, t)'
  BY <1>1, SameSpecOf
<1> QED
  BY <1>2, <1>3 DEF MadeFor

\* No MachineConfig is added.
LEMMA SameCfgs ==
  ASSUME dir' = dir, config' = config, cfgs' = cfgs, CfgsInv
  PROVE  CfgsInv' /\ MadePairs' = MadePairs
<1>1. ASSUME NEW i \in 1..Len(cfgs) PROVE MadeFor(cfgs[i])'
  <2>1. PICK cfg : cfg = cfgs[i]
    OBVIOUS
  <2>2. MadeFor(cfg)
    BY <2>1 DEF CfgsInv
  <2>3. MadeFor(cfg)'
    BY <2>2, SameMadeFor
  <2>4. cfg = cfgs'[i]
    BY <2>1
  <2> QED
    BY <2>3, <2>4 DEF MadeFor
<1> QED
  BY <1>1 DEF CfgsInv, MadePairs

\* The same ones are still to come.
LEMMA SamePairs ==
  ASSUME dir' = dir, config' = config, cfgs' = cfgs, CfgsInv, PairsInv, ToCome' = ToCome
  PROVE  CfgsInv' /\ PairsInv'
BY SameCfgs, SameDir DEF PairsInv

\* A step inside a call leaves the loops where they are.
LEMMA CallGoesOn ==
  ASSUME RolesInv, loop \in {"one", "call"}, Next, UNCHANGED loops
  PROVE  RolesInv'
<1>1. /\ dir' = dir /\ roles' = roles /\ role' = role /\ names' = names /\ name' = name
      /\ cfgs' = cfgs /\ loop' = loop
  BY DEF loops
<1>2. tree' = tree /\ config' = config
  BY DEF Next, FindPlatformDirs, PlatformDirIsNoDir, EnterDir, SkipMissingDir, DirIsNoDir,
         EmptyTemplate, BlankTemplate, TextTemplate, Filtered, BrokenTemplate, ReadFails,
         StartTranspile, TranspileNext, TranspileFails, ReturnMachineConfig, input
<1>3. DirInv'
  BY <1>1, SameDir DEF RolesInv
<1>4. CASE loop = "one"
  BY <1>1, <1>3, <1>4 DEF RolesInv
<1>5. CASE loop = "call"
  <2>1. CfgsInv /\ PairsInv /\ RoleInv
    BY <1>5 DEF RolesInv
  <2>2. ToCome' = ToCome
    BY <1>1, SameDir DEF ToCome
  <2>3. RoleInv'
    <3>1. TreeFor(role, name, tree)'
      <4>1. PICK r, n, t : r = role /\ n = name /\ t = tree
        OBVIOUS
      <4>2. TreeFor(r, n, t)'
        BY <1>1, <1>5, <2>1, <4>1, SameDir DEF RoleInv
      <4> QED
        BY <1>1, <1>2, <4>1, <4>2 DEF TreeFor, Listings
    <3> QED
      BY <1>1, <1>5, <2>1, <3>1, SameDir DEF RoleInv
  <2>4. CfgsInv' /\ PairsInv'
    BY <1>1, <1>2, <2>1, <2>2, SamePairs
  <2> QED
    BY <1>1, <1>3, <2>3, <2>4 DEF RolesInv
<1> QED
  BY <1>4, <1>5

\* A file in a listing needs no MachineConfig.
LEMMA FileSkipped ==
  ASSUME RolesInv, SkipFile
  PROVE  RolesInv'
<1>1. /\ dir' = dir /\ role' = role /\ name' = name
      /\ cfgs' = cfgs /\ loop' = loop /\ config' = config
  BY DEF SkipFile, vars
<1>2. DirInv' /\ CfgsInv /\ PairsInv /\ RoleInv
  BY <1>1, SameDir DEF RolesInv, SkipFile
<1>3. CASE /\ loop = "roles" /\ roles # <<>> /\ ~roles[1].isDir
           /\ roles' = Tail(roles) /\ UNCHANGED names
  <2>1. Listing(roles') /\ NamesIn(roles') = NamesIn(roles)
    BY <1>2, <1>3, ListingGoesOn DEF RoleInv
  <2>2. ToCome' = ToCome
    BY <1>1, <1>3, <2>1, NextLists, SameDir DEF ToCome
  <2>3. CfgsInv' /\ PairsInv'
    BY <1>1, <1>2, <2>2, SamePairs
  <2>4. RoleInv'
    BY <1>1, <1>3, <2>1, NextLists DEF RoleInv
  <2> QED
    BY <1>1, <1>3, <1>2, <2>3, <2>4 DEF RolesInv
<1>4. CASE /\ loop = "names" /\ names # <<>> /\ ~names[1].isDir
           /\ names' = Tail(names) /\ UNCHANGED roles
  <2>1. /\ Listing(names) /\ role \notin NamesIn(roles) /\ Listing(roles)
        /\ \E list \in Listings(role) : ToSet(names) \subseteq ToSet(list)
    BY <1>2, <1>4 DEF RoleInv
  <2>2. /\ Listing(names') /\ NamesIn(names') = NamesIn(names)
        /\ ToSet(names') \subseteq ToSet(names)
    BY <1>4, <2>1, ListingGoesOn
  <2>3. ToCome' = ToCome
    BY <1>1, <1>4, <2>2, NextLists, SameDir DEF ToCome
  <2>4. CfgsInv' /\ PairsInv'
    BY <1>1, <1>2, <2>3, SamePairs
  <2>5. \E list \in Listings(role)' : ToSet(names') \subseteq ToSet(list)
    BY <1>1, <2>1, <2>2, SameDir DEF Listings
  <2>6. RoleInv'
    <3>1. Listing(names)' /\ Listing(roles)' /\ NamesIn(roles)' = NamesIn(roles)
      BY <1>4, <2>1, <2>2, NextLists
    <3> QED
      BY <1>1, <1>4, <2>1, <2>5, <3>1 DEF RoleInv
  <2> QED
    BY <1>1, <1>4, <1>2, <2>4, <2>6 DEF RolesInv
<1> QED
  BY <1>3, <1>4 DEF SkipFile

\* The names of the role's directory are to come.
LEMMA RoleEntered ==
  ASSUME RolesInv, EnterRole
  PROVE  RolesInv'
<1>1. /\ dir' = dir /\ name' = name /\ cfgs' = cfgs /\ config' = config
      /\ loop = "roles" /\ loop' = "names" /\ roles # <<>> /\ roles[1].isDir
      /\ names' \in Listings(roles[1].name) /\ role' = roles[1].name /\ roles' = Tail(roles)
  BY DEF EnterRole, vars
<1>2. DirInv /\ DirInv' /\ CfgsInv /\ PairsInv /\ Listing(roles)
  BY <1>1, SameDir DEF RolesInv, RoleInv
<1>3. PICK r, rest, list : r = roles[1].name /\ rest = Tail(roles) /\ list = names'
  OBVIOUS
<1>4. Listing(rest) /\ NamesIn(roles) = {r} \cup NamesIn(rest) /\ r \notin NamesIn(rest)
  BY <1>1, <1>2, <1>3, ListingGoesOn
<1>5. Listing(list) /\ Listings(r) = {list}
  BY <1>1, <1>2, <1>3, OneListing
<1>6. PairsFor(r) = {r} \X NamesIn(list)
  BY <1>5 DEF PairsFor
<1>7. ToCome' = ToCome
  <2>1. ToCome = UNION {PairsFor(q) : q \in NamesIn(roles)}
    BY <1>1 DEF ToCome
  <2>2. ToCome' = ({r} \X NamesIn(list)) \cup UNION {PairsFor(q) : q \in NamesIn(rest)}
    BY <1>1, <1>3, NextLists, SameDir DEF ToCome
  <2> QED
    BY <1>4, <1>6, <2>1, <2>2
<1>8. CfgsInv' /\ PairsInv'
  BY <1>1, <1>2, <1>7, SamePairs
<1>9. RoleInv'
  <2>1. roles' = rest /\ names' = list /\ role' = r /\ loop' = "names"
    BY <1>1, <1>3
  <2>2. list \in Listings(r)'
    BY <1>1, <1>5, SameDir
  <2>3. list \in Listings(role)'
    BY <2>1, <2>2 DEF Listings
  <2> QED
    BY <1>4, <1>5, <2>1, <2>3, NextLists DEF RoleInv
<1> QED
  BY <1>1, <1>2, <1>8, <1>9 DEF RolesInv

\* The call is for the first name that was to come.
LEMMA NameCalled ==
  ASSUME RolesInv, CallForName
  PROVE  RolesInv'
<1>1. /\ dir' = dir /\ cfgs' = cfgs /\ config' = config /\ roles' = roles /\ role' = role
      /\ loop = "names" /\ loop' = "call" /\ names # <<>> /\ names[1].isDir
      /\ names' = Tail(names) /\ name' = names[1].name
      /\ tree' = [common |-> dir.common, role |-> names[1].base]
  BY DEF CallForName
<1>2. DirInv' /\ CfgsInv /\ PairsInv /\ RoleInv
  BY <1>1, SameDir DEF RolesInv
<1>3. /\ Listing(names) /\ role \notin NamesIn(roles) /\ Listing(roles)
      /\ \E list \in Listings(role) : ToSet(names) \subseteq ToSet(list)
  BY <1>1, <1>2 DEF RoleInv
<1>4. PICK e, rest : e = names[1] /\ rest = Tail(names)
  OBVIOUS
<1>5. /\ Listing(rest)
      /\ NamesIn(names) = {e.name} \cup NamesIn(rest) /\ e.name \notin NamesIn(rest)
      /\ e \in ToSet(names) /\ ToSet(rest) \subseteq ToSet(names)
  BY <1>1, <1>3, <1>4, ListingGoesOn
<1>6. PICK list \in Listings(role) : ToSet(names) \subseteq ToSet(list)
  BY <1>3
<1>7. ToCome' = ToCome
  <2>1. ToCome = ({role} \X NamesIn(names)) \cup UNION {PairsFor(q) : q \in NamesIn(roles)}
    BY <1>1 DEF ToCome
  <2>2. ToCome' = {<<role, e.name>>} \cup ({role} \X NamesIn(rest))
                   \cup UNION {PairsFor(q) : q \in NamesIn(roles)}
    BY <1>1, <1>4, NextLists, SameDir DEF ToCome
  <2> QED
    BY <1>5, <2>1, <2>2
<1>8. CfgsInv' /\ PairsInv'
  BY <1>1, <1>2, <1>7, SamePairs
<1>9. RoleInv'
  <2>1. /\ names' = rest /\ name' = e.name /\ e.isDir
        /\ tree' = [common |-> dir.common, role |-> e.base]
    BY <1>1, <1>4
  <2>2. list \in Listings(role)'
    BY <1>1, <1>6, SameDir DEF Listings
  <2>3. e \in ToSet(list) /\ ToSet(rest) \subseteq ToSet(list)
    BY <1>5, <1>6
  <2>4. TreeFor(role, name, tree)'
    BY <1>1, <2>1, <2>2, <2>3 DEF TreeFor
  <2> QED
    BY <1>1, <1>3, <1>5, <2>1, <2>2, <2>3, <2>4, NextLists DEF RoleInv
<1> QED
  BY <1>1, <1>2, <1>8, <1>9 DEF RolesInv

\* The MachineConfig of the call is made, of the tree of the call.
LEMMA NameReturned ==
  ASSUME RolesInv, CallMadeInv, NameReturns
  PROVE  RolesInv'
<1>1. /\ dir' = dir /\ config' = config /\ roles' = roles /\ role' = role /\ names' = names
      /\ loop = "call" /\ loop' = "names" /\ result.outcome = "ok"
      /\ cfgs' = Append(cfgs, [role |-> role, name |-> name, spec |-> result])
  BY DEF NameReturns, vars
<1>2. DirInv' /\ CfgsInv /\ PairsInv /\ RoleInv
  BY <1>1, SameDir DEF RolesInv
<1>3. /\ Listing(names) /\ role \notin NamesIn(roles) /\ Listing(roles)
      /\ \E list \in Listings(role) : ToSet(names) \subseteq ToSet(list)
      /\ name \notin NamesIn(names) /\ TreeFor(role, name, tree)
  BY <1>1, <1>2 DEF RoleInv
<1>4. PICK cfg, more, made : /\ cfg = [role |-> role, name |-> name, spec |-> result]
                             /\ made = cfgs /\ more = cfgs'
  OBVIOUS
<1>5. PICK N \in Nat : N = Len(made)
  BY <1>2, <1>4 DEF CfgsInv
<1>6. /\ Len(more) = N + 1 /\ more[N + 1] = cfg /\ \A i \in 1..N : more[i] = made[i]
      /\ more \in Seq({more[i] : i \in 1..(N + 1)})
  <2>1. PICK S : S = {made[i] : i \in 1..Len(made)} \cup {cfg}
    OBVIOUS
  <2>2. made \in Seq(S)
    BY <1>2, <1>4, <2>1 DEF CfgsInv
  <2>3. cfg \in S /\ more = Append(made, cfg)
    BY <1>1, <1>4, <2>1
  <2>4. /\ more \in Seq(S) /\ Len(more) = N + 1 /\ more[N + 1] = cfg
        /\ \A i \in 1..N : more[i] = made[i]
    BY ONLY <1>5, <2>2, <2>3, N \in Nat
  <2>5. more \in Seq(ToSet(more)) /\ DOMAIN more = 1..(N + 1)
    BY <2>4, ElementsOfSeq
  <2> QED
    BY <2>4, <2>5 DEF ToSet
<1>7. Pair(cfg) = <<role, name>> /\ cfg.role = role /\ cfg.name = name /\ cfg.spec = result
  BY <1>4 DEF Pair
<1>8. MadePairs' = MadePairs \cup {<<role, name>>}
  <2>1. 1..(N + 1) = (1..N) \cup {N + 1}
    BY <1>5
  <2>2. /\ MadePairs' = {Pair(more[i]) : i \in 1..(N + 1)}
        /\ MadePairs = {Pair(made[i]) : i \in 1..N}
    BY <1>4, <1>5, <1>6 DEF MadePairs
  <2> QED
    BY <1>6, <1>7, <2>1, <2>2
<1>9. ToCome = ToCome' \cup {<<role, name>>} /\ <<role, name>> \notin ToCome'
  <2>1. ToCome = {<<role, name>>} \cup ({role} \X NamesIn(names))
                  \cup UNION {PairsFor(q) : q \in NamesIn(roles)}
    BY <1>1 DEF ToCome
  <2>2. ToCome' = ({role} \X NamesIn(names)) \cup UNION {PairsFor(q) : q \in NamesIn(roles)}
    BY <1>1, SameDir DEF ToCome
  <2>3. <<role, name>> \notin {role} \X NamesIn(names)
    BY <1>3
  <2>4. <<role, name>> \notin UNION {PairsFor(q) : q \in NamesIn(roles)}
    BY <1>3 DEF PairsFor
  <2> QED
    BY <2>1, <2>2, <2>3, <2>4
<1>10. PairsInv'
  <2>1. AllPairs' = AllPairs
    BY <1>1, SameDir
  <2> QED
    BY <1>2, <1>8, <1>9, <2>1 DEF PairsInv
<1>11. CfgsInv'
  <2>1. ASSUME NEW i \in 1..(N + 1), NEW j \in 1..(N + 1), Pair(more[i]) = Pair(more[j])
        PROVE  i = j
    <3>1. \A m \in 1..N : Pair(made[m]) # <<role, name>>
      <4>1. <<role, name>> \notin MadePairs
        BY <1>2, <1>9 DEF PairsInv
      <4> QED
        BY <1>4, <1>5, <4>1 DEF MadePairs
    <3>2. \A m \in 1..(N + 1) : m \in 1..N \/ m = N + 1
      OBVIOUS
    <3>3. \A l, m \in 1..N : Pair(made[l]) = Pair(made[m]) => l = m
      BY <1>2, <1>4, <1>5 DEF CfgsInv
    <3> QED
      BY <1>6, <1>7, <2>1, <3>1, <3>2, <3>3
  <2>2. ASSUME NEW i \in 1..(N + 1) PROVE MadeFor(more[i])'
    <3>1. CASE i \in 1..N
      <4>1. PICK c : c = made[i]
        OBVIOUS
      <4>2. MadeFor(c)
        BY <1>2, <1>4, <1>5, <3>1, <4>1 DEF CfgsInv
      <4>3. MadeFor(c)'
        BY <1>1, <4>2, SameMadeFor
      <4> QED
        BY <1>6, <3>1, <4>1, <4>3
    <3>2. CASE i = N + 1
      <4>1. SpecOf(result, tree)
        BY <1>1 DEF CallMadeInv
      <4>2. MadeFor(cfg)
        BY <1>3, <1>7, <4>1 DEF MadeFor
      <4>3. MadeFor(cfg)'
        BY <1>1, <4>2, SameMadeFor
      <4> QED
        BY <1>6, <3>2, <4>3
    <3> QED
      BY <3>1, <3>2
  <2>3. ASSUME NEW i \in 1..(N + 1) PROVE MadeFor(cfgs[i])'
    BY <1>4, <2>2 DEF MadeFor
  <2> QED
    BY <1>4, <1>5, <1>6, <2>1, <2>3 DEF CfgsInv
<1>12. RoleInv'
  <2>1. \E list \in Listings(role)' : ToSet(names) \subseteq ToSet(list)
    BY <1>1, <1>3, SameDir DEF Listings
  <2> QED
    BY <1>1, <1>3, <2>1, NextLists DEF RoleInv
<1> QED
  BY <1>1, <1>2, <1>10, <1>11, <1>12 DEF RolesInv

\* Nothing of the role is to come.
LEMMA RoleReturned ==
  ASSUME RolesInv, RoleReturns
  PROVE  RolesInv'
<1>1. /\ dir' = dir /\ config' = config /\ roles' = roles /\ role' = role /\ names' = names
      /\ cfgs' = cfgs /\ loop = "names" /\ loop' = "roles" /\ names = <<>>
  BY DEF RoleReturns, vars
<1>2. DirInv' /\ CfgsInv /\ PairsInv /\ RoleInv
  BY <1>1, SameDir DEF RolesInv
<1>3. ToCome' = ToCome
  <2>1. NamesIn(names) = {}
    BY <1>1 DEF NamesIn, ToSet
  <2>2. ToCome = UNION {PairsFor(q) : q \in NamesIn(roles)}
    BY <1>1, <2>1 DEF ToCome
  <2>3. ToCome' = UNION {PairsFor(q) : q \in NamesIn(roles)}
    BY <1>1, SameDir DEF ToCome
  <2> QED
    BY <2>2, <2>3
<1>4. CfgsInv' /\ PairsInv'
  BY <1>1, <1>2, <1>3, SamePairs
<1>5. RoleInv'
  BY <1>1, <1>2 DEF RoleInv, Listing, DistinctNames
<1> QED
  BY <1>1, <1>2, <1>4, <1>5 DEF RolesInv

\* Nothing of any role is to come.
LEMMA LoopReturned ==
  ASSUME RolesInv, LoopReturns
  PROVE  RolesInv'
<1>1. /\ dir' = dir /\ config' = config /\ roles' = roles /\ role' = role /\ names' = names
      /\ cfgs' = cfgs /\ loop = "roles" /\ loop' = "done" /\ roles = <<>>
  BY DEF LoopReturns, vars
<1>2. DirInv' /\ CfgsInv /\ PairsInv /\ RoleInv
  BY <1>1, SameDir DEF RolesInv
<1>3. ToCome' = ToCome
  BY <1>1, SameDir DEF ToCome
<1>4. CfgsInv' /\ PairsInv'
  BY <1>1, <1>2, <1>3, SamePairs
<1>5. RoleInv'
  BY <1>1, <1>2 DEF RoleInv, Listing, DistinctNames
<1> QED
  BY <1>1, <1>2, <1>4, <1>5 DEF RolesInv

\* Nothing happens.
LEMMA LoopStutters ==
  ASSUME RolesInv, UNCHANGED allVars
  PROVE  RolesInv'
<1>1. /\ dir' = dir /\ config' = config /\ tree' = tree /\ roles' = roles /\ role' = role
      /\ names' = names /\ name' = name /\ cfgs' = cfgs /\ loop' = loop
  BY DEF allVars, vars, loops
<1>2. DirInv'
  BY <1>1, SameDir DEF RolesInv
<1>3. ASSUME CfgsInv, PairsInv, RoleInv PROVE CfgsInv' /\ PairsInv' /\ RoleInv'
  <2>1. ToCome' = ToCome
    BY <1>1, SameDir DEF ToCome
  <2>2. \A r, n, t : TreeFor(r, n, t) => TreeFor(r, n, t)'
    BY <1>1, SameDir
  <2>3. TreeFor(role, name, tree) => TreeFor(role, name, tree)'
    BY <1>1 DEF TreeFor, Listings
  <2>4. RoleInv'
    BY <1>1, <1>3, <2>3, SameDir DEF RoleInv, Listings, Listing, DistinctNames
  <2> QED
    BY <1>1, <1>3, <2>1, <2>4, SamePairs
<1> QED
  BY <1>1, <1>2, <1>3 DEF RolesInv

\* Nothing is made, and everything is to come.
LEMMA RolesInit == LoopInit => RolesInv
<1> SUFFICES ASSUME LoopInit PROVE RolesInv
  OBVIOUS
<1>1. CASE OneCall
  <2>1. dir.entries = <<>> /\ loop = "one"
    BY <1>1 DEF OneCall
  <2>2. DirInv
    BY <2>1 DEF DirInv, Listing, DistinctNames, ToSet
  <2> QED
    BY <2>1, <2>2 DEF RolesInv
<1>2. CASE AllRoles
  <2>1. roles = dir.entries /\ loop = "roles" /\ dir \in TemplateDirs /\ cfgs = <<>>
    BY <1>2 DEF AllRoles, LoopInit
  <2>2. DirInv
    BY <2>1, TemplateDirsAssumption DEF TemplateDirsAssumption, DirInv, Listing
  <2>3. CfgsInv /\ MadePairs = {}
    BY <2>1 DEF CfgsInv, MadePairs
  <2>4. ToCome = AllPairs
    BY <2>1 DEF ToCome, AllPairs
  <2>5. PairsInv
    BY <2>3, <2>4 DEF PairsInv
  <2>6. RoleInv
    BY <2>1, <2>2 DEF RoleInv, DirInv
  <2> QED
    BY <2>1, <2>2, <2>3, <2>5, <2>6 DEF RolesInv
<1> QED
  BY <1>1, <1>2 DEF LoopInit

\* Every step of the loops and of their calls keeps RolesInv.
LEMMA RolesNext == CallMadeInv /\ RolesInv /\ [LoopNext]_allVars => RolesInv'
<1> SUFFICES ASSUME CallMadeInv, RolesInv, [LoopNext]_allVars PROVE RolesInv'
  OBVIOUS
<1>1. CASE loop \in {"one", "call"} /\ Next /\ UNCHANGED loops
  BY <1>1, CallGoesOn
<1>2. CASE SkipFile
  BY <1>2, FileSkipped
<1>3. CASE EnterRole
  BY <1>3, RoleEntered
<1>4. CASE CallForName
  BY <1>4, NameCalled
<1>5. CASE NameReturns
  BY <1>5, NameReturned
<1>6. CASE RoleReturns
  BY <1>6, RoleReturned
<1>7. CASE LoopReturns
  BY <1>7, LoopReturned
<1>8. CASE DirIsUnreadable \/ NameFails
  <2>1. dir' = dir /\ loop' = "failed" /\ cfgs' = <<>>
    BY <1>8 DEF DirIsUnreadable, NameFails, Fail
  <2> QED
    BY <2>1, SameDir DEF RolesInv
<1>9. CASE UNCHANGED allVars
  BY <1>9, LoopStutters
<1> QED
  BY <1>1, <1>2, <1>3, <1>4, <1>5, <1>6, <1>7, <1>8, <1>9 DEF LoopNext

\* Every call of the loops starts afresh.
LEMMA CallMadeLoop == LoopInv /\ CallMadeInv /\ [LoopNext]_allVars => CallMadeInv'
<1> SUFFICES ASSUME LoopInv, CallMadeInv, [LoopNext]_allVars PROVE CallMadeInv'
  OBVIOUS
<1>1. RenderInv
  BY DEF LoopInv
<1>2. CASE Next
  BY <1>1, <1>2, CallMadeNext
<1>3. CASE UNCHANGED vars
  BY <1>3, SameMade
<1>4. CASE CallForName
  <2>1. Fresh'
    BY <1>4 DEF CallForName, Fresh
  <2>2. Fresh' => CallMadeInv'
    BY FreshMade, PTL
  <2> QED
    BY <2>1, <2>2
<1> QED
  BY <1>2, <1>3, <1>4
  DEF LoopNext, SkipFile, EnterRole, DirIsUnreadable, NameReturns, NameFails, RoleReturns,
      LoopReturns, allVars

\* One MachineConfig comes of every role and name, or none at all where one fails,
\* and roles that use one directory get the same, for every template directory whose listings have a name once: a
\* call is determined by its tree (OneSpec), the trees by the names (OneTree), and
\* no pair of a role and a name is lost or made twice on the way (PairsInv).
THEOREM RolesAlwaysShare == LoopSpec => []RolesShareTemplates
<1>1. LoopInit => CallMadeInv
  BY FreshMade DEF LoopInit, OneCall, AllRoles, Init
<1>2. RolesInv => RolesShareTemplates
  BY RolesDone
<1> QED
  BY <1>1, <1>2, LoopInitInv, LoopNextInv, CallMadeLoop, RolesInit, RolesNext, PTL DEF LoopSpec

=============================================================================
