----------------------------- MODULE SelectorText -----------------------------
(***************************************************************************)
(* The grammar that parseLabelSelector stands for, on the text of a        *)
(* machineConfigPoolSelector: typed token by token, it takes every text of *)
(* up to MaxLen tokens.                                                    *)
(***************************************************************************)
EXTENDS LabelSelector

CONSTANTS
  Words,    \* the words a text may hold
  MaxLen    \* bounds the text

VARIABLE text    \* machineConfigPoolSelector

Tokens == {Colon, Space} \cup Words

TextInit == text = <<>>

TypeToken ==
  /\ Len(text) < MaxLen
  /\ \E token \in Tokens : text' = Append(text, token)

TextSpec == TextInit /\ [][TypeToken]_text

-----------------------------------------------------------------------------
Blanks(n)            == [i \in 1..n |-> Space]
Padded(a, part, b)   == Blanks(a) \o part \o Blanks(b)
Trimmed(part)        == part = <<>> \/ (part[1] # Space /\ part[Len(part)] # Space)
Parts                == {SubSeq(text, i, j) : i \in 1..Len(text), j \in 0..Len(text)}

\* text reads key:value, with blanks thrown in anywhere around the two parts, and
\* the key is not blank and holds no colon.
Reads(key, value) ==
  /\ key # <<>> /\ Positions(key, Colon) = {}
  /\ Trimmed(key) /\ Trimmed(value)
  /\ \E a, b, c, d \in 0..Len(text) :
       text = Padded(a, key, b) \o <<Colon>> \o Padded(c, value, d)

\* The labels the text can be read as.
Labels ==
  {label \in [ok : {TRUE}, key : Parts, value : Parts] : Reads(label.key, label.value)}

\* A selector is accepted exactly when it can be read as key:value with a key
\* that is not blank and holds no colon, and then it means just that: the
\* value is whatever follows the first colon, further colons included.
ParsesAsKeyValue ==
  LET label == parseLabelSelector(text)
  IN  Labels = (IF label.ok THEN {label} ELSE {})

=============================================================================
