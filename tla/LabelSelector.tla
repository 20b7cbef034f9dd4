---------------------------- MODULE LabelSelector ----------------------------
(***************************************************************************)
(* parseLabelSelector of internal/controller/nodeswap_controller.go: how   *)
(* the text of spec.machineConfigPoolSelector becomes a label.             *)
(*                                                                         *)
(* A selector is a sequence of tokens: Colon, Space and words.  Which      *)
(* letters make up a word is left out; where the first colon is, and which *)
(* blanks surround the two parts, is what the parser looks at.             *)
(***************************************************************************)
EXTENDS Integers, Sequences, FiniteSetsExt

Colon == ":"
Space == " "

Positions(text, token) == {i \in 1..Len(text) : text[i] = token}

\* strings.TrimSpace: the blanks at both ends go, the ones inside stay.
TrimSpace(text) ==
  LET solid == (1..Len(text)) \ Positions(text, Space)
  IN  IF solid = {} THEN <<>> ELSE SubSeq(text, Min(solid), Max(solid))

ParseError == [ok |-> FALSE, key |-> <<>>, value |-> <<>>]

\* Mutant: split at the last colon.
SplitsAtLastColon(selector) ==
  LET colons == Positions(selector, Colon)
      key    == TrimSpace(SubSeq(selector, 1, Max(colons) - 1))
      value  == TrimSpace(SubSeq(selector, Max(colons) + 1, Len(selector)))
  IN  IF colons = {} \/ key = <<>>
      THEN ParseError
      ELSE [ok |-> TRUE, key |-> key, value |-> value]

\* Splits at the first colon only, so the value may hold further colons.
\* The empty text and a text without a colon are the same refusal.
parseLabelSelector(selector) ==
  LET colons == Positions(selector, Colon)
      key    == TrimSpace(SubSeq(selector, 1, Min(colons) - 1))
      value  == TrimSpace(SubSeq(selector, Min(colons) + 1, Len(selector)))
  IN  IF colons = {} \/ key = <<>>
      THEN ParseError
      ELSE [ok |-> TRUE, key |-> key, value |-> value]

=============================================================================
