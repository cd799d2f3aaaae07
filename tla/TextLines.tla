----------------------------- MODULE TextLines ------------------------------
(***************************************************************************)
(* Texts and the two ways the file tools cut one into lines.  A text is a  *)
(* sequence of characters, of which only a few kinds matter:               *)
(*   q    part of what is searched for                                     *)
(*   o    any other character of a line                                    *)
(*   nl   a newline (text mode reads \r and \r\n as one, too)              *)
(*   ff   a form feed, or another of the breaks known to splitlines alone  *)
(*   nul  a null byte                                                      *)
(***************************************************************************)
EXTENDS Naturals, Sequences, FiniteSets

Chars == {"q", "o", "nl", "ff", "nul"}
Texts == Seq(Chars)

SplitBreaks == {"nl", "ff"}  \* str.splitlines()
IterBreaks  == {"nl"}        \* iterating over a file

Breaks(t, S) == {i \in DOMAIN t : t[i] \in S}

(* How many breaks there are up to b.                                      *)
Rank(t, S, b) == Cardinality({c \in Breaks(t, S) : c <= b})

(* Line k ends at the break number k, or with the text.                    *)
EndOf(t, S, k) ==
  IF k > Cardinality(Breaks(t, S)) THEN Len(t) + 1
  ELSE CHOOSE b \in Breaks(t, S) : Rank(t, S, b) = k

(* It starts after the break that ends line k - 1.                         *)
StartOf(t, S, k) == IF k = 1 THEN 1 ELSE EndOf(t, S, k - 1) + 1

(* Text after the last break is a line that is still being written.        *)
Unended(t, S) == t # <<>> /\ t[Len(t)] \notin S
LineCount(t, S) == Cardinality(Breaks(t, S)) + (IF Unended(t, S) THEN 1 ELSE 0)

LinesOf(t, S) ==
  [k \in 1..LineCount(t, S) |-> SubSeq(t, StartOf(t, S, k), EndOf(t, S, k) - 1)]

(* normalized_query in line.lower(), or pattern.search(line)               *)
Hit(line) == \E i \in DOMAIN line : line[i] = "q"

=============================================================================
