------------------------------- MODULE MCGroups --------------------------------
(***************************************************************************)
(* Two spellings of one name, another name, and a derived one; for the run *)
(* on case folding, also a pair that strings.EqualFold takes for the same  *)
(* and strings.ToLower does not change ("s" and the long s).               *)
(***************************************************************************)
EXTENDS Groups, TLC

CONSTANTS prod, Prod, dev, os_fedora, s, long_s

AsciiNames == {prod, Prod, dev, os_fedora}
AsciiLower == [n \in AsciiNames |-> IF n = Prod THEN prod ELSE n]

FoldNames == {s, long_s}
FoldLower == [n \in FoldNames |-> n]
FoldFolded == [n \in FoldNames |-> s]

Symmetry == Permutations(Systems) \cup Permutations(Clients)
=============================================================================
