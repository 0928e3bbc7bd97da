-------------------------------- MODULE Filter --------------------------------
(***************************************************************************)
(* The elements of a sequence that belong to a set, in their order.  It is *)
(* SelectSeq with the test given as a set, and the recursion written as a  *)
(* function, so that it can be reasoned about.                             *)
(***************************************************************************)
EXTENDS Integers, Sequences

\* Entry i is what the first i elements of s leave.
KeptUpTo(s, K) ==
  LET kept[i \in 0..Len(s)] ==
        IF i = 0 THEN <<>>
        ELSE IF s[i] \in K THEN Append(kept[i - 1], s[i]) ELSE kept[i - 1]
  IN  kept

Kept(s, K) == KeptUpTo(s, K)[Len(s)]
=============================================================================
