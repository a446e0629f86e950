----------------------------- MODULE DistinctSeqs -----------------------------
(* Sequences used as ordered sets: what they hold, that nothing is in them *)
(* twice, and what is left of them.                                        *)
EXTENDS Integers, Sequences

Holds(s, e) == \E i \in 1..Len(s) : s[i] = e
Distinct(s) == \A i, j \in 1..Len(s) : s[i] = s[j] => i = j

\* What is left, in its order, when everything of a set is taken out.
Without(s, gone) ==
  LET left[i \in 0..Len(s)] ==
        IF i = 0 THEN <<>>
        ELSE IF s[i] \in gone THEN left[i - 1] ELSE Append(left[i - 1], s[i])
  IN  left[Len(s)]
=============================================================================
