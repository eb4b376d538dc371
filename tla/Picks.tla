-------------------------------- MODULE Picks --------------------------------
(***************************************************************************)
(* What a filter keeps of a sequence, by the indexes it keeps: SelectSeq   *)
(* without an operator as its argument, so that it can be reasoned about.  *)
(***************************************************************************)
EXTENDS Integers, FiniteSets, Sequences

\* The place of i among the indexes I.
Rank(I, i) == Cardinality({j \in I : j <= i})

\* The elements of s at the indexes I, in the order of s.
Picked(s, I) == [r \in 1..Cardinality(I) |-> s[CHOOSE i \in I : Rank(I, i) = r]]
=============================================================================
