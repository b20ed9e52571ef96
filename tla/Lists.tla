-------------------------------- MODULE Lists --------------------------------
(***************************************************************************)
(* What loops over a list compute.  As folds, and with a set for the       *)
(* condition, they can be reasoned about; SelectSeq and SortSeq cannot.    *)
(***************************************************************************)
EXTENDS Integers, Sequences, SequencesExt, FiniteSets

\* The elements of s that are in S, in their order.
Kept(s, S) == FoldLeft(LAMBDA kept, e : IF e \in S THEN Append(kept, e) ELSE kept, <<>>, s)

SumOf(s) == FoldLeft(LAMBDA sum, e : sum + e, 0, s)

\* What a sorted copy of s has at its k-th place.
Smallest(s, k) ==
  CHOOSE v \in ToSet(s) :
    /\ Cardinality({i \in DOMAIN s : s[i] < v}) < k
    /\ k <= Cardinality({i \in DOMAIN s : s[i] <= v})
=============================================================================
