------------------------------- MODULE AlertsMC -------------------------------
(***************************************************************************)
(* Small instances of Alerts for TLC: evaluations, pools and channels are  *)
(* interchangeable.                                                        *)
(***************************************************************************)
EXTENDS Alerts, TLC

Symmetry ==
  Permutations(Evaluations) \cup Permutations(Pools) \cup Permutations(Channels)
=============================================================================
