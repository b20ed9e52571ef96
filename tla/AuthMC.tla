-------------------------------- MODULE AuthMC --------------------------------
(***************************************************************************)
(* Small instances of Auth for TLC.                                        *)
(***************************************************************************)
EXTENDS AuthRefinement, TLC

\* Request slots, ids, tokens, names and addresses are interchangeable.
Symmetry ==
  Permutations(Requests) \cup Permutations(UserIds) \cup Permutations(Tokens)
    \cup Permutations(Names) \cup Permutations(Emails)
=============================================================================
