------------------------------ MODULE MCGrants ------------------------------
(***************************************************************************)
(* Instances of AccessGrants for TLC.                                      *)
(***************************************************************************)
EXTENDS AccessGrants, TLC

Symmetry ==
  Permutations(Workers) \cup Permutations(Shares) \cup Permutations(Tokens)
    \cup Permutations(Invites)
=============================================================================
