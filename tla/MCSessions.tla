----------------------------- MODULE MCSessions -----------------------------
(***************************************************************************)
(* Instances of AccountSessions for TLC.                                   *)
(***************************************************************************)
EXTENDS AccountSessions, TLC

Symmetry ==
  Permutations(Admins) \cup Permutations(Clients) \cup Permutations(Sessions)
=============================================================================
