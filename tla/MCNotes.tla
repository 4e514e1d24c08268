------------------------------ MODULE MCNotes ------------------------------
(***************************************************************************)
(* Instances of ControlNotes for TLC.  One of several overrides, and one   *)
(* of several reviews, are as good as another.                             *)
(***************************************************************************)
EXTENDS ControlNotes, TLC

TwoOverrides == {"covered", "partial"}
TwoReviews == {"not_reviewed", "approved"}

Symmetry == Permutations(Workers) \cup Permutations(Controls)
=============================================================================
