----------------------------- MODULE Dashboard -----------------------------
(***************************************************************************)
(* Which assessment of a framework the dashboard shows: the assessments    *)
(* that are not archived are gone through from the newest to the oldest,   *)
(* and each is compared with the one kept so far.                          *)
(***************************************************************************)
EXTENDS Naturals, Sequences, SequencesExt

NothingYet == [id |-> 0]

\* An approved one is preferred, and a better score among the equally approved.
Replaces(a, kept) ==
  \/ kept = NothingYet
  \/ a.approved /\ ~kept.approved
  \/ a.approved = kept.approved /\ a.score > kept.score

\* assessments: those of one framework name, newest first.
Shown(assessments) ==
  FoldLeft(LAMBDA kept, a : IF Replaces(a, kept) THEN a ELSE kept, NothingYet, assessments)

-----------------------------------------------------------------------------
\* What the loop amounts to: among the approved, or among all if none is, the
\* newest of those with the best score; it is not "latest approved assessment
\* per framework", as the description of the endpoint has it.
BestIsShown(assessments) ==
  LET approved == {i \in DOMAIN assessments : assessments[i].approved}
      eligible == IF approved # {} THEN approved ELSE DOMAIN assessments
      best == {i \in eligible : \A j \in eligible : assessments[i].score >= assessments[j].score}
  IN assessments # <<>> =>
       Shown(assessments) = assessments[CHOOSE i \in best : \A j \in best : i <= j]
=============================================================================
