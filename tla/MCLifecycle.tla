---------------------------- MODULE MCLifecycle ----------------------------
(***************************************************************************)
(* Instances of AssessmentLifecycle for TLC, and of Dashboard, which       *)
(* chooses among assessments.  Workers, users and assessments are model    *)
(* values that no action tells apart, so all three are symmetric.          *)
(***************************************************************************)
EXTENDS AssessmentLifecycle, TLC

D == INSTANCE Dashboard

AdminAndContributor == {"admin", "contributor"}

\* Up to four assessments of one framework, with three scores.
Histories == UNION {[1..n -> [approved : BOOLEAN, score : 0..2]] : n \in 0..4}

ASSUME DashboardAssumption ==
  \A h \in Histories :
    D!BestIsShown([i \in DOMAIN h |-> [id |-> i, approved |-> h[i].approved, score |-> h[i].score]])

Symmetry ==
  Permutations(Workers) \cup Permutations(Users) \cup Permutations(Assessments)
=============================================================================
