----------------------------- MODULE MCEvidence -----------------------------
(***************************************************************************)
(* Instances of EvidenceStore and AssessmentScope for TLC: what is attached *)
(* to an assessment, and what it consists of.                              *)
(*                                                                         *)
(* The two share nothing but the deletion of the assessment, which is an    *)
(* action of each: at is the one at work, and the other stays as it began.  *)
(***************************************************************************)
EXTENDS EvidenceStore, TLC

CONSTANTS ScopeWorkers, Assessments, Tools, People

VARIABLES assessments, unused, tools, scope, ownership, scopeReq, chosen, scopeMixed, at

A == INSTANCE AssessmentScope WITH
       Workers <- ScopeWorkers, req <- scopeReq, mixed <- scopeMixed

scopeVars == <<assessments, unused, tools, scope, ownership, scopeReq, chosen, scopeMixed>>

MCInit == Init /\ A!Init /\ at \in {"evidence", "scope"}

MCNext ==
  /\ at' = at
  /\ \/ at = "evidence" /\ Next /\ UNCHANGED scopeVars
     \/ at = "scope" /\ A!Next /\ UNCHANGED vars

MCSpec == MCInit /\ [][MCNext]_<<vars, scopeVars, at>>

\* Scope and owners of an assessment are those last asked for, unless requests
\* raced (AssessmentScope, update_assessment_tools and clone_assessment).
AssessmentsAreAsChosen == A!AssessmentsAreAsChosen

TwoReasons == {NoReason, "incomplete"}

Symmetry ==
  Permutations(Workers) \cup Permutations(Files) \cup Permutations(ScopeWorkers)
    \cup Permutations(Assessments) \cup Permutations(Tools)
=============================================================================
