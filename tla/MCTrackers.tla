----------------------------- MODULE MCTrackers -----------------------------
(***************************************************************************)
(* Instances of RfiTracker, FindingTracker and ControlNotes for TLC: the   *)
(* rows of an assessment that several users edit.                          *)
(*                                                                         *)
(* The three keep their rows in different tables and have no step in        *)
(* common, so that a behaviour of all shows no more than a behaviour of     *)
(* each: at is the one at work, and the others stay as they began.         *)
(***************************************************************************)
EXTENDS RfiTracker, TLC

CONSTANTS Findings, FindingWorkers, Controls, NoteWorkers, Assessments, Overrides, Reviews

VARIABLES
  findingsLive, findingRow, findingsDrawn, findingReq, cleared,
  assessments, unused, note, notesLogged, noteReq, origin, lost,
  at

F == INSTANCE FindingTracker WITH
       Workers <- FindingWorkers, live <- findingsLive, row <- findingRow, drawn <- findingsDrawn,
       req <- findingReq

N == INSTANCE ControlNotes WITH
       Workers <- NoteWorkers, logged <- notesLogged, req <- noteReq

findingVars == <<findingsLive, findingRow, findingsDrawn, findingReq, cleared>>
noteVars == <<<<assessments, unused, origin>>, note, notesLogged, noteReq, lost>>

MCInit == Init /\ F!Init /\ N!Init /\ at \in {"rfis", "findings", "notes"}

MCNext ==
  /\ at' = at
  /\ \/ at = "rfis" /\ Next /\ UNCHANGED <<findingVars, noteVars>>
     \/ at = "findings" /\ F!Next /\ UNCHANGED <<vars, noteVars>>
     \/ at = "notes" /\ N!Next /\ UNCHANGED <<vars, findingVars>>

MCSpec == MCInit /\ [][MCNext]_<<vars, findingVars, noteVars, at>>

\* A resolved finding is dated, unless an update has removed the date of this
\* very finding (FindingTracker, update_finding).
DatedUnlessReopened == F!DatedUnlessReopened

\* An override in force has its audit entry, be it that of the assessment it was
\* copied from (ControlNotes, upsert_control_notes and clone_assessment).
OverridesAreTraceable == N!OverridesAreTraceable

\* Only a review changes a review (ControlNotes, update_control_review).
ReviewsStand == N!ReviewsStand

Symmetry ==
  Permutations(Workers) \cup Permutations(FindingWorkers) \cup Permutations(NoteWorkers)
=============================================================================
