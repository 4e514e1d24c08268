--------------------------- MODULE FindingTracker ---------------------------
(***************************************************************************)
(* The findings of one assessment: their status and their closing date.    *)
(*                                                                         *)
(* Whether a date is stamped or cleared is decided on the row that the     *)
(* request loaded; status and date are separate columns, and a commit      *)
(* writes the ones that differ from what was loaded.                       *)
(***************************************************************************)
EXTENDS OrmRow

CONSTANTS
  Findings,  \* primary keys, each drawn once
  Workers

VARIABLES
  live,     \* the assessment exists
  row,      \* findings
  drawn,    \* keys drawn so far
  req,      \* the request that each worker is serving
  cleared   \* history: findings from which an update has removed the date

vars == <<live, row, drawn, req, cleared>>

-----------------------------------------------------------------------------
Unresolved == {"open", "in_progress"}
Resolved == {"remediated", "closed", "accepted"}
Statuses == Unresolved \cup Resolved

Null == "null"
Stamped == "stamped"  \* the time of the request that closed the finding
GivenDates == {"earlier", "later"}  \* dates from payloads
Keep == "keep"        \* the field is absent from the payload

Rows == [status : Statuses, actual_close_date : {Null, Stamped} \cup GivenDates]

NoRow == [status |-> "none"]

NewRow == [status |-> "open", actual_close_date |-> Null]

\* Updates by the fields that matter here; other fields are the payload that
\* keeps both.
Payloads == [status : Statuses \cup {Keep}, actual_close_date : GivenDates \cup {Keep}]

Exists(f) == row[f] # NoRow

Idle == [phase |-> "idle"]

Requests ==
       [phase : {"creating"}]
  \cup [phase : {"updating"}, finding : Findings, loaded : Rows, payload : Payloads]
  \cup [phase : {"deleting"}, finding : Findings]

TypeOK ==
  /\ live \in BOOLEAN
  /\ row \in [Findings -> Rows \cup {NoRow}]
  /\ drawn \subseteq Findings
  /\ req \in [Workers -> Requests \cup {Idle}]
  /\ cleared \subseteq Findings

Init ==
  /\ live = TRUE
  /\ row = [f \in Findings |-> NoRow]
  /\ drawn = {}
  /\ req = [w \in Workers |-> Idle]
  /\ cleared = {}

-----------------------------------------------------------------------------
\* create_finding
BeginCreate(w) ==
  /\ req[w] = Idle
  /\ live
  /\ req' = [req EXCEPT ![w] = [phase |-> "creating"]]
  /\ UNCHANGED <<live, row, drawn, cleared>>

\* The foreign key refuses a finding of a deleted assessment.
CommitCreate(w) ==
  /\ req[w].phase = "creating"
  /\ live
  /\ \E f \in Findings \ drawn :
       /\ row' = [row EXCEPT ![f] = NewRow]
       /\ drawn' = drawn \cup {f}
  /\ req' = [req EXCEPT ![w] = Idle]
  /\ UNCHANGED <<live, cleared>>

-----------------------------------------------------------------------------
\* update_finding
LoadForUpdate(w, f, p) ==
  /\ req[w] = Idle
  /\ Exists(f)
  /\ req' = [req EXCEPT ![w] = [phase |-> "updating", finding |-> f,
                                loaded |-> row[f], payload |-> p]]
  /\ UNCHANGED <<live, row, drawn, cleared>>

\* Fault: an accepted finding does not count as resolved.
DateAfterStatus_NotAccepted(loaded, status) ==
  IF status \in Resolved \ {"accepted"} /\ loaded.actual_close_date = Null
  THEN Stamped
  ELSE IF status \in Unresolved THEN Null ELSE loaded.actual_close_date

\* The closing date after the status of the payload has been assigned.
DateAfterStatus(loaded, status) ==
  IF status \in Resolved /\ loaded.actual_close_date = Null
  THEN Stamped
  ELSE IF status \in Unresolved THEN Null ELSE loaded.actual_close_date

Updated(loaded, p) ==
  [status |-> IF p.status = Keep THEN loaded.status ELSE p.status,
   actual_close_date |-> IF p.actual_close_date # Keep THEN p.actual_close_date
                         ELSE DateAfterStatus(loaded, p.status)]

\* A row that is no longer there makes the update fail.
CommitUpdate(w) ==
  LET r == req[w]
      new == Updated(r.loaded, r.payload)
      columns == Changed(r.loaded, new)
  IN /\ r.phase = "updating"
     /\ Exists(r.finding)
     /\ row' = [row EXCEPT ![r.finding] = Flush(@, new, columns)]
     /\ cleared' = cleared \cup
          {f \in {r.finding} : "actual_close_date" \in columns
                               /\ new.actual_close_date = Null}
     /\ req' = [req EXCEPT ![w] = Idle]
     /\ UNCHANGED <<live, drawn>>

-----------------------------------------------------------------------------
\* delete_finding
LoadForDelete(w, f) ==
  /\ req[w] = Idle
  /\ Exists(f)
  /\ req' = [req EXCEPT ![w] = [phase |-> "deleting", finding |-> f]]
  /\ UNCHANGED <<live, row, drawn, cleared>>

\* Deleting what another request has deleted is no error.
CommitDelete(w) ==
  /\ req[w].phase = "deleting"
  /\ row' = [row EXCEPT ![req[w].finding] = NoRow]
  /\ req' = [req EXCEPT ![w] = Idle]
  /\ UNCHANGED <<live, drawn, cleared>>

-----------------------------------------------------------------------------
DeleteAssessment ==
  /\ live
  /\ live' = FALSE
  /\ row' = [f \in Findings |-> NoRow]
  /\ UNCHANGED <<drawn, req, cleared>>

\* A refused commit or a killed process: nothing of the request is stored.
Abandon(w) ==
  /\ req[w] # Idle
  /\ req' = [req EXCEPT ![w] = Idle]
  /\ UNCHANGED <<live, row, drawn, cleared>>

Next ==
  \/ \E w \in Workers :
       \/ BeginCreate(w)
       \/ CommitCreate(w)
       \/ \E f \in Findings :
            \/ \E p \in Payloads : LoadForUpdate(w, f, p)
            \/ LoadForDelete(w, f)
       \/ CommitUpdate(w)
       \/ CommitDelete(w)
       \/ Abandon(w)
  \/ DeleteAssessment

Spec == Init /\ [][Next]_vars

-----------------------------------------------------------------------------
(***************************************************************************)
(* Properties                                                              *)
(***************************************************************************)
IsResolved(f) == Exists(f) /\ row[f].status \in Resolved

\* However requests race, only a finding that somebody has reopened can be
\* resolved and have no closing date.
DatedUnlessReopened ==
  \A f \in Findings :
    IsResolved(f) /\ row[f].actual_close_date = Null => f \in cleared

\* What a racing update has loaded: a date that is no longer in the row, and
\* a resolved status without a date, come from a reopening.
LoadedDates ==
  \A w \in Workers :
    req[w].phase = "updating" =>
      LET r == req[w]
      IN /\ r.loaded.actual_close_date # Null /\ Exists(r.finding) =>
              row[r.finding].actual_close_date # Null \/ r.finding \in cleared
         /\ r.loaded.status \in Resolved /\ r.loaded.actual_close_date = Null =>
              r.finding \in cleared

\* A key that has not been drawn has no row and no request.
DrawnKeys ==
  /\ \A f \in Findings : Exists(f) => f \in drawn
  /\ \A w \in Workers :
       req[w].phase \in {"updating", "deleting"} => req[w].finding \in drawn

DatesInv ==
  /\ TypeOK
  /\ DrawnKeys
  /\ LoadedDates
  /\ DatedUnlessReopened
=============================================================================
