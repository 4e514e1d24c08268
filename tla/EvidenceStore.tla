---------------------------- MODULE EvidenceStore ----------------------------
(***************************************************************************)
(* Evidence files of one assessment: a row in the database and a file in   *)
(* the uploads directory, written by different steps of a request.         *)
(*                                                                         *)
(* Upload writes the file and then commits the row; delete removes the     *)
(* file and then commits the removal of the row; deleting the assessment   *)
(* removes the rows only.  Nothing joins the two stores, so a request that *)
(* stops half-way leaves them different.  The audit entries written after  *)
(* each of these commits are read by nothing here and are left out.        *)
(***************************************************************************)
EXTENDS OrmRow

CONSTANTS
  Files,    \* evidence files: the UUID name on disk and the row that holds it
  Workers,
  Users,    \* ids of users, and the names that go with them
  Nobody,   \* no approver: NULL and the empty name
  Reasons   \* texts a rejection may give

ASSUME NobodyAssumption == Nobody \notin Users

NoReason == ""
ASSUME ReasonsAssumption == NoReason \in Reasons

VARIABLES
  users,      \* users in the table
  live,       \* the assessment exists
  row,        \* evidence_files
  disk,       \* names present in UPLOADS_DIR
  drawn,      \* UUIDs drawn so far
  req,        \* the request that each worker is serving
  badExpiry,  \* history: uploads refused after their file was written
  cutUpload,  \* history: uploads that stopped between file and row
  cutDelete,  \* history: deletions that stopped between file and row
  cascaded,   \* history: files whose row went with the assessment
  mixed       \* history: files with a decision that was written to a row which
              \* another decision had changed since it was loaded

stores == <<users, live, row, disk, drawn>>
leftovers == <<badExpiry, cutUpload, cutDelete, cascaded>>
history == <<leftovers, mixed>>
vars == <<stores, req, history>>

-----------------------------------------------------------------------------
NoRow == [approval_status |-> "none"]

Rows == [approval_status  : {"pending", "approved", "rejected"},
         approved_by_id   : Users \cup {Nobody},
         approved_by_name : Users \cup {Nobody},
         approved_at      : {"null", "set"},
         rejection_reason : Reasons]

NewRow == [approval_status |-> "pending", approved_by_id |-> Nobody,
           approved_by_name |-> Nobody, approved_at |-> "null",
           rejection_reason |-> NoReason]

HasRow(f) == row[f] # NoRow

Decisions == [action : {"approve"}, user : Users, reason : {NoReason}]
       \cup  [action : {"reject"}, user : Users, reason : Reasons]

Idle == [phase |-> "idle"]

Requests ==
       [phase : {"receiving"}, expires_at : {"valid", "invalid"}]
  \cup [phase : {"written", "found", "unlinked"}, file : Files]
  \cup [phase : {"loaded"}, file : Files, loaded : Rows, decision : Decisions]

TypeOK ==
  /\ users \subseteq Users
  /\ live \in BOOLEAN
  /\ row \in [Files -> Rows \cup {NoRow}]
  /\ disk \subseteq Files
  /\ drawn \subseteq Files
  /\ req \in [Workers -> Requests \cup {Idle}]
  /\ badExpiry \subseteq Files
  /\ cutUpload \subseteq Files
  /\ cutDelete \subseteq Files
  /\ cascaded \subseteq Files
  /\ mixed \subseteq Files

Init ==
  /\ users = Users
  /\ live = TRUE
  /\ row = [f \in Files |-> NoRow]
  /\ disk = {}
  /\ drawn = {}
  /\ req = [w \in Workers |-> Idle]
  /\ badExpiry = {}
  /\ cutUpload = {}
  /\ cutDelete = {}
  /\ cascaded = {}
  /\ mixed = {}

-----------------------------------------------------------------------------
(***************************************************************************)
(* upload_evidence                                                         *)
(***************************************************************************)

\* The assessment is looked up, then the body is awaited.
BeginUpload(w, expires_at) ==
  /\ req[w] = Idle
  /\ live
  /\ req' = [req EXCEPT ![w] = [phase |-> "receiving", expires_at |-> expires_at]]
  /\ UNCHANGED <<stores, history>>

\* Fault: the row is committed first and the file written afterwards.
WriteFile_RowFirst(w) ==
  /\ req[w].phase = "receiving"
  /\ req[w].expires_at = "valid"
  /\ \E f \in Files \ drawn :
       /\ drawn' = drawn \cup {f}
       /\ row' = [row EXCEPT ![f] = NewRow]
       /\ req' = [req EXCEPT ![w] = [phase |-> "written", file |-> f]]
  /\ UNCHANGED <<users, live, disk, history>>

\* The file is written under a fresh name, and only then is expires_at
\* parsed: an invalid one ends the request with 422 and the file stays.
WriteFile(w) ==
  /\ req[w].phase = "receiving"
  /\ \E f \in Files \ drawn :
       /\ drawn' = drawn \cup {f}
       /\ disk' = disk \cup {f}
       /\ \/ /\ req[w].expires_at = "valid"
             /\ req' = [req EXCEPT ![w] = [phase |-> "written", file |-> f]]
             /\ UNCHANGED badExpiry
          \/ /\ req[w].expires_at = "invalid"
             /\ req' = [req EXCEPT ![w] = Idle]
             /\ badExpiry' = badExpiry \cup {f}
  /\ UNCHANGED <<users, live, row, cutUpload, cutDelete, cascaded, mixed>>

\* The foreign key refuses the row when the assessment is gone.
CommitUpload(w) ==
  /\ req[w].phase = "written"
  /\ live
  /\ row' = [row EXCEPT ![req[w].file] = NewRow]
  /\ req' = [req EXCEPT ![w] = Idle]
  /\ UNCHANGED <<users, live, disk, drawn, history>>

-----------------------------------------------------------------------------
(***************************************************************************)
(* approve_evidence                                                        *)
(***************************************************************************)
LoadForDecision(w, f, decision) ==
  /\ req[w] = Idle
  /\ HasRow(f)
  /\ decision.user \in users
  /\ req' = [req EXCEPT ![w] = [phase |-> "loaded", file |-> f,
                                loaded |-> row[f], decision |-> decision]]
  /\ UNCHANGED <<stores, history>>

\* Fault: a rejection leaves the approval columns alone.
Decided_KeepsApprover(loaded, d) ==
  IF d.action = "approve"
  THEN [approval_status |-> "approved", approved_by_id |-> d.user,
        approved_by_name |-> d.user, approved_at |-> "set",
        rejection_reason |-> NoReason]
  ELSE [loaded EXCEPT !.approval_status = "rejected",
                      !.rejection_reason = d.reason]

\* The values that the handler assigns to the columns of the loaded row.
Decided(loaded, d) ==
  IF d.action = "approve"
  THEN [approval_status |-> "approved", approved_by_id |-> d.user,
        approved_by_name |-> d.user, approved_at |-> "set",
        rejection_reason |-> NoReason]
  ELSE [approval_status |-> "rejected", approved_by_id |-> Nobody,
        approved_by_name |-> Nobody, approved_at |-> "null",
        rejection_reason |-> d.reason]

\* A new approval time always differs from the loaded one.
DecisionColumns(loaded, d) ==
  Changed(loaded, Decided(loaded, d))
    \cup {c \in {"approved_at"} : d.action = "approve"}

\* Fault: the whole loaded row is merged back, and inserted if it is gone.
CommitDecision_Merge(w) ==
  /\ req[w].phase = "loaded"
  /\ row' = [row EXCEPT ![req[w].file] = Decided(req[w].loaded, req[w].decision)]
  /\ req' = [req EXCEPT ![w] = Idle]
  /\ UNCHANGED <<users, live, disk, drawn, history>>

\* The row as it is once its approver has been deleted.
Orphaned(r) == [r EXCEPT !.approved_by_id = Nobody]

\* Without columns to write no UPDATE is sent; with some, the row must exist,
\* and so must the user that it is to refer to.
CommitDecision(w) ==
  LET r == req[w]
      columns == DecisionColumns(r.loaded, r.decision)
  IN /\ r.phase = "loaded"
     /\ columns = {} \/ HasRow(r.file)
     /\ "approved_by_id" \in columns /\ r.decision.action = "approve" => r.decision.user \in users
     /\ row' = IF columns = {} THEN row ELSE
               [row EXCEPT ![r.file] =
                  Flush(@, Decided(r.loaded, r.decision), columns)]
     /\ mixed' = mixed \cup {f \in {r.file} : row[f] \notin {r.loaded, Orphaned(r.loaded)}}
     /\ req' = [req EXCEPT ![w] = Idle]
     /\ UNCHANGED <<users, live, disk, drawn, leftovers>>

-----------------------------------------------------------------------------
(***************************************************************************)
(* delete_evidence, and the cascade of delete_assessment                   *)
(***************************************************************************)
LoadForDelete(w, f) ==
  /\ req[w] = Idle
  /\ HasRow(f)
  /\ req' = [req EXCEPT ![w] = [phase |-> "found", file |-> f]]
  /\ UNCHANGED <<stores, history>>

\* A file that is already missing is not an error.
Unlink(w) ==
  /\ req[w].phase = "found"
  /\ disk' = disk \ {req[w].file}
  /\ req' = [req EXCEPT ![w].phase = "unlinked"]
  /\ UNCHANGED <<users, live, row, drawn, history>>

\* Fault: the row is removed and the file is left to somebody else.
CommitDelete_NoUnlink(w) ==
  /\ req[w].phase = "found"
  /\ row' = [row EXCEPT ![req[w].file] = NoRow]
  /\ req' = [req EXCEPT ![w] = Idle]
  /\ UNCHANGED <<users, live, disk, drawn, history>>

\* Deleting a row that is gone already only warns.
CommitDelete(w) ==
  /\ req[w].phase = "unlinked"
  /\ row' = [row EXCEPT ![req[w].file] = NoRow]
  /\ req' = [req EXCEPT ![w] = Idle]
  /\ UNCHANGED <<users, live, disk, drawn, history>>

DeleteAssessment ==
  /\ live
  /\ live' = FALSE
  /\ row' = [f \in Files |-> NoRow]
  /\ cascaded' = cascaded \cup {f \in Files : HasRow(f)}
  /\ UNCHANGED <<users, disk, drawn, req, badExpiry, cutUpload, cutDelete, mixed>>

\* delete_user: the reference to an approver becomes NULL, the name stays.
DeleteUser(u) ==
  /\ u \in users
  /\ users' = users \ {u}
  /\ row' = [f \in Files |-> IF HasRow(f) /\ row[f].approved_by_id = u
                             THEN Orphaned(row[f]) ELSE row[f]]
  /\ UNCHANGED <<live, disk, drawn, req, history>>

-----------------------------------------------------------------------------
\* The process is killed, the client goes away, the body is refused, or the
\* commit fails: the request ends where it is.
Abandon(w) ==
  /\ req[w] # Idle
  /\ req' = [req EXCEPT ![w] = Idle]
  /\ cutUpload' = cutUpload \cup
       {f \in Files : req[w].phase = "written" /\ req[w].file = f}
  /\ cutDelete' = cutDelete \cup
       {f \in Files : req[w].phase = "unlinked" /\ req[w].file = f}
  /\ UNCHANGED <<stores, badExpiry, cascaded, mixed>>

Next ==
  \/ \E w \in Workers :
       \/ \E e \in {"valid", "invalid"} : BeginUpload(w, e)
       \/ WriteFile(w)
       \/ CommitUpload(w)
       \/ \E f \in Files, d \in Decisions : LoadForDecision(w, f, d)
       \/ CommitDecision(w)
       \/ \E f \in Files : LoadForDelete(w, f)
       \/ Unlink(w)
       \/ CommitDelete(w)
       \/ Abandon(w)
  \/ DeleteAssessment
  \/ \E u \in Users : DeleteUser(u)

Spec == Init /\ [][Next]_vars

-----------------------------------------------------------------------------
(***************************************************************************)
(* Properties                                                              *)
(***************************************************************************)
InPhase(f, phase) == \E w \in Workers : req[w].phase = phase /\ req[w].file = f

\* Evidence that is listed can be downloaded: a row without its file is being
\* deleted right now, or is what a deletion left that stopped half-way.
RowsHaveFiles ==
  \A f \in Files :
    HasRow(f) /\ f \notin disk => InPhase(f, "unlinked") \/ f \in cutDelete

\* Nothing else leaks disk space: a file without a row belongs to an upload
\* under way, or to an upload that was cut off or refused for its expires_at,
\* or to an assessment that was deleted.
FilesHaveRows ==
  \A f \in disk :
    \/ HasRow(f)
    \/ InPhase(f, "written")
    \/ f \in badExpiry \cup cutUpload \cup cascaded

(***************************************************************************)
(* The inductive invariant behind the two properties above.                *)
(***************************************************************************)

\* The request of worker w is about file f.
About(w, f) ==
  req[w].phase \in {"written", "loaded", "found", "unlinked"} /\ req[w].file = f

\* Every trace of a file comes after its name was drawn.
DrawnFirst ==
  /\ disk \subseteq drawn
  /\ \A f \in Files : HasRow(f) \/ (\E w \in Workers : About(w, f)) => f \in drawn

\* Between its file and its row an upload is alone with its name.
UploadsAreAlone ==
  \A w \in Workers : req[w].phase = "written" =>
    /\ req[w].file \in disk
    /\ ~ HasRow(req[w].file)
    /\ \A v \in Workers \ {w} : ~ About(v, req[w].file)

\* Nothing puts an unlinked file back.
UnlinkedIsGone ==
  \A w \in Workers : req[w].phase = "unlinked" => req[w].file \notin disk

\* What every step preserves: names are drawn once, so an upload shares its
\* file with nobody and a deletion finds what the upload committed.
StoresInv ==
  /\ DrawnFirst
  /\ UploadsAreAlone
  /\ UnlinkedIsGone
  /\ RowsHaveFiles
  /\ FilesHaveRows

\* A removed piece of evidence does not come back, neither its row nor its
\* file, whatever decisions and deletions race about it.
RemovedStaysRemoved ==
  [][\A f \in drawn :
       ~ HasRow(f) /\ f \notin disk => ~ HasRow(f)' /\ f \notin disk']_vars

\* The approval columns describe one decision: an approved row names its
\* approver, by a reference too while there is such a user, and carries no
\* rejection reason, and any other row names none.  The exception are two
\* decisions of which one was written over the other.
ApprovalColumnsAgree ==
  \A f \in Files \ mixed : HasRow(f) =>
    LET r == row[f]
    IN IF r.approval_status = "approved"
       THEN /\ r.approved_by_name # Nobody
            /\ r.approved_by_id \in {r.approved_by_name, Nobody}
            /\ r.approved_by_name \in users => r.approved_by_id = r.approved_by_name
            /\ r.approved_at = "set" /\ r.rejection_reason = NoReason
       ELSE r.approved_by_id = Nobody /\ r.approved_by_name = Nobody /\ r.approved_at = "null"

\* approve_evidence clears the approval columns "so rejected files don't show
\* stale data": a rejected row carries no approval.
RejectedShowsNoApproval ==
  \A f \in Files : HasRow(f) /\ row[f].approval_status = "rejected" =>
    row[f].approved_by_name = Nobody /\ row[f].approved_at = "null"
=============================================================================
