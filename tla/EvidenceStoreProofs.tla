------------------------- MODULE EvidenceStoreProofs -------------------------
(***************************************************************************)
(* Theorems about EvidenceStore and AssessmentScope (A of MCEvidence), for *)
(* any number of workers, files, users, assessments, tools and people.     *)
(***************************************************************************)
EXTENDS MCEvidence, TLAPS

\* The fields that a request has in each phase.
LEMMA RequestFields ==
  ASSUME TypeOK, NEW w \in Workers
  PROVE  /\ req[w] \in Requests \cup {Idle}
         /\ req[w].phase \in {"written", "found", "unlinked"} =>
              req[w] \in [phase : {"written", "found", "unlinked"}, file : Files]
         /\ req[w].phase = "loaded" =>
              /\ req[w].file \in Files
              /\ req[w].loaded \in Rows
              /\ req[w].decision \in Decisions
         /\ req[w].phase = "receiving" =>
              req[w].expires_at \in {"valid", "invalid"}
BY DEF TypeOK, Requests, Idle

LEMMA NewRowType == NewRow \in Rows
BY ReasonsAssumption DEF NewRow, Rows

\* A decision yields a row, and so does writing some of its columns.
LEMMA DecidedType ==
  ASSUME NEW loaded \in Rows, NEW d \in Decisions
  PROVE  Decided(loaded, d) \in Rows
<1>1. CASE d.action = "approve"
  BY <1>1, ReasonsAssumption DEF Decided, Decisions, Rows
<1>2. CASE d.action = "reject"
  BY <1>2, ReasonsAssumption DEF Decided, Decisions, Rows
<1>. QED
  BY <1>1, <1>2 DEF Decisions

LEMMA FlushType ==
  ASSUME NEW r \in Rows, NEW new \in Rows, NEW columns
  PROVE  Flush(r, new, columns) \in Rows
<1>1. /\ r = [approval_status |-> r.approval_status, approved_by_id |-> r.approved_by_id,
              approved_by_name |-> r.approved_by_name, approved_at |-> r.approved_at,
              rejection_reason |-> r.rejection_reason]
      /\ DOMAIN r = {"approval_status", "approved_by_id", "approved_by_name",
                     "approved_at", "rejection_reason"}
  BY DEF Rows
<1>2. Flush(r, new, columns) =
        [approval_status |-> IF "approval_status" \in columns
                             THEN new.approval_status ELSE r.approval_status,
         approved_by_id |-> IF "approved_by_id" \in columns
                            THEN new.approved_by_id ELSE r.approved_by_id,
         approved_by_name |-> IF "approved_by_name" \in columns
                              THEN new.approved_by_name ELSE r.approved_by_name,
         approved_at |-> IF "approved_at" \in columns
                         THEN new.approved_at ELSE r.approved_at,
         rejection_reason |-> IF "rejection_reason" \in columns
                              THEN new.rejection_reason ELSE r.rejection_reason]
  BY <1>1 DEF Flush
<1>. QED
  BY <1>2 DEF Rows

LEMMA OrphanedType ==
  ASSUME NEW r \in Rows
  PROVE  /\ Orphaned(r) \in Rows
         /\ Orphaned(r).approval_status = r.approval_status
         /\ Orphaned(r).approved_by_id = Nobody
         /\ Orphaned(r).approved_by_name = r.approved_by_name
         /\ Orphaned(r).approved_at = r.approved_at
         /\ Orphaned(r).rejection_reason = r.rejection_reason
BY DEF Orphaned, Rows

LEMMA NoRowIsNoRow == NoRow \notin Rows
BY DEF NoRow, Rows

-----------------------------------------------------------------------------
(***************************************************************************)
(* Type correctness.                                                       *)
(***************************************************************************)
LEMMA InitTypeOK == Init => TypeOK
BY DEF Init, TypeOK, Idle, NoRow

LEMMA NextTypeOK == TypeOK /\ [Next]_vars => TypeOK'
<1>. SUFFICES ASSUME TypeOK, [Next]_vars PROVE TypeOK'
  OBVIOUS
<1>. USE DEF stores, history, leftovers
<1>1. ASSUME NEW w \in Workers, NEW e \in {"valid", "invalid"}, BeginUpload(w, e)
      PROVE  TypeOK'
  BY <1>1 DEF BeginUpload, TypeOK, Requests
<1>2. ASSUME NEW w \in Workers, WriteFile(w) PROVE TypeOK'
  BY <1>2 DEF WriteFile, TypeOK, Requests
<1>3. ASSUME NEW w \in Workers, CommitUpload(w) PROVE TypeOK'
  BY <1>3, NewRowType DEF CommitUpload, TypeOK
<1>4. ASSUME NEW w \in Workers, NEW f \in Files, NEW d \in Decisions,
             LoadForDecision(w, f, d)
      PROVE  TypeOK'
  BY <1>4 DEF LoadForDecision, TypeOK, Requests, HasRow
<1>5. ASSUME NEW w \in Workers, CommitDecision(w) PROVE TypeOK'
  <2>. DEFINE r == req[w]
              new == Decided(r.loaded, r.decision)
              columns == DecisionColumns(r.loaded, r.decision)
  <2>1. r.file \in Files /\ new \in Rows
    BY <1>5, RequestFields, DecidedType DEF CommitDecision
  <2>2. HasRow(r.file) => Flush(row[r.file], new, columns) \in Rows
    BY <2>1, FlushType DEF HasRow, TypeOK
  <2>3. row' \in [Files -> Rows \cup {NoRow}]
    BY <1>5, <2>1, <2>2 DEF CommitDecision, TypeOK
  <2>4. mixed' \subseteq Files
    BY <1>5, <2>1 DEF CommitDecision, TypeOK
  <2>. QED
    BY <1>5, <2>3, <2>4 DEF CommitDecision, TypeOK
<1>6. ASSUME NEW w \in Workers, NEW f \in Files, LoadForDelete(w, f) PROVE TypeOK'
  BY <1>6 DEF LoadForDelete, TypeOK, Requests
<1>7. ASSUME NEW w \in Workers, Unlink(w) PROVE TypeOK'
  <2>1. [req[w] EXCEPT !.phase = "unlinked"] \in Requests
    BY <1>7, RequestFields DEF Unlink, Requests
  <2>. QED
    BY <1>7, <2>1 DEF Unlink, TypeOK
<1>8. ASSUME NEW w \in Workers, CommitDelete(w) PROVE TypeOK'
  BY <1>8 DEF CommitDelete, TypeOK
<1>9. ASSUME NEW w \in Workers, Abandon(w) PROVE TypeOK'
  BY <1>9 DEF Abandon, TypeOK
<1>10. CASE DeleteAssessment
  BY <1>10 DEF DeleteAssessment, TypeOK
<1>11. CASE UNCHANGED vars
  BY <1>11 DEF vars, TypeOK
<1>12. ASSUME NEW u \in Users, DeleteUser(u) PROVE TypeOK'
  BY <1>12, OrphanedType DEF DeleteUser, TypeOK, HasRow
<1>. QED
  BY <1>1, <1>2, <1>3, <1>4, <1>5, <1>6, <1>7, <1>8, <1>9, <1>10, <1>11, <1>12 DEF Next

\* Rows, names and the local state of every request keep their types; in
\* particular no decision stores a status outside the three of the column.
THEOREM TypeCorrect == Spec => []TypeOK
BY InitTypeOK, NextTypeOK, PTL DEF Spec

-----------------------------------------------------------------------------
(***************************************************************************)
(* The inductive invariant.                                                *)
(***************************************************************************)
LEMMA InitStoresInv == Init => StoresInv
BY DEF Init, StoresInv, DrawnFirst, UploadsAreAlone, UnlinkedIsGone,
       RowsHaveFiles, FilesHaveRows, HasRow, About, Idle

\* A row that an upload or a decision leaves behind is a row.
LEMMA WrittenRows ==
  /\ NewRow # NoRow
  /\ \A r \in Rows : r # NoRow
BY NewRowType, NoRowIsNoRow

\* A step that changes only the request of w, and gives it a file only if
\* that file has a row, keeps everything but what is said of w's old phase.
LEMMA FoundStep ==
  ASSUME TypeOK, StoresInv, NEW w \in Workers, NEW f \in Files,
         req[w] = Idle, HasRow(f),
         req'[w].phase \in {"loaded", "found"}, req'[w].file = f,
         \A v \in Workers \ {w} : req'[v] = req[v],
         UNCHANGED <<stores, history>>
  PROVE  StoresInv'
<1>1. DrawnFirst'
  BY DEF StoresInv, DrawnFirst, HasRow, About, stores
<1>2. UploadsAreAlone'
  BY DEF StoresInv, UploadsAreAlone, HasRow, About, stores, TypeOK
<1>3. UnlinkedIsGone'
  BY DEF StoresInv, UnlinkedIsGone, stores
<1>4. RowsHaveFiles'
  BY DEF StoresInv, RowsHaveFiles, InPhase, HasRow, stores, history, leftovers, Idle
<1>5. FilesHaveRows'
  BY DEF StoresInv, FilesHaveRows, InPhase, HasRow, stores, history, leftovers, Idle
<1>. QED
  BY <1>1, <1>2, <1>3, <1>4, <1>5 DEF StoresInv

\* The deletion of a user leaves every row there, with or without its reference.
LEMMA OrphanStep ==
  ASSUME TypeOK, NEW u \in Users, DeleteUser(u), NEW f \in Files
  PROVE  /\ HasRow(f)' <=> HasRow(f)
         /\ \/ row'[f] = row[f] /\ (HasRow(f) => row[f].approved_by_id # u)
            \/ HasRow(f) /\ row[f].approved_by_id = u /\ row'[f] = Orphaned(row[f])
<1>1. CASE HasRow(f) /\ row[f].approved_by_id = u
  <2>1. row'[f] = Orphaned(row[f])
    BY <1>1 DEF DeleteUser
  <2>2. row[f] \in Rows
    BY <1>1 DEF HasRow, TypeOK
  <2>3. row'[f] # NoRow
    BY <2>1, <2>2, OrphanedType, NoRowIsNoRow
  <2> QED
    BY <1>1, <2>1, <2>3 DEF HasRow
<1>2. CASE ~ (HasRow(f) /\ row[f].approved_by_id = u)
  BY <1>2 DEF DeleteUser, HasRow
<1> QED
  BY <1>1, <1>2

LEMMA NextStoresInv == TypeOK /\ StoresInv /\ [Next]_vars => StoresInv'
<1>. SUFFICES ASSUME TypeOK, StoresInv, [Next]_vars PROVE StoresInv'
  OBVIOUS
<1>. USE DEF StoresInv
<1>1. ASSUME NEW w \in Workers, NEW e \in {"valid", "invalid"}, BeginUpload(w, e)
      PROVE  StoresInv'
  BY <1>1 DEF BeginUpload, DrawnFirst, UploadsAreAlone, UnlinkedIsGone,
       RowsHaveFiles, FilesHaveRows, HasRow, About, InPhase, Idle, TypeOK,
       stores, history, leftovers
<1>2. ASSUME NEW w \in Workers, WriteFile(w) PROVE StoresInv'
  <2>. PICK f \in Files \ drawn :
         /\ drawn' = drawn \cup {f}
         /\ disk' = disk \cup {f}
         /\ \/ /\ req' = [req EXCEPT ![w] = [phase |-> "written", file |-> f]]
               /\ UNCHANGED badExpiry
            \/ /\ req' = [req EXCEPT ![w] = Idle]
               /\ badExpiry' = badExpiry \cup {f}
    BY <1>2 DEF WriteFile
  <2>. /\ req[w].phase = "receiving"
       /\ UNCHANGED <<row, cutUpload, cutDelete, cascaded>>
    BY <1>2 DEF WriteFile
  <2>0. \A v \in Workers : ~ About(v, f)
    BY DEF DrawnFirst
  <2>1. DrawnFirst'
    BY DEF DrawnFirst, HasRow, About, TypeOK, Idle
  <2>2. UploadsAreAlone'
    BY <2>0 DEF UploadsAreAlone, DrawnFirst, HasRow, About, TypeOK, Idle
  <2>3. UnlinkedIsGone'
    BY <2>0 DEF UnlinkedIsGone, About, TypeOK, Idle
  <2>4. RowsHaveFiles'
    BY DEF RowsHaveFiles, InPhase, HasRow, TypeOK, Idle
  <2>5. FilesHaveRows'
    BY DEF FilesHaveRows, InPhase, HasRow, TypeOK, Idle
  <2>. QED
    BY <2>1, <2>2, <2>3, <2>4, <2>5
<1>3. ASSUME NEW w \in Workers, CommitUpload(w) PROVE StoresInv'
  <2>. DEFINE f == req[w].file
  <2>. /\ req[w].phase = "written"
       /\ row' = [row EXCEPT ![f] = NewRow]
       /\ req' = [req EXCEPT ![w] = Idle]
       /\ UNCHANGED <<disk, drawn, history>>
    BY <1>3 DEF CommitUpload
  <2>0. f \in Files /\ f \in disk /\ \A v \in Workers \ {w} : ~ About(v, f)
    BY RequestFields DEF UploadsAreAlone
  <2>1. DrawnFirst'
    BY <2>0 DEF DrawnFirst, HasRow, About, TypeOK, Idle
  <2>2. UploadsAreAlone'
    BY <2>0 DEF UploadsAreAlone, HasRow, About, TypeOK, Idle
  <2>3. UnlinkedIsGone'
    BY DEF UnlinkedIsGone, TypeOK, Idle
  <2>4. RowsHaveFiles'
    BY <2>0 DEF RowsHaveFiles, InPhase, HasRow, TypeOK, Idle, history, leftovers
  <2>5. FilesHaveRows'
    BY <2>0, WrittenRows DEF FilesHaveRows, InPhase, HasRow, TypeOK, Idle, history, leftovers
  <2>. QED
    BY <2>1, <2>2, <2>3, <2>4, <2>5
<1>4. ASSUME NEW w \in Workers, NEW f \in Files, NEW d \in Decisions,
             LoadForDecision(w, f, d)
      PROVE  StoresInv'
  BY <1>4, FoundStep DEF LoadForDecision, TypeOK
<1>5. ASSUME NEW w \in Workers, CommitDecision(w) PROVE StoresInv'
  <2>1. \A f \in Files : HasRow(f)' <=> HasRow(f)
    <3>1. /\ req[w].file \in Files
          /\ Decided(req[w].loaded, req[w].decision) \in Rows
      BY <1>5, RequestFields, DecidedType DEF CommitDecision
    <3>. DEFINE columns == DecisionColumns(req[w].loaded, req[w].decision)
    <3>2. CASE columns = {}
      BY <1>5, <3>2 DEF CommitDecision, HasRow
    <3>3. CASE columns # {}
      <4>1. row[req[w].file] \in Rows
        BY <1>5, <3>1, <3>3 DEF CommitDecision, HasRow, TypeOK
      <4>2. Flush(row[req[w].file], Decided(req[w].loaded, req[w].decision),
                  columns) \in Rows
        BY <3>1, <4>1, FlushType
      <4>. QED
        BY <1>5, <3>1, <3>3, <4>1, <4>2, WrittenRows DEF CommitDecision, HasRow, TypeOK
    <3>. QED
      BY <3>2, <3>3
  <2>2. /\ req[w].phase = "loaded"
        /\ req' = [req EXCEPT ![w] = Idle]
        /\ UNCHANGED <<disk, drawn, leftovers>>
    BY <1>5 DEF CommitDecision
  <2>3. DrawnFirst' /\ UploadsAreAlone' /\ UnlinkedIsGone'
    BY <2>1, <2>2, RequestFields DEF DrawnFirst, UploadsAreAlone, UnlinkedIsGone,
         About, TypeOK, Idle
  <2>4. RowsHaveFiles'
    BY <2>1, <2>2 DEF RowsHaveFiles, InPhase, TypeOK, Idle, history, leftovers
  <2>5. FilesHaveRows'
    BY <2>1, <2>2 DEF FilesHaveRows, InPhase, TypeOK, Idle, history, leftovers
  <2>. QED
    BY <2>3, <2>4, <2>5
<1>6. ASSUME NEW w \in Workers, NEW f \in Files, LoadForDelete(w, f) PROVE StoresInv'
  BY <1>6, FoundStep DEF LoadForDelete, TypeOK
<1>7. ASSUME NEW w \in Workers, Unlink(w) PROVE StoresInv'
  <2>. DEFINE f == req[w].file
  <2>. /\ req[w].phase = "found"
       /\ disk' = disk \ {f}
       /\ req'[w].phase = "unlinked"
       /\ req'[w].file = f
       /\ \A v \in Workers \ {w} : req'[v] = req[v]
       /\ UNCHANGED <<row, drawn, history>>
    BY <1>7, RequestFields DEF Unlink, TypeOK
  <2>0. f \in Files
    BY RequestFields
  <2>1. DrawnFirst'
    BY <2>0 DEF DrawnFirst, HasRow, About
  <2>2. UploadsAreAlone'
    BY <2>0 DEF UploadsAreAlone, HasRow, About
  <2>3. UnlinkedIsGone'
    BY DEF UnlinkedIsGone
  <2>4. RowsHaveFiles'
    BY DEF RowsHaveFiles, InPhase, HasRow, history, leftovers
  <2>5. FilesHaveRows'
    BY DEF FilesHaveRows, InPhase, HasRow, history, leftovers
  <2>. QED
    BY <2>1, <2>2, <2>3, <2>4, <2>5
<1>8. ASSUME NEW w \in Workers, CommitDelete(w) PROVE StoresInv'
  <2>. DEFINE f == req[w].file
  <2>. /\ req[w].phase = "unlinked"
       /\ row' = [row EXCEPT ![f] = NoRow]
       /\ req' = [req EXCEPT ![w] = Idle]
       /\ UNCHANGED <<disk, drawn, history>>
    BY <1>8 DEF CommitDelete
  <2>0. f \in Files /\ f \notin disk
    BY RequestFields DEF UnlinkedIsGone
  <2>1. DrawnFirst'
    BY <2>0 DEF DrawnFirst, HasRow, About, TypeOK, Idle
  <2>2. UploadsAreAlone'
    BY <2>0 DEF UploadsAreAlone, HasRow, About, TypeOK, Idle
  <2>3. UnlinkedIsGone'
    BY DEF UnlinkedIsGone, TypeOK, Idle
  <2>4. RowsHaveFiles'
    BY <2>0 DEF RowsHaveFiles, InPhase, HasRow, TypeOK, Idle, history, leftovers
  <2>5. FilesHaveRows'
    BY <2>0 DEF FilesHaveRows, InPhase, HasRow, TypeOK, Idle, history, leftovers
  <2>. QED
    BY <2>1, <2>2, <2>3, <2>4, <2>5
<1>9. ASSUME NEW w \in Workers, Abandon(w) PROVE StoresInv'
  <2>1. DrawnFirst' /\ UploadsAreAlone' /\ UnlinkedIsGone'
    BY <1>9 DEF Abandon, DrawnFirst, UploadsAreAlone, UnlinkedIsGone, HasRow,
         About, TypeOK, Idle, stores
  <2>2. RowsHaveFiles'
    BY <1>9 DEF Abandon, RowsHaveFiles, InPhase, HasRow, TypeOK, Idle, stores
  <2>3. FilesHaveRows'
    BY <1>9 DEF Abandon, FilesHaveRows, InPhase, HasRow, TypeOK, Idle, stores
  <2>. QED
    BY <2>1, <2>2, <2>3
<1>10. CASE DeleteAssessment
  BY <1>10 DEF DeleteAssessment, DrawnFirst, UploadsAreAlone, UnlinkedIsGone,
       RowsHaveFiles, FilesHaveRows, HasRow, About, InPhase, TypeOK
<1>11. CASE UNCHANGED vars
  BY <1>11 DEF vars, stores, history, leftovers, DrawnFirst, UploadsAreAlone,
       UnlinkedIsGone, RowsHaveFiles, FilesHaveRows, HasRow, About, InPhase
<1>12. ASSUME NEW u \in Users, DeleteUser(u) PROVE StoresInv'
  <2>1. \A f \in Files : HasRow(f)' <=> HasRow(f)
    BY <1>12, OrphanStep
  <2>2. UNCHANGED <<disk, drawn, req, history>>
    BY <1>12 DEF DeleteUser
  <2>3. DrawnFirst' /\ UploadsAreAlone' /\ UnlinkedIsGone'
    BY <2>1, <2>2, RequestFields DEF DrawnFirst, UploadsAreAlone, UnlinkedIsGone, About
  <2>4. RowsHaveFiles' /\ FilesHaveRows'
    BY <2>1, <2>2 DEF RowsHaveFiles, FilesHaveRows, InPhase, TypeOK, history, leftovers
  <2>. QED
    BY <2>3, <2>4
<1>. QED
  BY <1>1, <1>2, <1>3, <1>4, <1>5, <1>6, <1>7, <1>8, <1>9, <1>10, <1>11, <1>12 DEF Next

\* Names are drawn once, an upload shares its file with nobody, and the two
\* stores differ only in the ways the order of the steps explains.
THEOREM StoresInvariant == Spec => []StoresInv
<1>. QED
  BY InitTypeOK, NextTypeOK, InitStoresInv, NextStoresInv, PTL DEF Spec

\* A row without its file is being deleted, or is left by a deletion that
\* stopped between the file and the row.
THEOREM ListedEvidenceIsThere == Spec => []RowsHaveFiles
<1>1. StoresInv => RowsHaveFiles
  BY DEF StoresInv
<1>. QED
  BY <1>1, StoresInvariant, PTL

\* A file without a row belongs to an upload under way, or was left by one of
\* the three events that the router does not clean up after.
THEOREM LeaksAreAccountedFor == Spec => []FilesHaveRows
<1>1. StoresInv => FilesHaveRows
  BY DEF StoresInv
<1>. QED
  BY <1>1, StoresInvariant, PTL

-----------------------------------------------------------------------------
(***************************************************************************)
(* Removal is final.                                                       *)
(***************************************************************************)

\* Only an upload brings a file or a row into being, and it does so for a
\* name that was not drawn before, or that is on disk already.
LEMMA StepKeepsRemoved ==
  ASSUME TypeOK, StoresInv, [Next]_vars, NEW f \in drawn,
         ~ HasRow(f), f \notin disk
  PROVE  ~ HasRow(f)' /\ f \notin disk'
<1>. f \in Files
  BY DEF TypeOK
<1>. USE DEF stores, history, leftovers
<1>1. ASSUME NEW w \in Workers, NEW e \in {"valid", "invalid"}, BeginUpload(w, e)
      PROVE  ~ HasRow(f)' /\ f \notin disk'
  BY <1>1 DEF BeginUpload, HasRow
<1>2. ASSUME NEW w \in Workers, WriteFile(w)
      PROVE  ~ HasRow(f)' /\ f \notin disk'
  BY <1>2 DEF WriteFile, HasRow
<1>3. ASSUME NEW w \in Workers, CommitUpload(w)
      PROVE  ~ HasRow(f)' /\ f \notin disk'
  BY <1>3 DEF CommitUpload, StoresInv, UploadsAreAlone, HasRow, TypeOK
<1>4. ASSUME NEW w \in Workers,
             \/ \E g \in Files, d \in Decisions : LoadForDecision(w, g, d)
             \/ \E g \in Files : LoadForDelete(w, g)
             \/ Abandon(w)
      PROVE  ~ HasRow(f)' /\ f \notin disk'
  BY <1>4 DEF LoadForDecision, LoadForDelete, Abandon, HasRow
<1>5. ASSUME NEW w \in Workers, CommitDecision(w)
      PROVE  ~ HasRow(f)' /\ f \notin disk'
  BY <1>5 DEF CommitDecision, HasRow, TypeOK
<1>6. ASSUME NEW w \in Workers, Unlink(w) \/ CommitDelete(w)
      PROVE  ~ HasRow(f)' /\ f \notin disk'
  BY <1>6 DEF Unlink, CommitDelete, HasRow, TypeOK
<1>7. CASE DeleteAssessment
  BY <1>7 DEF DeleteAssessment, HasRow
<1>8. CASE UNCHANGED vars
  BY <1>8 DEF vars, HasRow
<1>9. ASSUME NEW u \in Users, DeleteUser(u)
      PROVE  ~ HasRow(f)' /\ f \notin disk'
  BY <1>9, OrphanStep DEF DeleteUser
<1>. QED
  BY <1>1, <1>2, <1>3, <1>4, <1>5, <1>6, <1>7, <1>8, <1>9 DEF Next

\* A piece of evidence that is gone from both stores stays gone, whatever
\* decisions and deletions were under way about it.
THEOREM RemovalIsFinal == Spec => RemovedStaysRemoved
<1>1. TypeOK /\ StoresInv /\ [Next]_vars =>
        [\A f \in drawn :
           ~ HasRow(f) /\ f \notin disk => ~ HasRow(f)' /\ f \notin disk']_vars
  BY StepKeepsRemoved
<1>. QED
  BY <1>1, TypeCorrect, StoresInvariant, PTL DEF Spec, RemovedStaysRemoved

-----------------------------------------------------------------------------
(***************************************************************************)
(* The approval columns.                                                   *)
(***************************************************************************)

\* What ApprovalColumnsAgree says of one row, whoever there is,
Consistent(r) ==
  IF r.approval_status = "approved"
  THEN /\ r.approved_by_name # Nobody
       /\ r.approved_by_id \in {r.approved_by_name, Nobody}
       /\ r.approved_at = "set" /\ r.rejection_reason = NoReason
  ELSE r.approved_by_id = Nobody /\ r.approved_by_name = Nobody /\ r.approved_at = "null"

\* and what it says in addition of the users that there are.
Refers(r, present) ==
  r.approval_status = "approved" /\ r.approved_by_name \in present =>
    r.approved_by_id = r.approved_by_name

\* A decision under way has loaded columns that agree.
LoadedConsistent ==
  \A w \in Workers :
    req[w].phase = "loaded" /\ req[w].file \notin mixed => Consistent(req[w].loaded)

\* The inductive invariant behind ApprovalColumnsAgree.
ApprovalInv ==
  /\ LoadedConsistent
  /\ \A f \in Files \ mixed : HasRow(f) => Consistent(row[f]) /\ Refers(row[f], users)

LEMMA ApprovalInvAgrees == ApprovalInv => ApprovalColumnsAgree
BY DEF ApprovalInv, ApprovalColumnsAgree, Consistent, Refers

LEMMA DecidedConsistent ==
  ASSUME NEW loaded \in Rows, NEW d \in Decisions
  PROVE  /\ Consistent(Decided(loaded, d))
         /\ Decided(loaded, d).approval_status = "approved" =>
              /\ d.action = "approve"
              /\ Decided(loaded, d).approved_by_id = d.user
              /\ Decided(loaded, d).approved_by_name = d.user
              /\ d.user # Nobody
         /\ Decided(loaded, d).approval_status # "approved" =>
              Decided(loaded, d).approved_by_id = Nobody
BY NobodyAssumption DEF Consistent, Decided, Decisions

\* On the row that was loaded, an UPDATE of what differs leaves the new row.
LEMMA FlushOnLoaded ==
  ASSUME NEW loaded \in Rows, NEW new \in Rows, NEW columns,
         Changed(loaded, new) \subseteq columns
  PROVE  Flush(loaded, new, columns) = new
<1>1. /\ DOMAIN loaded = DOMAIN new
      /\ new = [c \in DOMAIN new |-> new[c]]
  BY DEF Rows
<1>2. \A c \in DOMAIN new : (IF c \in columns THEN new[c] ELSE loaded[c]) = new[c]
  BY DEF Changed
<1> QED
  BY <1>1, <1>2 DEF Flush

\* On the row that was loaded and lost its approver since, it leaves the new row,
\* but for a reference that it does not write.
LEMMA FlushOnOrphaned ==
  ASSUME NEW loaded \in Rows, NEW new \in Rows, NEW columns,
         Changed(loaded, new) \subseteq columns
  PROVE  LET r == Flush(Orphaned(loaded), new, columns)
         IN /\ r \in Rows
            /\ \/ r = new
               \/ r = Orphaned(new) /\ "approved_by_id" \notin columns
<1> DEFINE r == Flush(Orphaned(loaded), new, columns)
<1>1. Orphaned(loaded) \in Rows /\ Orphaned(new) \in Rows /\ r \in Rows
  BY OrphanedType, FlushType
<1>2. /\ r.approval_status = new.approval_status
      /\ r.approved_by_name = new.approved_by_name
      /\ r.approved_at = new.approved_at
      /\ r.rejection_reason = new.rejection_reason
  BY DEF Flush, Changed, Orphaned, Rows
<1>3. r.approved_by_id = IF "approved_by_id" \in columns THEN new.approved_by_id ELSE Nobody
  BY DEF Flush, Orphaned, Rows
<1>4. CASE "approved_by_id" \in columns
  <2>1. r = new
    BY <1>1, <1>2, <1>3, <1>4 DEF Rows
  <2> QED
    BY <1>1, <2>1
<1>5. CASE "approved_by_id" \notin columns
  <2>1. r = Orphaned(new)
    BY <1>1, <1>2, <1>3, <1>5, OrphanedType DEF Rows
  <2> QED
    BY <1>1, <1>5, <2>1
<1> QED
  BY <1>4, <1>5

LEMMA ApprovalInit == Init => ApprovalInv
BY DEF Init, ApprovalInv, LoadedConsistent, HasRow, Idle

\* What a request has loaded changes only with the request.
LEMMA LoadedNext ==
  ASSUME TypeOK, ApprovalInv, [Next]_vars
  PROVE  LoadedConsistent'
<1>. SUFFICES ASSUME NEW v \in Workers, req'[v].phase = "loaded", req'[v].file \notin mixed'
              PROVE  Consistent(req'[v].loaded)
  BY DEF LoadedConsistent
<1>. USE DEF stores, history, leftovers
<1>1. mixed \subseteq mixed'
  BY DEF Next, vars, BeginUpload, WriteFile, CommitUpload, LoadForDecision, CommitDecision,
         LoadForDelete, Unlink, CommitDelete, Abandon, DeleteAssessment, DeleteUser
<1>2. CASE req'[v] = req[v]
  BY <1>1, <1>2 DEF ApprovalInv, LoadedConsistent
<1>3. ASSUME NEW f \in Files, NEW d \in Decisions, LoadForDecision(v, f, d)
      PROVE  Consistent(req'[v].loaded)
  BY <1>1, <1>3 DEF LoadForDecision, ApprovalInv, TypeOK
<1>4. ASSUME NEW w \in Workers,
             \/ \E e \in {"valid", "invalid"} : BeginUpload(w, e)
             \/ WriteFile(w)
             \/ CommitUpload(w)
             \/ CommitDecision(w)
             \/ \E f \in Files : LoadForDelete(w, f)
             \/ CommitDelete(w)
             \/ Abandon(w)
      PROVE  req'[v] = req[v]
  BY <1>4 DEF BeginUpload, WriteFile, CommitUpload, CommitDecision, LoadForDelete,
              CommitDelete, Abandon, TypeOK, Idle
<1>6. ASSUME NEW w \in Workers, Unlink(w)
      PROVE  req'[v] = req[v]
  <2>1. "phase" \in DOMAIN req[w]
    BY <1>6, RequestFields DEF Unlink
  <2> QED
    BY <1>6, <2>1 DEF Unlink, TypeOK
<1>5. ASSUME NEW w \in Workers \ {v}, NEW f \in Files, NEW d \in Decisions,
             LoadForDecision(w, f, d)
      PROVE  req'[v] = req[v]
  BY <1>5 DEF LoadForDecision, TypeOK
<1>. QED
  BY <1>2, <1>3, <1>4, <1>5, <1>6 DEF Next, vars, DeleteAssessment, DeleteUser

LEMMA ApprovalNext == TypeOK /\ ApprovalInv /\ [Next]_vars => ApprovalInv'
<1>. SUFFICES ASSUME TypeOK, ApprovalInv, [Next]_vars, NEW f \in Files,
                     f \notin mixed', HasRow(f)'
              PROVE  Consistent(row'[f]) /\ Refers(row'[f], users')
  BY LoadedNext DEF ApprovalInv
<1>. USE DEF stores, history, leftovers
<1>1. ASSUME NEW w \in Workers, CommitUpload(w)
      PROVE  Consistent(row'[f]) /\ Refers(row'[f], users')
  <2>1. Consistent(NewRow) /\ Refers(NewRow, users')
    BY DEF Consistent, Refers, NewRow
  <2>2. req[w].file \in Files /\ (row'[f] = NewRow \/ row'[f] = row[f])
    BY <1>1, RequestFields DEF CommitUpload, TypeOK
  <2> QED
    BY <1>1, <2>1, <2>2 DEF CommitUpload, HasRow, ApprovalInv
<1>2. ASSUME NEW w \in Workers, CommitDecision(w)
      PROVE  Consistent(row'[f]) /\ Refers(row'[f], users')
  <2> DEFINE r == req[w]
             new == Decided(r.loaded, r.decision)
             columns == DecisionColumns(r.loaded, r.decision)
  <2>1. /\ r.phase = "loaded" /\ r.file \in Files
        /\ r.loaded \in Rows /\ r.decision \in Decisions
        /\ new \in Rows /\ Consistent(new) /\ users' = users
    BY <1>2, RequestFields, DecidedType, DecidedConsistent DEF CommitDecision
  <2>2. CASE f # r.file \/ columns = {}
    <3>1. row'[f] = row[f] /\ f \notin mixed
      BY <1>2, <2>1, <2>2 DEF CommitDecision, TypeOK
    <3> QED
      BY <2>1, <3>1 DEF HasRow, ApprovalInv
  <2>3. CASE f = r.file /\ columns # {}
    <3>1. /\ f \notin mixed /\ HasRow(f)
          /\ row[f] \in {r.loaded, Orphaned(r.loaded)}
          /\ row'[f] = Flush(row[f], new, columns)
          /\ "approved_by_id" \in columns /\ r.decision.action = "approve" =>
               r.decision.user \in users
      BY <1>2, <2>1, <2>3 DEF CommitDecision, TypeOK
    <3>2. /\ Consistent(r.loaded) /\ Consistent(row[f]) /\ Refers(row[f], users)
      BY <2>1, <2>3, <3>1 DEF ApprovalInv, LoadedConsistent
    <3>3. Changed(r.loaded, new) \subseteq columns
      BY DEF DecisionColumns
    <3>4. Refers(new, users)
      BY <2>1, DecidedConsistent DEF Refers
    <3>5. CASE row[f] = r.loaded
      BY <2>1, <3>1, <3>3, <3>4, <3>5, FlushOnLoaded
    <3>6. CASE row[f] = Orphaned(r.loaded) /\ row'[f] = Orphaned(new)
               /\ "approved_by_id" \notin columns
      <4>1. Consistent(Orphaned(new))
        BY <2>1, OrphanedType DEF Consistent
      <4>2. new.approval_status = "approved" => new.approved_by_name \notin users
        <5> SUFFICES ASSUME new.approval_status = "approved"
                     PROVE  new.approved_by_name \notin users
          OBVIOUS
        <5>1. new.approved_by_id = new.approved_by_name /\ new.approved_by_name # Nobody
          BY <2>1, DecidedConsistent
        <5>2. r.loaded.approved_by_id = new.approved_by_id
          BY <2>1, <3>3, <3>6 DEF Changed, Rows
        <5>3. /\ r.loaded.approval_status = "approved"
              /\ r.loaded.approved_by_name = new.approved_by_name
          BY <3>2, <5>1, <5>2 DEF Consistent
        <5> QED
          BY <2>1, <3>2, <3>6, <5>1, <5>3, OrphanedType DEF Refers
      <4> QED
        BY <2>1, <3>6, <4>1, <4>2, OrphanedType DEF Refers
    <3> QED
      BY <2>1, <3>1, <3>3, <3>4, <3>5, <3>6, FlushOnOrphaned
  <2> QED
    BY <2>2, <2>3
<1>3. ASSUME NEW w \in Workers, CommitDelete(w)
      PROVE  Consistent(row'[f]) /\ Refers(row'[f], users')
  BY <1>3 DEF CommitDelete, HasRow, TypeOK, ApprovalInv
<1>4. CASE DeleteAssessment
  BY <1>4 DEF DeleteAssessment, HasRow
<1>5. ASSUME UNCHANGED <<row, mixed, users>>
      PROVE  Consistent(row'[f]) /\ Refers(row'[f], users')
  BY <1>5 DEF HasRow, ApprovalInv
<1>6. ASSUME NEW u \in Users, DeleteUser(u)
      PROVE  Consistent(row'[f]) /\ Refers(row'[f], users')
  <2>1. HasRow(f) /\ f \notin mixed /\ users' = users \ {u} /\ row[f] \in Rows
    BY <1>6, OrphanStep DEF DeleteUser, HasRow, TypeOK
  <2>2. Consistent(row[f]) /\ Refers(row[f], users)
    BY <2>1 DEF ApprovalInv
  <2>3. CASE row'[f] = row[f] /\ row[f].approved_by_id # u
    BY <2>1, <2>2, <2>3 DEF Refers
  <2>4. CASE row[f].approved_by_id = u /\ row'[f] = Orphaned(row[f])
    <3>1. u # Nobody
      BY NobodyAssumption
    <3>2. row[f].approval_status = "approved" /\ row[f].approved_by_name = u
      BY <2>2, <2>4, <3>1 DEF Consistent
    <3> QED
      BY <2>1, <2>2, <2>4, <3>2, OrphanedType DEF Consistent, Refers
  <2> QED
    BY <1>6, <2>1, <2>3, <2>4, OrphanStep
<1>. QED
  BY <1>1, <1>2, <1>3, <1>4, <1>5, <1>6 DEF Next, vars, BeginUpload, WriteFile,
     LoadForDecision, LoadForDelete, Unlink, Abandon

\* The approval columns of a row describe one decision, unless a decision was
\* written over a row that another one had changed since it was loaded.
THEOREM DecisionsStandAlone == Spec => []ApprovalColumnsAgree
BY InitTypeOK, NextTypeOK, ApprovalInit, ApprovalNext, ApprovalInvAgrees, PTL DEF Spec

-----------------------------------------------------------------------------
(***************************************************************************)
(* AssessmentScope (A): the tools and the owners of the assessments.       *)
(***************************************************************************)
Owners == People \cup {A!NoOwnership}

Choices == [scope : SUBSET Tools, ownership : Owners]

ScopeRequests ==
       [phase : {"asking"}, assessment : Assessments]
  \cup [phase : {"assigning"}, assessment : Assessments, wanted : SUBSET Tools]
  \cup [phase : {"selecting"}, assessment : Assessments, loaded : SUBSET Tools,
        wanted : SUBSET Tools]
  \cup [phase : {"owning"}, assessment : Assessments, loaded : Owners, person : People]
  \cup [phase : {"cloning"}, source : Assessments]
  \cup [phase : {"copying"}, source : Assessments, scope : SUBSET Tools]
  \cup [phase : {"inserting"}, scope : SUBSET Tools, ownership : Owners,
        source : Assessments \cup {A!Null}]

ScopeTypeOK ==
  /\ assessments \subseteq Assessments
  /\ unused \subseteq Assessments \ assessments
  /\ tools \subseteq Tools
  /\ scope \in [Assessments -> SUBSET Tools]
  /\ ownership \in [Assessments -> Owners]
  /\ scopeReq \in [ScopeWorkers -> ScopeRequests \cup {A!Idle}]
  /\ chosen \in [Assessments -> Choices]
  /\ scopeMixed \subseteq Assessments

\* The foreign keys: no row of a scope names a tool or an assessment that is
\* gone, and no ownership an assessment that is gone.
ScopeReferences ==
  \A a \in Assessments :
    /\ scope[a] \subseteq tools
    /\ a \notin assessments => scope[a] = {} /\ ownership[a] = A!NoOwnership

ScopeInv ==
  /\ ScopeTypeOK
  /\ ScopeReferences
  /\ AssessmentsAreAsChosen

\* The phase of a request tells which fields it has.
LEMMA ScopeRequestFields ==
  ASSUME NEW q \in ScopeRequests \cup {A!Idle}
  PROVE  /\ q.phase \in {"asking", "assigning"} => q.assessment \in Assessments
         /\ q.phase = "assigning" => q.wanted \in SUBSET Tools
         /\ q.phase = "selecting" =>
              /\ q.assessment \in Assessments
              /\ q.loaded \in SUBSET Tools
              /\ q.wanted \in SUBSET Tools
         /\ q.phase = "owning" =>
              /\ q.assessment \in Assessments
              /\ q.loaded \in Owners
              /\ q.person \in People
         /\ q.phase \in {"cloning", "copying"} => q.source \in Assessments
         /\ q.phase = "copying" => q.scope \in SUBSET Tools
         /\ q.phase = "inserting" =>
              /\ q.scope \in SUBSET Tools
              /\ q.ownership \in Owners
              /\ q.source \in Assessments \cup {A!Null}
  BY DEF ScopeRequests, A!Idle

\* A selection that is made on the scope it has loaded, less the tools that are
\* gone, leaves what was wanted, less the tools that are gone.
LEMMA SelectedOnLoaded ==
  ASSUME NEW loaded, NEW wanted, NEW present, wanted \ loaded \subseteq present
  PROVE  A!Selected(loaded, wanted, loaded \cap present) = wanted \cap present
  BY DEF A!Selected

LEMMA ScopeInit == A!Init => ScopeInv
  BY DEF A!Init, ScopeInv, ScopeTypeOK, ScopeReferences, AssessmentsAreAsChosen,
         A!AssessmentsAreAsChosen, A!Nothing, Choices, Owners

\* A step that gives a request other contents of its type, and no more.
LEMMA ScopeRequestStep ==
  ASSUME ScopeInv, NEW w \in ScopeWorkers, NEW q \in ScopeRequests \cup {A!Idle},
         scopeReq' = [scopeReq EXCEPT ![w] = q],
         UNCHANGED <<assessments, unused, tools, scope, ownership, chosen, scopeMixed>>
  PROVE  ScopeInv'
  BY DEF ScopeInv, ScopeTypeOK, ScopeReferences, AssessmentsAreAsChosen,
         A!AssessmentsAreAsChosen

LEMMA SelectionStep ==
  ASSUME ScopeInv, NEW w \in ScopeWorkers, A!CommitSelection(w)
  PROVE  ScopeInv'
<1> DEFINE q == scopeReq[w]
           a == q.assessment
           asked == [chosen[a] EXCEPT !.scope = q.wanted]
<1>1. /\ a \in Assessments
      /\ q.loaded \in SUBSET Tools
      /\ q.wanted \in SUBSET Tools
  BY ScopeRequestFields DEF A!CommitSelection, ScopeInv, ScopeTypeOK
<1>2. /\ a \in assessments
      /\ q.wanted \ q.loaded \subseteq tools
      /\ scope' = [scope EXCEPT ![a] = A!Selected(q.loaded, q.wanted, scope[a])]
      /\ chosen' = [chosen EXCEPT ![a] = asked]
      /\ scopeMixed' = IF scope[a] = q.loaded \cap tools THEN scopeMixed
                       ELSE scopeMixed \cup {a}
      /\ scopeReq' = [scopeReq EXCEPT ![w] = A!Idle]
      /\ UNCHANGED <<assessments, unused, tools, ownership>>
  BY DEF A!CommitSelection, A!Note
<1>3. asked \in Choices /\ asked.scope = q.wanted /\ asked.ownership = chosen[a].ownership
  BY <1>1 DEF ScopeInv, ScopeTypeOK, Choices
<1> HIDE DEF asked
<1>4. A!Selected(q.loaded, q.wanted, scope[a]) \subseteq tools
  BY <1>1, <1>2 DEF A!Selected, ScopeInv, ScopeReferences
<1>5. ScopeTypeOK'
  BY <1>1, <1>2, <1>3, <1>4 DEF ScopeInv, ScopeTypeOK
<1>6. ScopeReferences'
  BY <1>1, <1>2, <1>4 DEF ScopeInv, ScopeTypeOK, ScopeReferences
<1>7. a \notin scopeMixed' =>
        scope'[a] = asked.scope \cap tools /\ ownership[a] = asked.ownership
  <2> SUFFICES ASSUME a \notin scopeMixed'
               PROVE  scope'[a] = asked.scope \cap tools /\ ownership[a] = asked.ownership
    OBVIOUS
  <2>1. scope[a] = q.loaded \cap tools /\ a \notin scopeMixed
    BY <1>2
  <2>2. A!Selected(q.loaded, q.wanted, scope[a]) = q.wanted \cap tools
    BY <1>2, <2>1, SelectedOnLoaded
  <2>3. scope'[a] = A!Selected(q.loaded, q.wanted, scope[a])
    BY <1>1, <1>2 DEF ScopeInv, ScopeTypeOK
  <2>4. ownership[a] = chosen[a].ownership
    BY <1>2, <2>1 DEF ScopeInv, AssessmentsAreAsChosen, A!AssessmentsAreAsChosen
  <2> QED
    BY <1>3, <2>2, <2>3, <2>4
<1>8. AssessmentsAreAsChosen'
  BY <1>1, <1>2, <1>7
     DEF ScopeInv, ScopeTypeOK, AssessmentsAreAsChosen, A!AssessmentsAreAsChosen
<1> QED
  BY <1>5, <1>6, <1>8 DEF ScopeInv

LEMMA OwnershipStep ==
  ASSUME ScopeInv, NEW w \in ScopeWorkers, A!CommitOwnership(w)
  PROVE  ScopeInv'
<1> DEFINE q == scopeReq[w]
           a == q.assessment
           asked == [chosen[a] EXCEPT !.ownership = q.person]
<1>1. /\ a \in Assessments
      /\ q.loaded \in Owners
      /\ q.person \in People
  BY ScopeRequestFields DEF A!CommitOwnership, ScopeInv, ScopeTypeOK
<1>2. /\ a \in assessments
      /\ ownership' = [ownership EXCEPT ![a] = IF q.person = q.loaded
                                               THEN ownership[a] ELSE q.person]
      /\ chosen' = [chosen EXCEPT ![a] = asked]
      /\ scopeMixed' = IF ownership[a] = q.loaded THEN scopeMixed
                       ELSE scopeMixed \cup {a}
      /\ scopeReq' = [scopeReq EXCEPT ![w] = A!Idle]
      /\ UNCHANGED <<assessments, unused, tools, scope>>
  BY DEF A!CommitOwnership, A!Note
<1>3. asked \in Choices /\ asked.ownership = q.person /\ asked.scope = chosen[a].scope
  BY <1>1 DEF ScopeInv, ScopeTypeOK, Choices, Owners
<1> HIDE DEF asked
<1>4. ScopeTypeOK'
  BY <1>1, <1>2, <1>3 DEF ScopeInv, ScopeTypeOK, Owners
<1>5. ScopeReferences'
  BY <1>1, <1>2 DEF ScopeInv, ScopeTypeOK, ScopeReferences
<1>6. AssessmentsAreAsChosen'
  BY <1>1, <1>2, <1>3
     DEF ScopeInv, ScopeTypeOK, AssessmentsAreAsChosen, A!AssessmentsAreAsChosen
<1> QED
  BY <1>4, <1>5, <1>6 DEF ScopeInv

\* A new assessment, empty or a clone.
LEMMA NewStep ==
  ASSUME ScopeInv, NEW w \in ScopeWorkers, NEW b \in Assessments, A!CommitNew(w, b)
  PROVE  ScopeInv'
<1> DEFINE q == scopeReq[w]
           asked == IF q.source = A!Null
                    THEN [scope |-> q.scope, ownership |-> A!NoOwnership]
                    ELSE [scope |-> scope[q.source], ownership |-> ownership[q.source]]
<1>1. /\ q.scope \in SUBSET Tools
      /\ q.ownership \in Owners
      /\ q.source \in Assessments \cup {A!Null}
  BY ScopeRequestFields DEF A!CommitNew, ScopeInv, ScopeTypeOK
<1>2. /\ q.scope \subseteq tools
      /\ assessments' = assessments \cup {b}
      /\ unused' = unused \ {b}
      /\ scope' = [scope EXCEPT ![b] = q.scope]
      /\ ownership' = [ownership EXCEPT ![b] = q.ownership]
      /\ chosen' = [chosen EXCEPT ![b] = asked]
      /\ scopeMixed' = IF asked.scope = q.scope /\ asked.ownership = q.ownership
                       THEN scopeMixed ELSE scopeMixed \cup {b}
      /\ scopeReq' = [scopeReq EXCEPT ![w] = A!Idle]
      /\ tools' = tools
  BY DEF A!CommitNew, A!Note
<1>3. asked \in Choices
  BY <1>1 DEF ScopeInv, ScopeTypeOK, Choices, Owners
<1> HIDE DEF asked
<1>4. ScopeTypeOK'
  BY <1>1, <1>2, <1>3 DEF ScopeInv, ScopeTypeOK
<1>5. ScopeReferences'
  BY <1>1, <1>2 DEF ScopeInv, ScopeTypeOK, ScopeReferences
<1>6. AssessmentsAreAsChosen'
  BY <1>1, <1>2, <1>3
     DEF ScopeInv, ScopeTypeOK, AssessmentsAreAsChosen, A!AssessmentsAreAsChosen
<1> QED
  BY <1>4, <1>5, <1>6 DEF ScopeInv

LEMMA ScopeNext == ScopeInv /\ [A!Next]_scopeVars => ScopeInv'
<1> SUFFICES ASSUME ScopeInv, [A!Next]_scopeVars
             PROVE  ScopeInv'
  OBVIOUS
<1>1. ASSUME NEW w \in ScopeWorkers, NEW a \in Assessments, A!LoadForSelection(w, a)
      PROVE  ScopeInv'
  <2>1. [phase |-> "asking", assessment |-> a] \in ScopeRequests
    BY DEF ScopeRequests
  <2> QED
    BY <1>1, <2>1, ScopeRequestStep DEF A!LoadForSelection, A!Load, A!Continue
<1>13. ASSUME NEW w \in ScopeWorkers, NEW S \in SUBSET Tools, A!QueryTools(w, S)
       PROVE  ScopeInv'
  <2> DEFINE q == [phase |-> "assigning", assessment |-> scopeReq[w].assessment,
                   wanted |-> S \cap tools]
  <2>1. scopeReq[w].assessment \in Assessments
    BY <1>13, ScopeRequestFields DEF A!QueryTools, ScopeInv, ScopeTypeOK
  <2>2. q \in ScopeRequests
    BY <2>1 DEF ScopeRequests
  <2> QED
    BY <1>13, <2>2, ScopeRequestStep DEF A!QueryTools, A!Continue
<1>14. ASSUME NEW w \in ScopeWorkers, A!LoadScope(w)
       PROVE  ScopeInv'
  <2> DEFINE r == scopeReq[w]
             q == [phase |-> "selecting", assessment |-> r.assessment,
                   loaded |-> scope[r.assessment], wanted |-> r.wanted]
  <2>1. r.assessment \in Assessments /\ r.wanted \in SUBSET Tools
    BY <1>14, ScopeRequestFields DEF A!LoadScope, ScopeInv, ScopeTypeOK
  <2>2. q \in ScopeRequests
    BY <2>1 DEF ScopeRequests, ScopeInv, ScopeTypeOK
  <2> QED
    BY <1>14, <2>2, ScopeRequestStep DEF A!LoadScope, A!Continue
<1>15. ASSUME NEW w \in ScopeWorkers, A!LoadScopeForClone(w)
       PROVE  ScopeInv'
  <2> DEFINE a == scopeReq[w].source
             q == [phase |-> "copying", source |-> a, scope |-> scope[a]]
  <2>1. a \in Assessments
    BY <1>15, ScopeRequestFields DEF A!LoadScopeForClone, ScopeInv, ScopeTypeOK
  <2>2. q \in ScopeRequests
    BY <2>1 DEF ScopeRequests, ScopeInv, ScopeTypeOK
  <2> QED
    BY <1>15, <2>2, ScopeRequestStep DEF A!LoadScopeForClone, A!Continue
<1>2. ASSUME NEW w \in ScopeWorkers, NEW a \in Assessments, NEW person \in People,
             A!LoadOwnership(w, a, person)
      PROVE  ScopeInv'
  <2> DEFINE q == [phase |-> "owning", assessment |-> a, loaded |-> ownership[a],
                   person |-> person]
  <2>1. q \in ScopeRequests
    BY DEF ScopeRequests, ScopeInv, ScopeTypeOK
  <2> QED
    BY <1>2, <2>1, ScopeRequestStep DEF A!LoadOwnership, A!Load, A!Continue
<1>3. ASSUME NEW w \in ScopeWorkers, NEW a \in Assessments, A!LoadForClone(w, a)
      PROVE  ScopeInv'
  <2>1. [phase |-> "cloning", source |-> a] \in ScopeRequests
    BY DEF ScopeRequests
  <2> QED
    BY <1>3, <2>1, ScopeRequestStep DEF A!LoadForClone, A!Load, A!Continue
<1>4. ASSUME NEW w \in ScopeWorkers, NEW b \in Assessments, A!CommitNew(w, b)
      PROVE  ScopeInv'
  BY <1>4, NewStep
<1>5. ASSUME NEW w \in ScopeWorkers, A!CommitSelection(w)
      PROVE  ScopeInv'
  BY <1>5, SelectionStep
<1>6. ASSUME NEW w \in ScopeWorkers, A!CommitOwnership(w)
      PROVE  ScopeInv'
  BY <1>6, OwnershipStep
<1>7. ASSUME NEW w \in ScopeWorkers, NEW S \in SUBSET Tools, A!LoadForCreate(w, S)
      PROVE  ScopeInv'
  <2> DEFINE q == [phase |-> "inserting", scope |-> S \cap tools,
                   ownership |-> A!NoOwnership, source |-> A!Null]
  <2>1. q \in ScopeRequests
    BY DEF ScopeRequests, Owners
  <2> QED
    BY <1>7, <2>1, ScopeRequestStep DEF A!LoadForCreate, A!Load, A!Continue
<1>8. ASSUME NEW w \in ScopeWorkers, A!LoadOwnershipForClone(w)
      PROVE  ScopeInv'
  <2> DEFINE r == scopeReq[w]
             q == [phase |-> "inserting", source |-> r.source, scope |-> r.scope,
                   ownership |-> ownership[r.source]]
  <2>1. r.source \in Assessments /\ r.scope \in SUBSET Tools
    BY <1>8, ScopeRequestFields DEF A!LoadOwnershipForClone, ScopeInv, ScopeTypeOK
  <2>2. q \in ScopeRequests
    BY <2>1 DEF ScopeRequests, ScopeInv, ScopeTypeOK
  <2>3. scopeReq' = [scopeReq EXCEPT ![w] = q]
    BY <1>8 DEF A!LoadOwnershipForClone, A!Continue
  <2> QED
    BY <1>8, <2>2, <2>3, ScopeRequestStep DEF A!LoadOwnershipForClone, A!Continue
<1>9. ASSUME NEW w \in ScopeWorkers, A!Abandon(w)
      PROVE  ScopeInv'
  BY <1>9, ScopeRequestStep DEF A!Abandon, A!Continue
<1>10. ASSUME NEW t \in Tools, A!DeleteTool(t)
       PROVE  ScopeInv'
  <2>1. ScopeTypeOK' /\ ScopeReferences'
    BY <1>10 DEF A!DeleteTool, ScopeInv, ScopeTypeOK, ScopeReferences
  <2>2. AssessmentsAreAsChosen'
    BY <1>10 DEF A!DeleteTool, ScopeInv, ScopeTypeOK, AssessmentsAreAsChosen,
                 A!AssessmentsAreAsChosen
  <2> QED
    BY <2>1, <2>2 DEF ScopeInv
<1>11. ASSUME NEW a \in Assessments, A!DeleteAssessment(a)
       PROVE  ScopeInv'
  <2>1. ScopeTypeOK' /\ ScopeReferences'
    BY <1>11 DEF A!DeleteAssessment, ScopeInv, ScopeTypeOK, ScopeReferences,
                 A!Nothing, Choices, Owners
  <2>2. AssessmentsAreAsChosen'
    BY <1>11 DEF A!DeleteAssessment, ScopeInv, ScopeTypeOK, AssessmentsAreAsChosen,
                 A!AssessmentsAreAsChosen
  <2> QED
    BY <2>1, <2>2 DEF ScopeInv
<1>12. CASE UNCHANGED scopeVars
  BY <1>12 DEF scopeVars, ScopeInv, ScopeTypeOK, ScopeReferences,
               AssessmentsAreAsChosen, A!AssessmentsAreAsChosen
<1> QED
  BY <1>1, <1>2, <1>3, <1>4, <1>5, <1>6, <1>7, <1>8, <1>9, <1>10, <1>11, <1>12,
     <1>13, <1>14, <1>15
     DEF A!Next

\* Scopes and ownership keep their types, and refer to what exists.
THEOREM ScopeCorrect == MCSpec => []ScopeInv
<1>1. MCInit => ScopeInv
  BY ScopeInit DEF MCInit
<1>2. ScopeInv /\ [MCNext]_<<vars, scopeVars, at>> => ScopeInv'
  BY ScopeNext DEF MCNext
<1> QED
  BY <1>1, <1>2, PTL DEF MCSpec

\* Scope and owners of an assessment are those last asked for, however the
\* selections, clones and deletions of others interleave, unless a commit fell
\* on a state that its request had not loaded.
THEOREM ChoicesStand == MCSpec => []AssessmentsAreAsChosen
<1>1. ScopeInv => AssessmentsAreAsChosen
  BY DEF ScopeInv
<1> QED
  BY <1>1, ScopeCorrect, PTL
=============================================================================
