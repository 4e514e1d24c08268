---------------------------- MODULE TrackerProofs ----------------------------
(***************************************************************************)
(* Theorems about the rows of an assessment that several users edit: the   *)
(* RFIs (RfiTracker), the findings (F, FindingTracker) and the notes of    *)
(* the controls (N, ControlNotes), for any numbers of rows and workers.    *)
(***************************************************************************)
EXTENDS MCTrackers, TLAPS

-----------------------------------------------------------------------------
(***************************************************************************)
(* The three together.                                                     *)
(***************************************************************************)

\* A step of the three is a step of each, or leaves its state alone.
LEMMA TrackerSteps ==
  ASSUME [MCNext]_<<vars, findingVars, noteVars, at>>
  PROVE  [Next]_vars /\ [F!Next]_findingVars /\ [N!Next]_noteVars
  BY DEF MCNext, vars, findingVars, noteVars

\* Each tracker behaves among the others as it does alone.
THEOREM TrackersAreIndependent == MCSpec => Spec /\ F!Spec /\ N!Spec
<1>1. MCInit => Init /\ F!Init /\ N!Init
  BY DEF MCInit
<1> QED
  BY <1>1, TrackerSteps, PTL DEF MCSpec, Spec, F!Spec, F!vars, N!Spec, N!vars,
                                 N!table, findingVars, noteVars

-----------------------------------------------------------------------------
(***************************************************************************)
(* RFIs                                                                    *)
(***************************************************************************)
\* The fields that a request has in each phase.
LEMMA RequestFields ==
  ASSUME TypeOK, NEW w \in Workers
  PROVE  /\ req[w].phase = "updating" =>
              /\ req[w].rfi \in Rfis
              /\ req[w].loaded \in Rows
              /\ req[w].status \in Statuses \cup {Keep}
         /\ req[w].phase = "responding" =>
              req[w].rfi \in Rfis /\ req[w].loaded \in Rows
BY DEF TypeOK, Requests, Idle

LEMMA ExistingRow ==
  ASSUME TypeOK, NEW r \in Rfis
  PROVE  Exists(r) <=> row[r] \in Rows
BY DEF TypeOK, Exists, Rows, Unused, Deleted, Statuses

LEMMA UpdatedType ==
  ASSUME NEW loaded \in Rows, NEW s \in Statuses \cup {Keep}
  PROVE  Updated(loaded, s) \in Rows
BY DEF Updated, Rows

\* What an update writes: the status if it is another one than was loaded, and
\* the closing date if there was none.
LEMMA FlushUpdated ==
  ASSUME NEW r \in Rows, NEW loaded \in Rows, NEW s \in Statuses \cup {Keep}
  PROVE  LET columns == Changed(loaded, Updated(loaded, s))
             written == Flush(r, Updated(loaded, s), columns)
         IN /\ written \in Rows
            /\ "status" \in columns <=> s # Keep /\ s # loaded.status
            /\ written.status = IF "status" \in columns THEN s ELSE r.status
            /\ written.closed_at =
                 IF s = "closed" /\ loaded.closed_at = "null" THEN "set"
                 ELSE r.closed_at
<1>. DEFINE new == Updated(loaded, s)
            columns == Changed(loaded, new)
            written == Flush(r, new, columns)
<1>1. new \in Rows /\ DOMAIN new = {"status", "closed_at"}
  BY UpdatedType DEF Rows
<1>2. DOMAIN r = {"status", "closed_at"}
  BY DEF Rows
<1>3. /\ new.status = IF s = Keep THEN loaded.status ELSE s
      /\ new.closed_at = IF s = "closed" THEN "set" ELSE loaded.closed_at
  BY DEF Updated, Rows, Keep, Statuses
<1>4. /\ "status" \in columns <=> s # Keep /\ s # loaded.status
      /\ "closed_at" \in columns <=> s = "closed" /\ loaded.closed_at # "set"
  BY <1>1, <1>3 DEF Changed
<1>5. written = [status |-> IF "status" \in columns THEN new.status ELSE r.status,
                 closed_at |-> IF "closed_at" \in columns
                               THEN new.closed_at ELSE r.closed_at]
  BY <1>2 DEF Flush
<1>6. written \in Rows
  BY <1>1, <1>5 DEF Rows
<1>7. written.status = IF "status" \in columns THEN s ELSE r.status
  BY <1>3, <1>4, <1>5
<1>8. written.closed_at = IF s = "closed" /\ loaded.closed_at = "null" THEN "set"
                          ELSE r.closed_at
  BY <1>3, <1>4, <1>5 DEF Rows
<1>. QED
  BY <1>4, <1>6, <1>7, <1>8

-----------------------------------------------------------------------------
(***************************************************************************)
(* Type correctness.                                                       *)
(***************************************************************************)
LEMMA InitTypeOK == Init => TypeOK
BY DEF Init, TypeOK, Idle, Unused

LEMMA NextTypeOK == TypeOK /\ [Next]_vars => TypeOK'
<1>. SUFFICES ASSUME TypeOK, [Next]_vars PROVE TypeOK'
  OBVIOUS
<1>1. ASSUME NEW w \in Workers,
             \/ BeginCreate(w)
             \/ \E r \in Rfis, s \in Statuses \cup {Keep} : LoadForUpdate(w, r, s)
             \/ \E r \in Rfis : LoadForResponse(w, r)
             \/ Abandon(w)
      PROVE  TypeOK'
  <2>1. CASE BeginCreate(w)
    BY <2>1 DEF BeginCreate, TypeOK, Requests
  <2>2. ASSUME NEW r \in Rfis, NEW s \in Statuses \cup {Keep}, LoadForUpdate(w, r, s)
        PROVE  TypeOK'
    BY <2>2, ExistingRow DEF LoadForUpdate, TypeOK, Requests
  <2>3. ASSUME NEW r \in Rfis, LoadForResponse(w, r) PROVE TypeOK'
    BY <2>3, ExistingRow DEF LoadForResponse, TypeOK, Requests
  <2>4. CASE Abandon(w)
    BY <2>4 DEF Abandon, TypeOK
  <2>. QED
    BY <1>1, <2>1, <2>2, <2>3, <2>4
<1>2. ASSUME NEW w \in Workers, CommitCreate(w) PROVE TypeOK'
  BY <1>2 DEF CommitCreate, TypeOK, NewRow, Rows, Statuses
<1>3. ASSUME NEW w \in Workers, CommitUpdate(w) PROVE TypeOK'
  <2>. DEFINE q == req[w]
              new == Updated(q.loaded, q.status)
              written == Flush(row[q.rfi], new, Changed(q.loaded, new))
  <2>1. q.rfi \in Rfis /\ q.loaded \in Rows /\ q.status \in Statuses \cup {Keep}
    BY <1>3, RequestFields DEF CommitUpdate
  <2>2. written \in Rows
    <3>1. row[q.rfi] \in Rows
      BY <1>3, <2>1, ExistingRow DEF CommitUpdate
    <3>. QED
      BY <2>1, <3>1, FlushUpdated
  <2>3. row' = [row EXCEPT ![q.rfi] = written]
    BY <1>3 DEF CommitUpdate
  <2>4. setByHand' \in [Rfis -> SUBSET Statuses]
    BY <1>3, <2>1 DEF CommitUpdate, TypeOK
  <2>. QED
    BY <1>3, <2>2, <2>3, <2>4 DEF CommitUpdate, TypeOK
<1>4. ASSUME NEW w \in Workers, CommitResponse(w) PROVE TypeOK'
  <2>. DEFINE r == req[w].rfi
  <2>1. r \in Rfis /\ row[r] \in Rows
    BY <1>4, RequestFields, ExistingRow DEF CommitResponse
  <2>2. [row[r] EXCEPT !.status = "responded"] \in Rows
    BY <2>1 DEF Rows, Statuses
  <2>3. row' \in [Rfis -> Rows \cup {Unused, Deleted}]
    BY <1>4, <2>1, <2>2 DEF CommitResponse, TypeOK
  <2>4. responses' \in [Rfis -> Nat] /\ logged' \in [Rfis -> Nat]
    BY <1>4, <2>1 DEF CommitResponse, TypeOK
  <2>. QED
    BY <1>4, <2>3, <2>4 DEF CommitResponse, TypeOK
<1>5. CASE DeleteAssessment
  BY <1>5 DEF DeleteAssessment, TypeOK
<1>6. CASE UNCHANGED vars
  BY <1>6 DEF vars, TypeOK
<1>. QED
  BY <1>1, <1>2, <1>3, <1>4, <1>5, <1>6 DEF Next

\* Rows, threads and the local state of every request keep their types: no
\* mixture of columns leaves a status outside the three.
THEOREM RfisTypeCorrect == Spec => []TypeOK
BY InitTypeOK, NextTypeOK, PTL DEF Spec

-----------------------------------------------------------------------------
(***************************************************************************)
(* The inductive invariant.                                                *)
(***************************************************************************)
LEMMA InitRfiInv == Init => RfiInv
BY DEF Init, RfiInv, LoadedStillCounts, StillCounts, AnsweredAdvances, ClosedHasDate,
       RespondedIsExplained, Exists, Unused, Statuses, Idle

\* A step that leaves the rows alone and gives w at most a row as it is now.
LEMMA LoadStep ==
  ASSUME TypeOK, RfiInv, NEW w \in Workers,
         \/ req'[w].phase \in {"idle", "creating"}
         \/ \E r \in Rfis :
              /\ Exists(r)
              /\ req'[w].rfi = r
              /\ req'[w].loaded = row[r],
         \A v \in Workers \ {w} : req'[v] = req[v],
         UNCHANGED <<live, row, responses, logged, setByHand>>
  PROVE  RfiInv'
<1>1. LoadedStillCounts'
  BY DEF RfiInv, LoadedStillCounts, StillCounts, Exists, ClosedHasDate, Unused, Statuses
<1>. QED
  BY <1>1 DEF RfiInv, AnsweredAdvances, ClosedHasDate, RespondedIsExplained, Exists

LEMMA NextRfiInv == TypeOK /\ RfiInv /\ [Next]_vars => RfiInv'
<1>. SUFFICES ASSUME TypeOK, RfiInv, [Next]_vars PROVE RfiInv'
  OBVIOUS
<1>1. ASSUME NEW w \in Workers,
             \/ BeginCreate(w)
             \/ \E r \in Rfis, s \in Statuses \cup {Keep} : LoadForUpdate(w, r, s)
             \/ \E r \in Rfis : LoadForResponse(w, r)
             \/ Abandon(w)
      PROVE  RfiInv'
  BY <1>1, LoadStep DEF BeginCreate, LoadForUpdate, LoadForResponse, Abandon,
       TypeOK, Idle
<1>2. ASSUME NEW w \in Workers, CommitCreate(w) PROVE RfiInv'
  BY <1>2 DEF CommitCreate, RfiInv, LoadedStillCounts, StillCounts, AnsweredAdvances,
       ClosedHasDate, RespondedIsExplained, Exists, NewRow, Unused, Idle, TypeOK
<1>3. ASSUME NEW w \in Workers, CommitUpdate(w) PROVE RfiInv'
  <2>. DEFINE q == req[w]
              r == q.rfi
              new == Updated(q.loaded, q.status)
              columns == Changed(q.loaded, new)
              written == Flush(row[r], new, columns)
  <2>0. r \in Rfis /\ q.loaded \in Rows /\ q.status \in Statuses \cup {Keep}
    BY <1>3, RequestFields DEF CommitUpdate
  <2>1. /\ row[r] \in Rows
        /\ q.phase = "updating"
        /\ Exists(r)
        /\ row' = [row EXCEPT ![r] = written]
        /\ req' = [req EXCEPT ![w] = Idle]
        /\ UNCHANGED <<live, responses, logged>>
    BY <1>3, <2>0, ExistingRow DEF CommitUpdate
  <2>2. /\ written \in Rows
        /\ "status" \in columns <=> q.status # Keep /\ q.status # q.loaded.status
        /\ written.status = IF "status" \in columns THEN q.status ELSE row[r].status
        /\ written.closed_at = IF q.status = "closed" /\ q.loaded.closed_at = "null"
                               THEN "set" ELSE row[r].closed_at
    BY <2>0, <2>1, FlushUpdated
  <2>. HIDE DEF written, columns, new
  <2>3. /\ \A x \in Rfis : setByHand[x] \subseteq setByHand'[x]
        /\ "status" \in columns => q.status \in setByHand'[r]
        /\ \A x \in Rfis \ {r} : setByHand'[x] = setByHand[x]
    BY <1>3, <2>0, <2>2 DEF CommitUpdate, TypeOK, columns, new, Keep
  <2>4. /\ \A x \in Rfis \ {r} : row'[x] = row[x]
        /\ row'[r] = written
        /\ row'[r] # Unused
        /\ row'[r].status \in Statuses
    BY <2>0, <2>1, <2>2 DEF TypeOK, Exists, Rows, Unused, Statuses
  <2>5. row[r].closed_at = "set" => row'[r].closed_at = "set"
    BY <2>2, <2>4
  <2>6. LoadedStillCounts'
    <3>1. ASSUME NEW x \in Rfis, NEW loaded, StillCounts(loaded, x)
          PROVE  StillCounts(loaded, x)'
      <4>1. CASE x # r
        BY <2>3, <2>4, <3>1, <4>1 DEF StillCounts, Exists
      <4>2. CASE x = r
        BY <2>0, <2>1, <2>2, <2>3, <2>4, <2>5, <3>1, <4>2 DEF StillCounts, Exists
      <4>. QED
        BY <4>1, <4>2
    <3>. QED
      BY <2>1, <3>1, RequestFields DEF RfiInv, LoadedStillCounts, Idle, TypeOK
  <2>7. AnsweredAdvances'
    BY <2>0, <2>1, <2>2, <2>3, <2>4 DEF RfiInv, AnsweredAdvances, Exists
  <2>8. ClosedHasDate'
    <3>1. row'[r].status = "closed" => row'[r].closed_at = "set"
      <4>1. CASE "status" \in columns
        BY <2>0, <2>1, <2>2, <2>4, <4>1 DEF RfiInv, LoadedStillCounts, StillCounts, Rows
      <4>2. CASE "status" \notin columns
        BY <2>0, <2>1, <2>2, <2>4, <2>5, <4>2 DEF RfiInv, ClosedHasDate
      <4>. QED
        BY <4>1, <4>2
    <3>. QED
      BY <2>4, <3>1 DEF RfiInv, ClosedHasDate, Exists
  <2>9. RespondedIsExplained'
    BY <2>0, <2>1, <2>2, <2>3, <2>4 DEF RfiInv, RespondedIsExplained, Exists
  <2>10. \A x \in Rfis : row'[x] = Unused => responses'[x] = 0 /\ setByHand'[x] = {}
    BY <2>1, <2>3, <2>4 DEF RfiInv
  <2>. QED
    BY <2>6, <2>7, <2>8, <2>9, <2>10 DEF RfiInv
<1>4. ASSUME NEW w \in Workers, CommitResponse(w) PROVE RfiInv'
  <2>. DEFINE r == req[w].rfi
              advance == req[w].loaded.status = "open"
  <2>1. /\ r \in Rfis
        /\ row[r] \in Rows
        /\ Exists(r)
        /\ req[w].phase = "responding"
        /\ responses' = [responses EXCEPT ![r] = @ + 1]
        /\ req' = [req EXCEPT ![w] = Idle]
        /\ UNCHANGED setByHand
    BY <1>4, RequestFields, ExistingRow DEF CommitResponse
  <2>2. /\ \A x \in Rfis \ {r} : /\ row'[x] = row[x]
                                /\ responses'[x] = responses[x]
                                /\ logged'[x] = logged[x]
        /\ row'[r].closed_at = row[r].closed_at
        /\ row'[r] # Unused
        /\ row'[r].status \in Statuses
        /\ responses'[r] > 0
        /\ row'[r].status = IF advance THEN "responded" ELSE row[r].status
        /\ advance => logged'[r] > 0
        /\ ~ advance => logged'[r] = logged[r]
    BY <1>4, <2>1 DEF CommitResponse, TypeOK, Exists, Rows, Statuses, Unused
  <2>3. LoadedStillCounts'
    BY <2>1, <2>2, RequestFields DEF RfiInv, LoadedStillCounts, StillCounts, Exists, TypeOK, Idle
  <2>4. AnsweredAdvances'
    BY <2>1, <2>2 DEF RfiInv, AnsweredAdvances, LoadedStillCounts, StillCounts, Exists
  <2>5. ClosedHasDate'
    BY <2>1, <2>2 DEF RfiInv, ClosedHasDate, Exists
  <2>6. RespondedIsExplained'
    BY <2>1, <2>2 DEF RfiInv, RespondedIsExplained, Exists
  <2>7. \A x \in Rfis : row'[x] = Unused => responses'[x] = 0 /\ setByHand'[x] = {}
    BY <2>1, <2>2 DEF RfiInv
  <2>. QED
    BY <2>3, <2>4, <2>5, <2>6, <2>7 DEF RfiInv
<1>5. CASE DeleteAssessment
  <2>1. ASSUME NEW r \in Rfis
        PROVE  /\ row'[r].status \notin Statuses
               /\ row'[r] = Unused <=> row[r] = Unused
               /\ responses'[r] = 0
    <3>1. Deleted # Unused /\ Deleted.status \notin Statuses
      BY DEF Deleted, Unused, Statuses
    <3>2. row'[r] = IF Exists(r) THEN Deleted ELSE row[r]
      BY <1>5 DEF DeleteAssessment
    <3>3. Exists(r) => row[r] # Unused
      BY DEF Exists, Unused, Statuses
    <3>. QED
      BY <1>5, <3>1, <3>2, <3>3 DEF DeleteAssessment, Exists
  <2>2. LoadedStillCounts'
    BY <1>5, <2>1, RequestFields DEF DeleteAssessment, RfiInv, LoadedStillCounts, StillCounts, Exists
  <2>. QED
    BY <1>5, <2>1, <2>2 DEF DeleteAssessment, RfiInv, AnsweredAdvances,
         ClosedHasDate, RespondedIsExplained, Exists
<1>6. CASE UNCHANGED vars
  BY <1>6 DEF vars, RfiInv, LoadedStillCounts, StillCounts, AnsweredAdvances, ClosedHasDate,
       RespondedIsExplained, Exists
<1>. QED
  BY <1>1, <1>2, <1>3, <1>4, <1>5, <1>6 DEF Next

\* What a request loaded still counts when it commits, and the three
\* properties below hold.
THEOREM RfiInvariant == Spec => []RfiInv
BY InitTypeOK, NextTypeOK, InitRfiInv, NextRfiInv, PTL DEF Spec

\* An RFI with replies is open only if somebody set it to open by hand.
THEOREM FirstReplyAdvances == Spec => []AnsweredAdvances
<1>1. RfiInv => AnsweredAdvances
  BY DEF RfiInv
<1>. QED
  BY <1>1, RfiInvariant, PTL

\* Status, reply and audit entry of an automatic advance stay together.
THEOREM AdvanceIsAtomic == Spec => []RespondedIsExplained
<1>1. RfiInv => RespondedIsExplained
  BY DEF RfiInv
<1>. QED
  BY <1>1, RfiInvariant, PTL

\* A closed RFI has its closing date.
THEOREM ClosingIsDated == Spec => []ClosedHasDate
<1>1. RfiInv => ClosedHasDate
  BY DEF RfiInv
<1>. QED
  BY <1>1, RfiInvariant, PTL

-----------------------------------------------------------------------------
(***************************************************************************)
(* Findings                                                                *)
(***************************************************************************)
\* The phase of a request tells which fields it has.
LEMMA FindingRequestFields ==
  ASSUME NEW r \in F!Requests \cup {F!Idle}
  PROVE  /\ r.phase \in {"updating", "deleting"} => r.finding \in Findings
         /\ r.phase = "updating" => r.loaded \in F!Rows /\ r.payload \in F!Payloads
  BY DEF F!Requests, F!Idle

\* What an update assigns, and what it leaves of a row that another request
\* has changed, is a row.
LEMMA UpdatedFinding ==
  ASSUME NEW loaded \in F!Rows, NEW p \in F!Payloads, NEW current \in F!Rows
  PROVE  /\ F!Updated(loaded, p) \in F!Rows
         /\ F!Flush(current, F!Updated(loaded, p),
                    F!Changed(loaded, F!Updated(loaded, p))) \in F!Rows
<1>1. F!DateAfterStatus(loaded, p.status) \in {F!Null, F!Stamped} \cup F!GivenDates
  BY DEF F!DateAfterStatus, F!Rows
<1>2. p.status = F!Keep \/ p.status \in F!Statuses
  BY DEF F!Payloads
<1>3. F!Updated(loaded, p) \in F!Rows
  BY <1>1, <1>2 DEF F!Updated, F!Rows, F!Payloads
<1> QED
  BY <1>3 DEF F!Flush, F!Rows

LEMMA FindingsInit == F!Init => F!DatesInv
  BY DEF F!Init, F!DatesInv, F!TypeOK, F!DrawnKeys, F!LoadedDates,
         F!DatedUnlessReopened, F!IsResolved, F!Exists, F!Idle

LEMMA FindingTypeNext == F!TypeOK /\ [F!Next]_findingVars => F!TypeOK'
<1> SUFFICES ASSUME F!TypeOK, [F!Next]_findingVars
             PROVE  F!TypeOK'
  OBVIOUS
<1>0. \A w \in FindingWorkers : findingReq[w] \in F!Requests \cup {F!Idle}
  BY DEF F!TypeOK
<1>1. ASSUME NEW w \in FindingWorkers, F!BeginCreate(w)
      PROVE  F!TypeOK'
  BY <1>1 DEF F!BeginCreate, F!TypeOK, F!Requests
<1>2. ASSUME NEW w \in FindingWorkers, F!CommitCreate(w)
      PROVE  F!TypeOK'
  BY <1>2 DEF F!CommitCreate, F!TypeOK, F!NewRow, F!Rows, F!Statuses, F!Unresolved
<1>3. ASSUME NEW w \in FindingWorkers, NEW f \in Findings, NEW p \in F!Payloads,
             F!LoadForUpdate(w, f, p)
      PROVE  F!TypeOK'
  BY <1>3 DEF F!LoadForUpdate, F!TypeOK, F!Requests, F!Exists
<1>4. ASSUME NEW w \in FindingWorkers, F!CommitUpdate(w)
      PROVE  F!TypeOK'
  <2>1. /\ findingReq[w].finding \in Findings
        /\ findingReq[w].loaded \in F!Rows
        /\ findingReq[w].payload \in F!Payloads
        /\ findingRow[findingReq[w].finding] \in F!Rows
    BY <1>0, <1>4, FindingRequestFields DEF F!CommitUpdate, F!TypeOK, F!Exists
  <2> QED
    BY <1>4, <2>1, UpdatedFinding DEF F!CommitUpdate, F!TypeOK
<1>5. ASSUME NEW w \in FindingWorkers, NEW f \in Findings, F!LoadForDelete(w, f)
      PROVE  F!TypeOK'
  BY <1>5 DEF F!LoadForDelete, F!TypeOK, F!Requests
<1>6. ASSUME NEW w \in FindingWorkers, F!CommitDelete(w)
      PROVE  F!TypeOK'
  BY <1>6 DEF F!CommitDelete, F!TypeOK
<1>7. ASSUME NEW w \in FindingWorkers, F!Abandon(w)
      PROVE  F!TypeOK'
  BY <1>7 DEF F!Abandon, F!TypeOK
<1>8. ASSUME F!DeleteAssessment
      PROVE  F!TypeOK'
  BY <1>8 DEF F!DeleteAssessment, F!TypeOK
<1>9. ASSUME UNCHANGED findingVars
      PROVE  F!TypeOK'
  BY <1>9 DEF findingVars, F!TypeOK
<1> QED
  BY <1>1, <1>2, <1>3, <1>4, <1>5, <1>6, <1>7, <1>8, <1>9 DEF F!Next

-----------------------------------------------------------------------------
\* The step that the invariant is about.  A date that the update leaves alone
\* was there when it was loaded, and what has become of it since is known; a
\* date that it removes is recorded.
LEMMA UpdateKeepsDates ==
  ASSUME F!DatesInv, NEW w \in FindingWorkers, F!CommitUpdate(w), F!TypeOK'
  PROVE  F!DatesInv'
<1> DEFINE r == findingReq[w]
           f == r.finding
           new == F!Updated(r.loaded, r.payload)
           columns == F!Changed(r.loaded, new)
<1>1. /\ f \in Findings
      /\ r.loaded \in F!Rows
      /\ r.payload \in F!Payloads
      /\ findingRow[f] \in F!Rows
      /\ \A v \in FindingWorkers : findingReq[v] \in F!Requests \cup {F!Idle}
  BY FindingRequestFields DEF F!CommitUpdate, F!DatesInv, F!TypeOK, F!Exists
<1>2. /\ new \in F!Rows
      /\ findingRow'[f] \in F!Rows
      /\ findingRow'[f] = F!Flush(findingRow[f], new, columns)
  BY <1>1, UpdatedFinding DEF F!CommitUpdate, F!DatesInv, F!TypeOK
<1>3. /\ findingRow'[f].status = IF new.status # r.loaded.status
                          THEN new.status ELSE findingRow[f].status
      /\ findingRow'[f].actual_close_date =
           IF new.actual_close_date # r.loaded.actual_close_date
           THEN new.actual_close_date ELSE findingRow[f].actual_close_date
  <2> HIDE DEF new
  <2>1. /\ DOMAIN findingRow[f] = {"status", "actual_close_date"}
        /\ DOMAIN new = {"status", "actual_close_date"}
    BY <1>1, <1>2 DEF F!Rows
  <2> QED
    BY <1>2, <2>1 DEF F!Flush, F!Changed
<1>4. /\ cleared \subseteq cleared'
      /\ new.actual_close_date # r.loaded.actual_close_date
           /\ new.actual_close_date = F!Null => f \in cleared'
      /\ \A g \in Findings : g # f => findingRow'[g] = findingRow[g]
      /\ findingReq' = [findingReq EXCEPT ![w] = F!Idle]
      /\ findingsDrawn' = findingsDrawn
  <2> HIDE DEF new
  <2>1. "actual_close_date" \in DOMAIN new
    BY <1>2 DEF F!Rows
  <2> QED
    BY <2>1, <1>1 DEF F!CommitUpdate, F!Changed, F!DatesInv, F!TypeOK, new
<1>5. F!DrawnKeys'
  <2>1. F!Exists(f) /\ f \in findingsDrawn
    BY <1>1 DEF F!CommitUpdate, F!DatesInv, F!DrawnKeys
  <2> QED
    BY <1>1, <1>4, <2>1 DEF F!DatesInv, F!TypeOK, F!DrawnKeys, F!Exists, F!Idle
<1>6. r.loaded.actual_close_date # F!Null =>
        findingRow[f].actual_close_date # F!Null \/ f \in cleared
  BY DEF F!CommitUpdate, F!DatesInv, F!LoadedDates
<1>7. F!DatedUnlessReopened'
  <2> SUFFICES ASSUME findingRow'[f].status \in F!Resolved,
                      findingRow'[f].actual_close_date = F!Null
               PROVE  f \in cleared'
    BY <1>1, <1>4 DEF F!DatesInv, F!DatedUnlessReopened, F!IsResolved, F!Exists
  <2>1. CASE new.actual_close_date # r.loaded.actual_close_date
    BY <1>3, <1>4, <2>1
  <2>2. CASE new.actual_close_date = r.loaded.actual_close_date
    <3>1. findingRow[f].actual_close_date = F!Null
      BY <1>3, <2>2
    <3>2. CASE r.loaded.actual_close_date # F!Null
      BY <1>4, <1>6, <3>1, <3>2
    <3>3. CASE r.loaded.actual_close_date = F!Null
      <4>1. r.payload.status \notin F!Resolved
        BY <1>1, <2>2, <3>3 DEF F!Updated, F!DateAfterStatus, F!Payloads, F!Rows,
                                F!Null, F!Stamped, F!GivenDates
      <4>2. new.status = r.loaded.status \/ new.status \notin F!Resolved
        BY <4>1 DEF F!Updated
      <4>3. findingRow[f].status \in F!Resolved
        BY <1>3, <4>2
      <4> QED
        BY <1>1, <1>4, <3>1, <4>3
           DEF F!DatesInv, F!DatedUnlessReopened, F!IsResolved, F!CommitUpdate
    <3> QED
      BY <3>2, <3>3
  <2> QED
    BY <2>1, <2>2
<1>8. F!LoadedDates'
  <2> SUFFICES ASSUME NEW v \in FindingWorkers, v # w, NEW q, q = findingReq[v],
                      q.phase = "updating"
               PROVE  /\ q.loaded.actual_close_date # F!Null /\ F!Exists(q.finding)' =>
                           \/ findingRow'[q.finding].actual_close_date # F!Null
                           \/ q.finding \in cleared'
                      /\ q.loaded.status \in F!Resolved
                           /\ q.loaded.actual_close_date = F!Null =>
                             q.finding \in cleared'
    BY <1>4 DEF F!DatesInv, F!TypeOK, F!LoadedDates, F!Idle
  <2>1. q.finding \in Findings
    BY <1>1, FindingRequestFields
  <2>2. /\ q.loaded.actual_close_date # F!Null /\ F!Exists(q.finding) =>
             \/ findingRow[q.finding].actual_close_date # F!Null
             \/ q.finding \in cleared
        /\ q.loaded.status \in F!Resolved
             /\ q.loaded.actual_close_date = F!Null => q.finding \in cleared
    BY DEF F!DatesInv, F!LoadedDates
  <2>3. CASE q.finding = f
    <3>1. F!Exists(f)
      BY DEF F!CommitUpdate
    <3> QED
      BY <1>3, <1>4, <2>2, <2>3, <3>1
  <2>4. CASE q.finding # f
    BY <1>4, <2>1, <2>2, <2>4 DEF F!Exists
  <2> QED
    BY <2>3, <2>4
<1> QED
  BY <1>5, <1>7, <1>8 DEF F!DatesInv

LEMMA FindingsNext == F!DatesInv /\ [F!Next]_findingVars => F!DatesInv'
<1> SUFFICES ASSUME F!DatesInv, [F!Next]_findingVars
             PROVE  F!DatesInv'
  OBVIOUS
<1>0. F!TypeOK /\ F!TypeOK'
  BY FindingTypeNext DEF F!DatesInv
<1>1. \A w \in FindingWorkers : findingReq[w] \in F!Requests \cup {F!Idle}
  BY <1>0 DEF F!TypeOK
<1>2. ASSUME NEW w \in FindingWorkers, F!BeginCreate(w)
      PROVE  F!DatesInv'
  BY <1>0, <1>2 DEF F!BeginCreate, F!TypeOK, F!DatesInv, F!DrawnKeys, F!LoadedDates,
                    F!DatedUnlessReopened, F!IsResolved, F!Exists
<1>3. ASSUME NEW w \in FindingWorkers, F!CommitCreate(w)
      PROVE  F!DatesInv'
  <2> PICK f \in Findings \ findingsDrawn :
        /\ findingRow' = [findingRow EXCEPT ![f] = F!NewRow]
        /\ findingsDrawn' = findingsDrawn \cup {f}
    BY <1>3 DEF F!CommitCreate
  <2>1. /\ findingReq' = [findingReq EXCEPT ![w] = F!Idle]
        /\ cleared' = cleared
    BY <1>3 DEF F!CommitCreate
  <2>2. \A v \in FindingWorkers :
          findingReq[v].phase = "updating" => findingReq[v].finding # f
    BY DEF F!DatesInv, F!DrawnKeys
  <2>3. F!NewRow.status \notin F!Resolved
    BY DEF F!NewRow, F!Resolved
  <2>4. F!DrawnKeys'
    BY <1>0, <2>1 DEF F!TypeOK, F!DatesInv, F!DrawnKeys, F!Exists, F!Idle
  <2>5. F!DatedUnlessReopened'
    BY <1>0, <2>1, <2>3 DEF F!TypeOK, F!DatesInv,
                            F!DatedUnlessReopened, F!IsResolved, F!Exists
  <2>6. F!LoadedDates'
    BY <1>0, <1>1, <2>1, <2>2, FindingRequestFields
       DEF F!TypeOK, F!DatesInv, F!LoadedDates, F!Exists, F!Idle
  <2> QED
    BY <1>0, <2>4, <2>5, <2>6 DEF F!DatesInv
<1>4. ASSUME NEW w \in FindingWorkers, NEW f \in Findings, NEW p \in F!Payloads,
             F!LoadForUpdate(w, f, p)
      PROVE  F!DatesInv'
  <2>1. findingRow[f].status \in F!Resolved
          /\ findingRow[f].actual_close_date = F!Null => f \in cleared
    BY <1>4 DEF F!LoadForUpdate, F!DatesInv, F!DatedUnlessReopened, F!IsResolved
  <2>2. F!LoadedDates'
    BY <1>0, <1>4, <2>1 DEF F!LoadForUpdate, F!TypeOK, F!DatesInv,
                            F!LoadedDates, F!Exists
  <2> QED
    BY <1>0, <1>4, <2>2 DEF F!LoadForUpdate, F!TypeOK, F!DatesInv, F!DrawnKeys,
                            F!DatedUnlessReopened, F!IsResolved, F!Exists
<1>5. ASSUME NEW w \in FindingWorkers, F!CommitUpdate(w)
      PROVE  F!DatesInv'
  BY <1>0, <1>5, UpdateKeepsDates
<1>6. ASSUME NEW w \in FindingWorkers, NEW f \in Findings, F!LoadForDelete(w, f)
      PROVE  F!DatesInv'
  BY <1>0, <1>6 DEF F!LoadForDelete, F!TypeOK, F!DatesInv, F!DrawnKeys, F!LoadedDates,
                    F!DatedUnlessReopened, F!IsResolved, F!Exists
<1>7. ASSUME NEW w \in FindingWorkers, F!CommitDelete(w)
      PROVE  F!DatesInv'
  BY <1>0, <1>1, <1>7, FindingRequestFields
     DEF F!CommitDelete, F!TypeOK, F!DatesInv, F!DrawnKeys, F!LoadedDates,
         F!DatedUnlessReopened, F!IsResolved, F!Exists, F!Idle
<1>8. ASSUME NEW w \in FindingWorkers, F!Abandon(w)
      PROVE  F!DatesInv'
  BY <1>0, <1>8 DEF F!Abandon, F!TypeOK, F!DatesInv, F!DrawnKeys, F!LoadedDates,
                    F!DatedUnlessReopened, F!IsResolved, F!Exists, F!Idle
<1>9. ASSUME F!DeleteAssessment
      PROVE  F!DatesInv'
  BY <1>0, <1>1, <1>9, FindingRequestFields
     DEF F!DeleteAssessment, F!TypeOK, F!DatesInv, F!DrawnKeys, F!LoadedDates,
         F!DatedUnlessReopened, F!IsResolved, F!Exists
<1>10. ASSUME UNCHANGED findingVars
       PROVE  F!DatesInv'
  BY <1>0, <1>10 DEF findingVars, F!TypeOK, F!DatesInv, F!DrawnKeys, F!LoadedDates,
                     F!DatedUnlessReopened, F!IsResolved, F!Exists
<1> QED
  BY <1>2, <1>3, <1>4, <1>5, <1>6, <1>7, <1>8, <1>9, <1>10 DEF F!Next

-----------------------------------------------------------------------------
\* What a racing update has loaded accounts for every closing date that is
\* missing.
THEOREM DatesInvariant == F!Spec => []F!DatesInv
  BY FindingsInit, FindingsNext, PTL DEF F!Spec, F!vars, findingVars

\* No mixture of columns that racing updates write leaves a finding outside
\* its type.
THEOREM FindingsTypeCorrect == F!Spec => []F!TypeOK
<1>1. F!DatesInv => F!TypeOK
  BY DEF F!DatesInv
<1> QED
  BY <1>1, DatesInvariant, PTL

\* A resolved finding without a closing date has been reopened by an update.
THEOREM ResolvingIsDated == MCSpec => []DatedUnlessReopened
<1>1. F!DatesInv => DatedUnlessReopened
  BY DEF F!DatesInv, DatedUnlessReopened
<1> QED
  BY <1>1, TrackersAreIndependent, DatesInvariant, PTL

-----------------------------------------------------------------------------
(***************************************************************************)
(* Notes of the controls                                                   *)
(***************************************************************************)
\* Only a loaded request still has the row it found, and the phase of a
\* request tells which fields it has.
LEMMA NoteRequestFields ==
  ASSUME NEW r \in N!Requests \cup {N!Idle}
  PROVE  /\ r.phase \in {"loaded", "reviewing"} =>
              /\ r.key \in N!Keys
              /\ r.loaded \in N!Rows \cup {N!NoNote}
         /\ r.phase = "loaded" => r.payload \in N!Payloads
         /\ r.phase \in {"logged", "rolled_back"} =>
              /\ r.key \in N!Keys
              /\ r.payload \in N!Overriding
         /\ r.phase = "reviewing" => r.review \in Reviews
         /\ r.phase \in {"cloning", "copying"} => r.source \in Assessments
         /\ r.phase = "copying" => r.copies \in [Controls -> N!Rows \cup {N!NoNote}]
  BY DEF N!Requests, N!Idle

\* A payload that sets an override gives its justification too.
LEMMA OverridingPayload ==
  ASSUME NEW p \in N!Payloads, N!SetsOverride(p)
  PROVE  p \in N!Overriding
  BY DEF N!Payloads, N!SetsOverride

\* A stored row is the value of an INSERT or a mixture of two rows.
LEMMA StoreType ==
  ASSUME N!TypeOK, NEW c \in N!Keys, NEW loaded \in N!Rows \cup {N!NoNote},
         NEW new \in N!Rows, NEW columns, N!Store(c, loaded, new, columns)
  PROVE  note' \in [N!Keys -> N!Rows \cup {N!NoNote}]
<1>1. CASE /\ loaded = N!NoNote
           /\ note' = [note EXCEPT ![c] = new]
  BY <1>1 DEF N!TypeOK
<1>2. CASE /\ N!HasNote(c)
           /\ note' = [note EXCEPT ![c] = N!Flush(@, new, columns)]
  <2>1. note[c] \in N!Rows
    BY <1>2 DEF N!TypeOK, N!HasNote
  <2>2. N!Flush(note[c], new, columns) \in N!Rows
    BY <2>1 DEF N!Flush, N!Rows
  <2> QED
    BY <1>2, <2>2 DEF N!TypeOK
<1>3. CASE UNCHANGED note
  BY <1>3 DEF N!TypeOK
<1> QED
  BY <1>1, <1>2, <1>3 DEF N!Store

\* What an update or a review works on is a row.
LEMMA BaseType ==
  ASSUME NEW loaded \in N!Rows \cup {N!NoNote}
  PROVE  N!Base(loaded) \in N!Rows
  BY DEF N!Base, N!Rows, N!NewNote, N!NoNote

LEMMA NoteTypeInit == N!Init => N!TypeOK
  BY DEF N!Init, N!TypeOK

LEMMA NoteTypeNext == N!TypeOK /\ [N!Next]_noteVars => N!TypeOK'
<1> SUFFICES ASSUME N!TypeOK, [N!Next]_noteVars
             PROVE  N!TypeOK'
  OBVIOUS
<1>0. \A w \in NoteWorkers : noteReq[w] \in N!Requests \cup {N!Idle}
  BY DEF N!TypeOK
<1>1. ASSUME NEW w \in NoteWorkers, NEW c \in N!Keys, NEW p \in N!Payloads,
             N!LoadNote(w, c, p)
      PROVE  N!TypeOK'
  BY <1>1 DEF N!LoadNote, N!table, N!TypeOK, N!Requests
<1>2. ASSUME NEW w \in NoteWorkers, NEW c \in N!Keys, NEW s \in Reviews,
             N!LoadReview(w, c, s)
      PROVE  N!TypeOK'
  BY <1>2 DEF N!LoadReview, N!table, N!TypeOK, N!Requests
<1>3. ASSUME NEW w \in NoteWorkers, N!LogOverride(w)
      PROVE  N!TypeOK'
  <2> DEFINE r == noteReq[w]
             new == [N!Base(r.loaded) EXCEPT !.override_status = r.payload.override]
  <2>1. /\ r.key \in N!Keys
        /\ r.loaded \in N!Rows \cup {N!NoNote}
        /\ r.payload \in N!Overriding
        /\ r.payload.override \in Overrides
    BY <1>0, <1>3, NoteRequestFields, OverridingPayload DEF N!LogOverride, N!Overriding
  <2>2. new \in N!Rows
    BY <2>1, BaseType DEF N!Rows
  <2>3. note' \in [N!Keys -> N!Rows \cup {N!NoNote}]
    BY <1>3, <2>1, <2>2, StoreType DEF N!LogOverride
  <2>4. /\ UNCHANGED <<assessments, unused, origin, lost>>
        /\ notesLogged' = notesLogged \cup {<<r.key, r.payload.override>>}
        /\ noteReq' = [noteReq EXCEPT ![w] = [phase |-> "logged", key |-> r.key,
                                      payload |-> r.payload]]
    BY <1>3 DEF N!LogOverride, N!table
  <2>5. notesLogged' \subseteq N!Keys \X Overrides
    BY <2>1, <2>4 DEF N!TypeOK
  <2>6. noteReq' \in [NoteWorkers -> N!Requests \cup {N!Idle}]
    BY <2>1, <2>4 DEF N!TypeOK, N!Requests
  <2> QED
    BY <2>3, <2>4, <2>5, <2>6 DEF N!TypeOK
<1>4. ASSUME NEW w \in NoteWorkers, N!RefuseOverride(w)
      PROVE  N!TypeOK'
  <2>1. noteReq[w].key \in N!Keys /\ noteReq[w].payload \in N!Overriding
    BY <1>0, <1>4, NoteRequestFields, OverridingPayload DEF N!RefuseOverride
  <2> QED
    BY <1>4, <2>1 DEF N!RefuseOverride, N!table, N!TypeOK, N!Requests
<1>5. ASSUME NEW w \in NoteWorkers, N!CommitEdit(w)
      PROVE  N!TypeOK'
  <2>1. noteReq[w].key \in N!Keys /\ noteReq[w].loaded \in N!Rows \cup {N!NoNote}
    BY <1>0, <1>5, NoteRequestFields DEF N!CommitEdit
  <2>2. N!Edited(noteReq[w].loaded, noteReq[w].payload) \in N!Rows
    BY <2>1, BaseType DEF N!Edited, N!Rows
  <2>3. note' \in [N!Keys -> N!Rows \cup {N!NoNote}]
    BY <1>5, <2>1, <2>2, StoreType DEF N!CommitEdit
  <2> QED
    BY <1>5, <2>3 DEF N!CommitEdit, N!table, N!TypeOK
<1>6. ASSUME NEW w \in NoteWorkers, N!CommitJustification(w)
      PROVE  N!TypeOK'
  <2> DEFINE r == noteReq[w]
  <2>1. /\ r.key \in N!Keys
        /\ r.payload \in N!Overriding
        /\ note[r.key] \in N!Rows
    BY <1>0, <1>6, NoteRequestFields DEF N!CommitJustification, N!table, N!TypeOK, N!HasNote
  <2>2. r.payload.justification \in Overrides
    BY <2>1 DEF N!Overriding
  <2>3. note' \in [N!Keys -> N!Rows \cup {N!NoNote}]
    BY <1>6, <2>1, <2>2 DEF N!CommitJustification, N!table, N!TypeOK, N!Rows
  <2> QED
    BY <1>6, <2>1, <2>3 DEF N!CommitJustification, N!table, N!TypeOK
<1>7. ASSUME NEW w \in NoteWorkers, N!CommitReview(w)
      PROVE  N!TypeOK'
  <2> DEFINE r == noteReq[w]
             new == [N!Base(r.loaded) EXCEPT !.review_status = r.review]
  <2>1. /\ r.key \in N!Keys
        /\ r.loaded \in N!Rows \cup {N!NoNote}
        /\ r.review \in Reviews
    BY <1>0, <1>7, NoteRequestFields DEF N!CommitReview
  <2>2. new \in N!Rows
    BY <2>1, BaseType DEF N!Rows
  <2>3. note' \in [N!Keys -> N!Rows \cup {N!NoNote}]
    BY <1>7, <2>1, <2>2, StoreType DEF N!CommitReview
  <2> QED
    BY <1>7, <2>3 DEF N!CommitReview, N!table, N!TypeOK
<1>8. ASSUME NEW w \in NoteWorkers, N!Abandon(w)
      PROVE  N!TypeOK'
  BY <1>8 DEF N!Abandon, N!table, N!TypeOK
<1>9. ASSUME NEW a \in Assessments, N!CreateAssessment(a) \/ N!DeleteAssessment(a)
      PROVE  N!TypeOK'
  BY <1>9 DEF N!CreateAssessment, N!DeleteAssessment, N!TypeOK, N!Keys
<1>10. ASSUME UNCHANGED noteVars
       PROVE  N!TypeOK'
  BY <1>10 DEF noteVars, N!TypeOK
<1>11. ASSUME NEW w \in NoteWorkers, NEW a \in Assessments, N!LoadSource(w, a)
       PROVE  N!TypeOK'
  BY <1>11 DEF N!LoadSource, N!TypeOK, N!Requests, N!table
<1>12. ASSUME NEW w \in NoteWorkers, N!CopyNotes(w)
       PROVE  N!TypeOK'
  <2> DEFINE copies == [c \in Controls |-> N!Copy(note[<<noteReq[w].source, c>>])]
  <2>1. noteReq[w].source \in Assessments
    BY <1>0, <1>12, NoteRequestFields DEF N!CopyNotes
  <2>2. copies \in [Controls -> N!Rows \cup {N!NoNote}]
    BY <2>1 DEF N!Copy, N!TypeOK, N!Keys, N!Rows, N!NotReviewed
  <2> QED
    BY <1>12, <2>1, <2>2 DEF N!CopyNotes, N!TypeOK, N!Requests, N!table
<1>13. ASSUME NEW w \in NoteWorkers, NEW b \in Assessments, N!CommitClone(w, b)
       PROVE  N!TypeOK'
  <2>1. /\ noteReq[w].source \in Assessments
        /\ noteReq[w].copies \in [Controls -> N!Rows \cup {N!NoNote}]
    BY <1>0, <1>13, NoteRequestFields DEF N!CommitClone
  <2>2. note' \in [N!Keys -> N!Rows \cup {N!NoNote}]
    BY <1>13, <2>1 DEF N!CommitClone, N!TypeOK, N!Keys
  <2>3. origin' \in [Assessments -> SUBSET Assessments]
    BY <1>13, <2>1 DEF N!CommitClone, N!TypeOK
  <2> QED
    BY <1>13, <2>2, <2>3 DEF N!CommitClone, N!TypeOK
<1> QED
  BY <1>1, <1>2, <1>3, <1>4, <1>5, <1>6, <1>7, <1>8, <1>9, <1>10, <1>11, <1>12, <1>13
     DEF N!Next

\* No mixture of columns that racing updates and reviews write leaves a note
\* outside its type.
THEOREM NotesTypeCorrect == N!Spec => []N!TypeOK
  BY NoteTypeInit, NoteTypeNext, PTL DEF N!Spec, N!vars, N!table, noteVars

-----------------------------------------------------------------------------
\* A row that Store leaves has its override from the row that was there, or
\* the new one when that column was written or the row is new.
LEMMA StoreOverride ==
  ASSUME N!TypeOK, NEW c \in N!Keys, NEW loaded \in N!Rows \cup {N!NoNote},
         NEW new \in N!Rows, NEW d \in N!Keys,
         N!Store(c, loaded, new, N!Changed(N!Base(loaded), new)), N!HasNote(d)'
  PROVE  \/ N!HasNote(d) /\ note'[d].override_status = note[d].override_status
         \/ /\ d = c
            /\ note'[d].override_status = new.override_status
            /\ loaded = N!NoNote \/ new.override_status # loaded.override_status
<1>1. CASE /\ loaded = N!NoNote
           /\ note' = [note EXCEPT ![c] = new]
  BY <1>1 DEF N!TypeOK, N!HasNote
<1>2. CASE /\ loaded # N!NoNote
           /\ N!HasNote(c)
           /\ note' = [note EXCEPT ![c] =
                         N!Flush(@, new, N!Changed(N!Base(loaded), new))]
  <2>1. CASE d = c
    <3>1. note[c] \in N!Rows /\ loaded \in N!Rows
      BY <1>2 DEF N!TypeOK, N!HasNote
    <3>2. note'[c].override_status =
            IF "override_status" \in N!Changed(loaded, new)
            THEN new.override_status ELSE note[c].override_status
      BY <1>2, <3>1 DEF N!TypeOK, N!Flush, N!Base, N!Rows
    <3>3. "override_status" \in N!Changed(loaded, new) =>
            new.override_status # loaded.override_status
      BY <3>1 DEF N!Changed, N!Rows
    <3> QED
      BY <1>2, <2>1, <3>2, <3>3
  <2>2. CASE d # c
    BY <1>2, <2>2 DEF N!TypeOK, N!HasNote
  <2> QED
    BY <2>1, <2>2
<1>3. CASE UNCHANGED note
  BY <1>3 DEF N!HasNote
<1> QED
  BY <1>1, <1>2, <1>3 DEF N!Store

LEMMA NotesInvInit == N!Init => N!NotesInv
<1> SUFFICES ASSUME N!Init
             PROVE  N!NotesInv
  OBVIOUS
<1>1. \A w \in NoteWorkers : noteReq[w].phase = "idle"
  BY DEF N!Init, N!Idle
<1>2. \A k \in N!Keys : ~ N!HasNote(k)
  BY DEF N!Init, N!HasNote
<1> QED
  BY <1>1, <1>2 DEF N!Init, N!NotesInv, N!SourcesAreDrawn, N!CopiesAreTraceable,
                    N!OverridesAreTraceable

\* The origin of an assessment that has been drawn is settled, and entries of
\* the log stay.
LEMMA OriginStays ==
  ASSUME N!TypeOK, [N!Next]_noteVars
  PROVE  /\ notesLogged \subseteq notesLogged'
         /\ \A a \in Assessments : a \notin unused => a \notin unused' /\ origin'[a] = origin[a]
<1>1. ASSUME NEW a \in Assessments, N!CreateAssessment(a)
      PROVE  /\ notesLogged' = notesLogged
             /\ a \in unused /\ unused' = unused \ {a}
             /\ \A b \in Assessments : b # a => origin'[b] = origin[b]
  BY <1>1 DEF N!CreateAssessment, N!TypeOK
<1>2. ASSUME NEW w \in NoteWorkers, NEW a \in Assessments, N!CommitClone(w, a)
      PROVE  /\ notesLogged' = notesLogged
             /\ a \in unused /\ unused' = unused \ {a}
             /\ \A b \in Assessments : b # a => origin'[b] = origin[b]
  BY <1>2 DEF N!CommitClone, N!TypeOK
<1>3. CASE /\ UNCHANGED <<unused, origin>>
           /\ notesLogged \subseteq notesLogged'
  BY <1>3
<1>4. ASSUME NEW w \in NoteWorkers, N!LogOverride(w)
      PROVE  UNCHANGED <<unused, origin>> /\ notesLogged \subseteq notesLogged'
  BY <1>4 DEF N!LogOverride, N!table
<1> QED
  BY <1>1, <1>2, <1>3, <1>4
     DEF N!Next, N!LoadNote, N!LoadReview, N!RefuseOverride, N!CommitEdit,
         N!CommitJustification, N!CommitReview, N!LoadSource, N!CopyNotes,
         N!Abandon, N!DeleteAssessment, N!table, noteVars

\* A source is of the assessments that have been drawn, and so is every
\* assessment that has notes.
LEMMA SourcesNext ==
  ASSUME N!TypeOK, N!SourcesAreDrawn, [N!Next]_noteVars
  PROVE  N!SourcesAreDrawn'
<1>0. \A w \in NoteWorkers : noteReq[w] \in N!Requests \cup {N!Idle}
  BY DEF N!TypeOK
<1>1. \A a \in assessments' : a \in origin'[a]
  <2>1. ASSUME NEW a \in Assessments, N!CreateAssessment(a)
        PROVE  \A b \in assessments' : b \in origin'[b]
    BY <2>1 DEF N!CreateAssessment, N!TypeOK, N!SourcesAreDrawn
  <2>2. ASSUME NEW w \in NoteWorkers, NEW a \in Assessments, N!CommitClone(w, a)
        PROVE  \A b \in assessments' : b \in origin'[b]
    BY <2>2 DEF N!CommitClone, N!TypeOK, N!SourcesAreDrawn
  <2>3. CASE assessments' \subseteq assessments /\ UNCHANGED origin
    BY <2>3 DEF N!SourcesAreDrawn
  <2> QED
    BY <2>1, <2>2, <2>3
       DEF N!Next, N!LoadNote, N!LoadReview, N!LogOverride, N!RefuseOverride,
           N!CommitEdit, N!CommitJustification, N!CommitReview, N!LoadSource,
           N!CopyNotes, N!Abandon, N!DeleteAssessment, N!table, noteVars
<1>2. ASSUME NEW v \in NoteWorkers, noteReq'[v].phase \in {"cloning", "copying"}
      PROVE  noteReq'[v].source \notin unused'
  <2>1. ASSUME noteReq'[v].source \in Assessments \ unused
        PROVE  noteReq'[v].source \notin unused'
    BY <2>1, OriginStays
  <2>2. CASE noteReq'[v] = noteReq[v]
    BY <1>0, <1>2, <2>1, <2>2, NoteRequestFields DEF N!SourcesAreDrawn
  <2>3. ASSUME NEW a \in Assessments, N!LoadSource(v, a)
        PROVE  noteReq'[v].source \in Assessments \ unused
    BY <2>3 DEF N!LoadSource, N!TypeOK
  <2>4. ASSUME N!CopyNotes(v)
        PROVE  noteReq'[v].source \in Assessments \ unused
    BY <1>0, <2>4, NoteRequestFields DEF N!CopyNotes, N!TypeOK, N!SourcesAreDrawn
  <2>5. CASE noteReq'[v].phase \notin {"cloning", "copying"}
    BY <1>2, <2>5
  <2>6. ASSUME NEW w \in NoteWorkers, NEW q, noteReq' = [noteReq EXCEPT ![w] = q],
               w = v => q.phase \notin {"cloning", "copying"}
        PROVE  noteReq'[v] = noteReq[v] \/ noteReq'[v].phase \notin {"cloning", "copying"}
    BY <2>6 DEF N!TypeOK
  <2>7. N!Idle.phase \notin {"cloning", "copying"}
    BY DEF N!Idle
  <2>8. ASSUME NEW w \in NoteWorkers,
               \/ \E k \in N!Keys, p \in N!Payloads : N!LoadNote(w, k, p)
               \/ \E k \in N!Keys, s \in Reviews : N!LoadReview(w, k, s)
               \/ N!LogOverride(w)
               \/ N!RefuseOverride(w)
               \/ N!CommitEdit(w)
               \/ N!CommitJustification(w)
               \/ N!CommitReview(w)
               \/ \E b \in Assessments : N!CommitClone(w, b)
               \/ N!Abandon(w)
        PROVE  noteReq'[v] = noteReq[v] \/ noteReq'[v].phase \notin {"cloning", "copying"}
    BY <2>7, <2>8
       DEF N!LoadNote, N!LoadReview, N!LogOverride, N!RefuseOverride, N!CommitEdit,
           N!CommitJustification, N!CommitReview, N!CommitClone, N!Abandon, N!TypeOK
  <2>9. ASSUME NEW w \in NoteWorkers, w # v,
               N!CopyNotes(w) \/ \E a \in Assessments : N!LoadSource(w, a)
        PROVE  noteReq'[v] = noteReq[v]
    BY <2>9 DEF N!CopyNotes, N!LoadSource, N!TypeOK
  <2>10. ASSUME NEW a \in Assessments, N!CreateAssessment(a) \/ N!DeleteAssessment(a)
         PROVE  noteReq'[v] = noteReq[v]
    BY <2>10 DEF N!CreateAssessment, N!DeleteAssessment
  <2>11. CASE UNCHANGED noteVars
    BY <2>2, <2>11 DEF noteVars
  <2> QED
    BY <2>1, <2>2, <2>3, <2>4, <2>5, <2>8, <2>9, <2>10, <2>11 DEF N!Next
<1>3. ASSUME NEW k \in N!Keys, N!HasNote(k)'
      PROVE  k[1] \in assessments'
  <2>1. ASSUME NEW c \in N!Keys, NEW loaded, NEW new, NEW columns,
               N!Store(c, loaded, new, columns), UNCHANGED assessments
        PROVE  k[1] \in assessments'
    BY <1>3, <2>1 DEF N!Store, N!HasNote, N!TypeOK, N!SourcesAreDrawn
  <2>2. CASE UNCHANGED <<note, assessments>>
    BY <1>3, <2>2 DEF N!HasNote, N!SourcesAreDrawn
  <2>3. ASSUME NEW w \in NoteWorkers, N!LogOverride(w) \/ N!CommitEdit(w) \/ N!CommitReview(w)
        PROVE  k[1] \in assessments'
    <3>1. noteReq[w].key \in N!Keys
      BY <1>0, <2>3, NoteRequestFields DEF N!LogOverride, N!CommitEdit, N!CommitReview
    <3> QED
      BY <2>1, <2>3, <3>1 DEF N!LogOverride, N!CommitEdit, N!CommitReview, N!table
  <2>4. ASSUME NEW w \in NoteWorkers, N!CommitJustification(w)
        PROVE  k[1] \in assessments'
    BY <1>3, <2>4 DEF N!CommitJustification, N!HasNote, N!TypeOK, N!SourcesAreDrawn, N!table
  <2>5. ASSUME NEW w \in NoteWorkers, NEW b \in Assessments, N!CommitClone(w, b)
        PROVE  k[1] \in assessments'
    BY <1>3, <2>5 DEF N!CommitClone, N!HasNote, N!SourcesAreDrawn
  <2>6. ASSUME NEW a \in Assessments, N!CreateAssessment(a)
        PROVE  k[1] \in assessments'
    BY <1>3, <2>6 DEF N!CreateAssessment, N!HasNote, N!SourcesAreDrawn
  <2>7. ASSUME NEW a \in Assessments, N!DeleteAssessment(a)
        PROVE  k[1] \in assessments'
    BY <1>3, <2>7 DEF N!DeleteAssessment, N!HasNote, N!SourcesAreDrawn
  <2> QED
    BY <2>2, <2>3, <2>4, <2>5, <2>6, <2>7
       DEF N!Next, N!LoadNote, N!LoadReview, N!RefuseOverride, N!LoadSource,
           N!CopyNotes, N!Abandon, N!table, noteVars
<1> QED
  BY <1>1, <1>2, <1>3 DEF N!SourcesAreDrawn

\* The notes that a clone has read have their entries, and those of the
\* assessment they come from are not the clone's to change.
LEMMA CopiesNext ==
  ASSUME N!TypeOK, N!NotesInv, [N!Next]_noteVars
  PROVE  N!CopiesAreTraceable'
<1> SUFFICES ASSUME NEW v \in NoteWorkers, noteReq'[v].phase = "copying",
                    NEW c \in Controls, noteReq'[v].copies[c] # N!NoNote,
                    noteReq'[v].copies[c].override_status # N!Null
             PROVE  \E a \in origin'[noteReq'[v].source] :
                      <<<<a, c>>, noteReq'[v].copies[c].override_status>> \in notesLogged'
  BY DEF N!CopiesAreTraceable
<1>0. \A w \in NoteWorkers : noteReq[w] \in N!Requests \cup {N!Idle}
  BY DEF N!TypeOK
<1>1. CASE noteReq'[v] = noteReq[v]
  <2>1. noteReq[v].source \in Assessments \ unused
    BY <1>0, <1>1, NoteRequestFields DEF N!NotesInv, N!SourcesAreDrawn
  <2>2. \E a \in origin[noteReq[v].source] :
          <<<<a, c>>, noteReq[v].copies[c].override_status>> \in notesLogged
    BY <1>1 DEF N!NotesInv, N!CopiesAreTraceable
  <2> QED
    BY <1>1, <2>1, <2>2, OriginStays
<1>2. CASE N!CopyNotes(v)
  <2> DEFINE src == noteReq[v].source
  <2>1. src \in Assessments \ unused
    BY <1>0, <1>2, NoteRequestFields DEF N!CopyNotes, N!NotesInv, N!SourcesAreDrawn
  <2>2. /\ noteReq'[v].source = src
        /\ noteReq'[v].copies[c] = N!Copy(note[<<src, c>>])
    BY <1>2 DEF N!CopyNotes, N!TypeOK
  <2>3. <<src, c>> \in N!Keys
    BY <2>1 DEF N!Keys
  <2>4. /\ note[<<src, c>>] \in N!Rows
        /\ noteReq'[v].copies[c].override_status = note[<<src, c>>].override_status
    BY <2>2, <2>3 DEF N!Copy, N!TypeOK, N!Rows
  <2>5. N!HasNote(<<src, c>>)
    BY <2>2 DEF N!Copy, N!HasNote
  <2>6. \E a \in origin[src] : <<<<a, c>>, note[<<src, c>>].override_status>> \in notesLogged
    <3> DEFINE k == <<src, c>>
    <3>1. k[1] = src /\ k[2] = c
      OBVIOUS
    <3>2. \E a \in origin[k[1]] : <<<<a, k[2]>>, note[k].override_status>> \in notesLogged
      BY <2>3, <2>4, <2>5 DEF N!NotesInv, N!OverridesAreTraceable
    <3> QED
      BY <3>1, <3>2
  <2> QED
    BY <2>1, <2>2, <2>4, <2>6, OriginStays
<1>3. ASSUME NEW w \in NoteWorkers, NEW q, q.phase # "copying",
             noteReq' = [noteReq EXCEPT ![w] = q]
      PROVE  noteReq'[v] = noteReq[v]
  BY <1>3 DEF N!TypeOK
<1>4. ASSUME NEW w \in NoteWorkers, w # v, N!CopyNotes(w)
      PROVE  noteReq'[v] = noteReq[v]
  BY <1>4 DEF N!CopyNotes, N!TypeOK
<1>5. ASSUME NEW w \in NoteWorkers,
             \/ \E k \in N!Keys, p \in N!Payloads : N!LoadNote(w, k, p)
             \/ \E k \in N!Keys, s \in Reviews : N!LoadReview(w, k, s)
             \/ N!LogOverride(w)
             \/ N!RefuseOverride(w)
             \/ N!CommitEdit(w)
             \/ N!CommitJustification(w)
             \/ N!CommitReview(w)
             \/ \E a \in Assessments : N!LoadSource(w, a) \/ N!CommitClone(w, a)
             \/ N!Abandon(w)
      PROVE  noteReq'[v] = noteReq[v]
  BY <1>5
     DEF N!LoadNote, N!LoadReview, N!LogOverride, N!RefuseOverride, N!CommitEdit,
         N!CommitJustification, N!CommitReview, N!LoadSource, N!CommitClone,
         N!Abandon, N!TypeOK, N!Idle
<1>6. ASSUME NEW a \in Assessments, N!CreateAssessment(a) \/ N!DeleteAssessment(a)
      PROVE  noteReq'[v] = noteReq[v]
  BY <1>6 DEF N!CreateAssessment, N!DeleteAssessment
<1>7. UNCHANGED noteVars => noteReq'[v] = noteReq[v]
  BY DEF noteVars
<1> QED
  BY <1>1, <1>2, <1>4, <1>5, <1>6, <1>7 DEF N!Next

\* An override that a step leaves in force has an entry: its own, the one it
\* had, or the one that its clone has brought.
LEMMA TraceableNext ==
  ASSUME N!TypeOK, N!NotesInv, [N!Next]_noteVars
  PROVE  N!OverridesAreTraceable'
<1> SUFFICES ASSUME NEW d \in N!Keys, N!HasNote(d)',
                    note'[d].override_status # N!Null
             PROVE  \E a \in origin'[d[1]] :
                      <<<<a, d[2]>>, note'[d].override_status>> \in notesLogged'
  BY DEF N!OverridesAreTraceable
<1>0. /\ \A w \in NoteWorkers : noteReq[w] \in N!Requests \cup {N!Idle}
      /\ d[1] \in Assessments /\ d[2] \in Controls /\ d = <<d[1], d[2]>>
  BY DEF N!TypeOK, N!Keys
<1>1. CASE N!HasNote(d) /\ note'[d].override_status = note[d].override_status
  <2>1. d[1] \in Assessments \ unused
    BY <1>0, <1>1 DEF N!NotesInv, N!SourcesAreDrawn, N!TypeOK
  <2>2. \E a \in origin[d[1]] : <<<<a, d[2]>>, note[d].override_status>> \in notesLogged
    BY <1>1 DEF N!NotesInv, N!OverridesAreTraceable
  <2> QED
    BY <1>1, <2>1, <2>2, OriginStays
<1>2. ASSUME NEW w \in NoteWorkers, N!LogOverride(w)
      PROVE  \E a \in origin'[d[1]] :
               <<<<a, d[2]>>, note'[d].override_status>> \in notesLogged'
  <2> DEFINE r == noteReq[w]
             new == [N!Base(r.loaded) EXCEPT !.override_status = r.payload.override]
  <2>1. /\ r.key \in N!Keys
        /\ r.loaded \in N!Rows \cup {N!NoNote}
        /\ r.payload.override \in Overrides
    BY <1>0, <1>2, NoteRequestFields, OverridingPayload DEF N!LogOverride, N!Overriding
  <2>2. new \in N!Rows /\ new.override_status = r.payload.override
    BY <2>1, BaseType DEF N!Rows
  <2>3. /\ N!Store(r.key, r.loaded, new, N!Changed(N!Base(r.loaded), new))
        /\ <<r.key, r.payload.override>> \in notesLogged'
        /\ UNCHANGED <<assessments, origin>>
    BY <1>2 DEF N!LogOverride, N!table
  <2> HIDE DEF new
  <2>4. \/ N!HasNote(d) /\ note'[d].override_status = note[d].override_status
        \/ d = r.key /\ note'[d].override_status = new.override_status
    BY <2>1, <2>2, <2>3, StoreOverride
  <2>5. N!SourcesAreDrawn'
    BY SourcesNext DEF N!NotesInv
  <2>6. d[1] \in origin'[d[1]]
    BY <2>5 DEF N!SourcesAreDrawn
  <2> QED
    BY <1>0, <1>1, <2>2, <2>3, <2>4, <2>6
<1>3. ASSUME NEW w \in NoteWorkers, N!CommitEdit(w)
      PROVE  N!HasNote(d) /\ note'[d].override_status = note[d].override_status
  <2> DEFINE r == noteReq[w]
             new == N!Edited(r.loaded, r.payload)
  <2>1. r.key \in N!Keys /\ r.loaded \in N!Rows \cup {N!NoNote}
    BY <1>0, <1>3, NoteRequestFields DEF N!CommitEdit
  <2>2. /\ new \in N!Rows
        /\ \/ new.override_status = N!Null
           \/ r.loaded # N!NoNote /\ new.override_status = r.loaded.override_status
    BY <2>1, BaseType DEF N!Edited, N!Rows, N!Base, N!NewNote
  <2>3. N!Store(r.key, r.loaded, new, N!Changed(N!Base(r.loaded), new))
    BY <1>3 DEF N!CommitEdit
  <2> HIDE DEF new
  <2>4. \/ N!HasNote(d) /\ note'[d].override_status = note[d].override_status
        \/ /\ note'[d].override_status = new.override_status
           /\ r.loaded = N!NoNote \/ new.override_status # r.loaded.override_status
    BY <2>1, <2>2, <2>3, StoreOverride
  <2> QED
    BY <2>2, <2>4
<1>4. ASSUME NEW w \in NoteWorkers, N!CommitReview(w)
      PROVE  N!HasNote(d) /\ note'[d].override_status = note[d].override_status
  <2> DEFINE r == noteReq[w]
             new == [N!Base(r.loaded) EXCEPT !.review_status = r.review]
  <2>1. /\ r.key \in N!Keys
        /\ r.loaded \in N!Rows \cup {N!NoNote}
        /\ r.review \in Reviews
    BY <1>0, <1>4, NoteRequestFields DEF N!CommitReview
  <2>2. /\ new \in N!Rows
        /\ \/ new.override_status = N!Null
           \/ r.loaded # N!NoNote /\ new.override_status = r.loaded.override_status
    BY <2>1, BaseType DEF N!Rows, N!Base, N!NewNote
  <2>3. N!Store(r.key, r.loaded, new, N!Changed(N!Base(r.loaded), new))
    BY <1>4 DEF N!CommitReview
  <2> HIDE DEF new
  <2>4. \/ N!HasNote(d) /\ note'[d].override_status = note[d].override_status
        \/ /\ note'[d].override_status = new.override_status
           /\ r.loaded = N!NoNote \/ new.override_status # r.loaded.override_status
    BY <2>1, <2>2, <2>3, StoreOverride
  <2> QED
    BY <2>2, <2>4
<1>5. ASSUME NEW w \in NoteWorkers, N!CommitJustification(w)
      PROVE  N!HasNote(d) /\ note'[d].override_status = note[d].override_status
  <2>1. noteReq[w].key \in N!Keys /\ note[noteReq[w].key] \in N!Rows
    BY <1>0, <1>5, NoteRequestFields DEF N!CommitJustification, N!TypeOK, N!HasNote
  <2> QED
    BY <1>5, <2>1 DEF N!CommitJustification, N!TypeOK, N!HasNote, N!Rows
<1>6. ASSUME NEW w \in NoteWorkers, NEW b \in Assessments, N!CommitClone(w, b)
      PROVE  \E a \in origin'[d[1]] :
               <<<<a, d[2]>>, note'[d].override_status>> \in notesLogged'
  <2>1. CASE d[1] # b
    BY <1>1, <1>6, <2>1 DEF N!CommitClone, N!HasNote
  <2>2. CASE d[1] = b
    <3>1. /\ note'[d] = noteReq[w].copies[d[2]]
          /\ origin[noteReq[w].source] \subseteq origin'[b]
          /\ notesLogged' = notesLogged
          /\ noteReq[w].phase = "copying"
      BY <1>6, <2>2 DEF N!CommitClone, N!TypeOK
    <3>2. \E a \in origin[noteReq[w].source] :
            <<<<a, d[2]>>, noteReq[w].copies[d[2]].override_status>> \in notesLogged
      BY <1>0, <3>1 DEF N!NotesInv, N!CopiesAreTraceable, N!HasNote
    <3> QED
      BY <2>2, <3>1, <3>2
  <2> QED
    BY <2>1, <2>2
<1>7. ASSUME NEW a \in Assessments, N!DeleteAssessment(a)
      PROVE  N!HasNote(d) /\ note'[d].override_status = note[d].override_status
  BY <1>7 DEF N!DeleteAssessment, N!HasNote
<1>8. CASE UNCHANGED note
  BY <1>1, <1>8 DEF N!HasNote
<1> QED
  BY <1>1, <1>2, <1>3, <1>4, <1>5, <1>6, <1>7, <1>8
     DEF N!Next, N!LoadNote, N!LoadReview, N!RefuseOverride, N!LoadSource,
         N!CopyNotes, N!CreateAssessment, N!Abandon, noteVars

LEMMA NotesInvNext ==
  N!TypeOK /\ N!NotesInv /\ [N!Next]_noteVars => N!TypeOK' /\ N!NotesInv'
<1> SUFFICES ASSUME N!TypeOK, N!NotesInv, [N!Next]_noteVars
             PROVE  N!TypeOK' /\ N!NotesInv'
  OBVIOUS
<1>1. N!SourcesAreDrawn'
  BY SourcesNext DEF N!NotesInv
<1> QED
  BY <1>1, NoteTypeNext, CopiesNext, TraceableNext DEF N!NotesInv

\* An override in force has its audit entry, under its own assessment or under
\* one that it was copied from, whatever clones, deletions, races, crashes and
\* refused statements there were.
THEOREM OverridesTraceable == MCSpec => []OverridesAreTraceable
<1>1. N!NotesInv => OverridesAreTraceable
  BY DEF N!NotesInv, OverridesAreTraceable
<1> QED
  BY <1>1, TrackersAreIndependent, NoteTypeInit, NotesInvInit, NotesInvNext, PTL
     DEF N!Spec, N!vars, N!table, noteVars

-----------------------------------------------------------------------------
\* A row that Store leaves has the review of the row that was there, unless
\* the request itself has given it another.
LEMMA StoreReview ==
  ASSUME N!TypeOK, NEW c \in N!Keys, NEW loaded \in N!Rows \cup {N!NoNote},
         NEW new \in N!Rows, NEW d \in N!Keys,
         N!Store(c, loaded, new, N!Changed(N!Base(loaded), new)),
         N!HasNote(d), N!HasNote(d)',
         note'[d].review_status # note[d].review_status
  PROVE  /\ d = c
         /\ note'[d].review_status = new.review_status
         /\ new.review_status # N!Base(loaded).review_status
<1>1. CASE /\ loaded = N!NoNote
           /\ ~ N!HasNote(c)
           /\ note' = [note EXCEPT ![c] = new]
  BY <1>1 DEF N!TypeOK, N!HasNote
<1>2. CASE /\ loaded # N!NoNote
           /\ N!HasNote(c)
           /\ note' = [note EXCEPT ![c] =
                         N!Flush(@, new, N!Changed(N!Base(loaded), new))]
  <2>1. d = c
    BY <1>2 DEF N!TypeOK
  <2>2. note[c] \in N!Rows /\ loaded \in N!Rows
    BY <1>2 DEF N!TypeOK, N!HasNote
  <2>3. note'[c].review_status =
          IF "review_status" \in N!Changed(loaded, new)
          THEN new.review_status ELSE note[c].review_status
    BY <1>2, <2>2 DEF N!TypeOK, N!Flush, N!Base, N!Rows
  <2>4. "review_status" \in N!Changed(loaded, new) =>
          new.review_status # loaded.review_status
    BY <2>2 DEF N!Changed, N!Rows
  <2> QED
    BY <1>2, <2>1, <2>3, <2>4 DEF N!Base
<1>3. CASE UNCHANGED note
  BY <1>3
<1> QED
  BY <1>1, <1>2, <1>3 DEF N!Store

LEMMA ReviewNext ==
  ASSUME N!TypeOK, N!SourcesAreDrawn, [N!Next]_noteVars,
         NEW d \in N!Keys, N!HasNote(d), N!HasNote(d)',
         note'[d].review_status # note[d].review_status
  PROVE  \E w \in NoteWorkers :
           /\ noteReq[w].phase = "reviewing"
           /\ noteReq[w].key = d
           /\ noteReq[w].review = note'[d].review_status
<1>0. \A w \in NoteWorkers : noteReq[w] \in N!Requests \cup {N!Idle}
  BY DEF N!TypeOK
<1>1. ASSUME NEW w \in NoteWorkers, N!LogOverride(w)
      PROVE  FALSE
  <2> DEFINE r == noteReq[w]
             new == [N!Base(r.loaded) EXCEPT !.override_status = r.payload.override]
  <2>1. /\ r.key \in N!Keys
        /\ r.loaded \in N!Rows \cup {N!NoNote}
        /\ r.payload.override \in Overrides
    BY <1>0, <1>1, NoteRequestFields, OverridingPayload DEF N!LogOverride, N!Overriding
  <2>2. new \in N!Rows /\ new.review_status = N!Base(r.loaded).review_status
    BY <2>1, BaseType DEF N!Rows
  <2>3. N!Store(r.key, r.loaded, new, N!Changed(N!Base(r.loaded), new))
    BY <1>1 DEF N!LogOverride
  <2> HIDE DEF new
  <2> QED
    BY <2>1, <2>2, <2>3, StoreReview
<1>2. ASSUME NEW w \in NoteWorkers, N!CommitEdit(w)
      PROVE  FALSE
  <2> DEFINE r == noteReq[w]
             new == N!Edited(r.loaded, r.payload)
  <2>1. r.key \in N!Keys /\ r.loaded \in N!Rows \cup {N!NoNote}
    BY <1>0, <1>2, NoteRequestFields DEF N!CommitEdit
  <2>2. new \in N!Rows /\ new.review_status = N!Base(r.loaded).review_status
    BY <2>1, BaseType DEF N!Edited, N!Rows
  <2>3. N!Store(r.key, r.loaded, new, N!Changed(N!Base(r.loaded), new))
    BY <1>2 DEF N!CommitEdit
  <2> HIDE DEF new
  <2> QED
    BY <2>1, <2>2, <2>3, StoreReview
<1>3. ASSUME NEW w \in NoteWorkers, N!CommitReview(w)
      PROVE  /\ noteReq[w].phase = "reviewing"
             /\ noteReq[w].key = d
             /\ noteReq[w].review = note'[d].review_status
  <2> DEFINE r == noteReq[w]
             new == [N!Base(r.loaded) EXCEPT !.review_status = r.review]
  <2>1. /\ r.phase = "reviewing"
        /\ r.key \in N!Keys
        /\ r.loaded \in N!Rows \cup {N!NoNote}
        /\ r.review \in Reviews
    BY <1>0, <1>3, NoteRequestFields DEF N!CommitReview
  <2>2. new \in N!Rows /\ new.review_status = r.review
    BY <2>1, BaseType DEF N!Rows
  <2>3. N!Store(r.key, r.loaded, new, N!Changed(N!Base(r.loaded), new))
    BY <1>3 DEF N!CommitReview
  <2> HIDE DEF new
  <2> QED
    BY <2>1, <2>2, <2>3, StoreReview
<1>4. ASSUME NEW w \in NoteWorkers, N!CommitJustification(w)
      PROVE  FALSE
  <2>1. noteReq[w].key \in N!Keys /\ note[noteReq[w].key] \in N!Rows
    BY <1>0, <1>4, NoteRequestFields DEF N!CommitJustification, N!TypeOK, N!HasNote
  <2> QED
    BY <1>4, <2>1 DEF N!CommitJustification, N!TypeOK, N!Rows
<1>5. ASSUME NEW a \in Assessments, N!DeleteAssessment(a)
      PROVE  FALSE
  BY <1>5 DEF N!DeleteAssessment, N!HasNote
<1>7. ASSUME NEW w \in NoteWorkers, NEW b \in Assessments, N!CommitClone(w, b)
      PROVE  FALSE
  <2>1. d[1] \in assessments
    BY DEF N!SourcesAreDrawn
  <2>2. d[1] # b
    BY <1>7, <2>1 DEF N!CommitClone, N!TypeOK
  <2> QED
    BY <1>7, <2>2 DEF N!CommitClone
<1>6. note' # note
  OBVIOUS
<1> QED
  BY <1>1, <1>2, <1>3, <1>4, <1>5, <1>6, <1>7
     DEF N!Next, N!LoadNote, N!LoadReview, N!RefuseOverride, N!LoadSource, N!CopyNotes,
         N!CreateAssessment, N!Abandon, noteVars

\* Only a review changes the review of a control, however edits of its notes
\* that loaded the row earlier interleave with it, and clones of it are made.
THEOREM EditsKeepReviews == MCSpec => ReviewsStand
<1>1. N!TypeOK /\ N!NotesInv /\ [N!Next]_noteVars =>
        [\A k \in N!Keys :
           N!HasNote(k) /\ N!HasNote(k)'
             /\ note'[k].review_status # note[k].review_status =>
             \E w \in NoteWorkers :
               /\ noteReq[w].phase = "reviewing"
               /\ noteReq[w].key = k
               /\ noteReq[w].review = note'[k].review_status]_noteVars
  BY ReviewNext DEF N!NotesInv
<1> QED
  BY <1>1, TrackersAreIndependent, NoteTypeInit, NotesInvInit, NotesInvNext, PTL
     DEF N!Spec, N!vars, N!table, noteVars, ReviewsStand, N!ReviewsStand
=============================================================================
