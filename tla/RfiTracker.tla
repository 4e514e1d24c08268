----------------------------- MODULE RfiTracker -----------------------------
(***************************************************************************)
(* Requests for information of one assessment: create, update and the      *)
(* response thread that advances an open RFI to responded.                 *)
(*                                                                         *)
(* A handler loads the RFI, decides on what it loaded, and commits later.  *)
(* The automatic advance is committed by log_event, in one transaction     *)
(* with the response and the audit entry RFI_AUTO_RESPONDED.  The entries  *)
(* of the other operations follow their commit and are left out here.      *)
(***************************************************************************)
EXTENDS Naturals, OrmRow

CONSTANTS
  Rfis,         \* primary keys, never reused
  Workers,
  MaxResponses  \* bound on the thread of one RFI

ASSUME MaxResponsesAssumption == MaxResponses \in Nat

VARIABLES
  live,       \* the assessment exists
  row,        \* rfis
  responses,  \* number of rfi_responses of an RFI
  logged,     \* number of RFI_AUTO_RESPONDED entries for an RFI
  req,        \* the request that each worker is serving
  setByHand   \* history: statuses that an update has written to an RFI

vars == <<live, row, responses, logged, req, setByHand>>

-----------------------------------------------------------------------------
Statuses == {"open", "responded", "closed"}

Rows == [status : Statuses, closed_at : {"null", "set"}]

Unused == [status |-> "unused"]
Deleted == [status |-> "deleted"]

NewRow == [status |-> "open", closed_at |-> "null"]

Exists(r) == row[r].status \in Statuses

Keep == "keep"  \* the field is absent from the payload

Idle == [phase |-> "idle"]

Requests ==
       [phase : {"creating"}]
  \cup [phase : {"updating"}, rfi : Rfis, loaded : Rows, status : Statuses \cup {Keep}]
  \cup [phase : {"responding"}, rfi : Rfis, loaded : Rows]

TypeOK ==
  /\ live \in BOOLEAN
  /\ row \in [Rfis -> Rows \cup {Unused, Deleted}]
  /\ responses \in [Rfis -> Nat]
  /\ logged \in [Rfis -> Nat]
  /\ req \in [Workers -> Requests \cup {Idle}]
  /\ setByHand \in [Rfis -> SUBSET Statuses]

Init ==
  /\ live = TRUE
  /\ row = [r \in Rfis |-> Unused]
  /\ responses = [r \in Rfis |-> 0]
  /\ logged = [r \in Rfis |-> 0]
  /\ req = [w \in Workers |-> Idle]
  /\ setByHand = [r \in Rfis |-> {}]

-----------------------------------------------------------------------------
(***************************************************************************)
(* create_rfi                                                              *)
(***************************************************************************)
BeginCreate(w) ==
  /\ req[w] = Idle
  /\ live
  /\ req' = [req EXCEPT ![w] = [phase |-> "creating"]]
  /\ UNCHANGED <<live, row, responses, logged, setByHand>>

\* The foreign key refuses the row when the assessment is gone.
CommitCreate(w) ==
  /\ req[w].phase = "creating"
  /\ live
  /\ \E r \in Rfis : row[r] = Unused /\ row' = [row EXCEPT ![r] = NewRow]
  /\ req' = [req EXCEPT ![w] = Idle]
  /\ UNCHANGED <<live, responses, logged, setByHand>>

-----------------------------------------------------------------------------
(***************************************************************************)
(* update_rfi.  Title, priority and the other fields are one more payload  *)
(* that keeps the status; updated_at is always written.                    *)
(***************************************************************************)
LoadForUpdate(w, r, status) ==
  /\ req[w] = Idle
  /\ Exists(r)
  /\ req' = [req EXCEPT ![w] = [phase |-> "updating", rfi |-> r,
                                loaded |-> row[r], status |-> status]]
  /\ UNCHANGED <<live, row, responses, logged, setByHand>>

\* Fault: closing forgets the date.
Updated_NoDate(loaded, status) ==
  IF status = Keep THEN loaded ELSE [loaded EXCEPT !.status = status]

\* The values that the handler assigns.  The date of the first closing stays.
Updated(loaded, status) ==
  IF status = Keep THEN loaded
  ELSE [status |-> status,
        closed_at |-> IF status = "closed" THEN "set" ELSE loaded.closed_at]

CommitUpdate(w) ==
  LET q == req[w]
      new == Updated(q.loaded, q.status)
      columns == Changed(q.loaded, new)
  IN /\ q.phase = "updating"
     /\ Exists(q.rfi)
     /\ row' = [row EXCEPT ![q.rfi] = Flush(@, new, columns)]
     /\ setByHand' = [setByHand EXCEPT ![q.rfi] =
                        @ \cup {s \in Statuses : s = q.status /\ "status" \in columns}]
     /\ req' = [req EXCEPT ![w] = Idle]
     /\ UNCHANGED <<live, responses, logged>>

-----------------------------------------------------------------------------
(***************************************************************************)
(* add_rfi_response                                                        *)
(***************************************************************************)

\* A closed RFI is refused.
LoadForResponse(w, r) ==
  /\ req[w] = Idle
  /\ Exists(r)
  /\ row[r].status # "closed"
  /\ req' = [req EXCEPT ![w] = [phase |-> "responding", rfi |-> r, loaded |-> row[r]]]
  /\ UNCHANGED <<live, row, responses, logged, setByHand>>

\* Fault: the audit entry is left to a transaction of its own, and lost.
CommitResponse_LogLater(w) ==
  LET q == req[w]
      r == q.rfi
  IN /\ q.phase = "responding"
     /\ Exists(r)
     /\ responses[r] < MaxResponses
     /\ responses' = [responses EXCEPT ![r] = @ + 1]
     /\ row' = IF q.loaded.status = "open"
               THEN [row EXCEPT ![r].status = "responded"] ELSE row
     /\ req' = [req EXCEPT ![w] = Idle]
     /\ UNCHANGED <<live, logged, setByHand>>

\* One transaction: the response and, for an RFI that was loaded open, the new
\* status and the audit entry.  Any failure undoes all three and ends the
\* request with an error (Abandon).
CommitResponse(w) ==
  LET q == req[w]
      r == q.rfi
      advance == q.loaded.status = "open"
  IN /\ q.phase = "responding"
     /\ Exists(r)
     /\ responses[r] < MaxResponses
     /\ responses' = [responses EXCEPT ![r] = @ + 1]
     /\ row' = IF advance THEN [row EXCEPT ![r].status = "responded"] ELSE row
     /\ logged' = IF advance THEN [logged EXCEPT ![r] = @ + 1] ELSE logged
     /\ req' = [req EXCEPT ![w] = Idle]
     /\ UNCHANGED <<live, setByHand>>

-----------------------------------------------------------------------------
\* delete_assessment takes the RFIs and their threads along.
DeleteAssessment ==
  /\ live
  /\ live' = FALSE
  /\ row' = [r \in Rfis |-> IF Exists(r) THEN Deleted ELSE row[r]]
  /\ responses' = [r \in Rfis |-> 0]
  /\ UNCHANGED <<logged, req, setByHand>>

\* The process is killed or the commit fails: nothing is written.
Abandon(w) ==
  /\ req[w] # Idle
  /\ req' = [req EXCEPT ![w] = Idle]
  /\ UNCHANGED <<live, row, responses, logged, setByHand>>

Next ==
  \/ \E w \in Workers :
       \/ BeginCreate(w)
       \/ CommitCreate(w)
       \/ \E r \in Rfis, s \in Statuses \cup {Keep} : LoadForUpdate(w, r, s)
       \/ CommitUpdate(w)
       \/ \E r \in Rfis : LoadForResponse(w, r)
       \/ CommitResponse(w)
       \/ Abandon(w)
  \/ DeleteAssessment

Spec == Init /\ [][Next]_vars

-----------------------------------------------------------------------------
(***************************************************************************)
(* Properties                                                              *)
(***************************************************************************)

\* README, "RFIs": the RFI advances to responded on the first reply.  An RFI
\* that has replies is open only if somebody set it to open by hand; an edit
\* that raced the reply cannot have undone the advance.
AnsweredAdvances ==
  \A r \in Rfis :
    Exists(r) /\ row[r].status = "open" /\ responses[r] > 0 =>
      "open" \in setByHand[r]

\* A responded RFI was set so by hand, or has a reply and an audit entry that
\* says so: status, reply and entry are never torn apart.
RespondedIsExplained ==
  \A r \in Rfis :
    Exists(r) /\ row[r].status = "responded" =>
      "responded" \in setByHand[r] \/ (responses[r] > 0 /\ logged[r] > 0)

\* A closed RFI has its closing date, although the status and the date are
\* columns that racing updates write separately.
ClosedHasDate ==
  \A r \in Rfis : Exists(r) /\ row[r].status = "closed" => row[r].closed_at = "set"

(***************************************************************************)
(* The inductive invariant behind the three properties above.              *)
(***************************************************************************)

\* What was once loaded of an RFI still counts: a closing date that was set
\* stays set, and an RFI that had left open is open again only by hand.
StillCounts(loaded, r) ==
  /\ row[r] # Unused
  /\ Exists(r) /\ loaded.closed_at = "set" => row[r].closed_at = "set"
  /\ loaded.status = "closed" => loaded.closed_at = "set"
  /\ Exists(r) /\ loaded.status # "open" /\ row[r].status = "open" =>
       "open" \in setByHand[r]

LoadedStillCounts ==
  \A w \in Workers :
    req[w].phase \in {"updating", "responding"} =>
      StillCounts(req[w].loaded, req[w].rfi)

\* What every step preserves.
RfiInv ==
  /\ \A r \in Rfis : row[r] = Unused => responses[r] = 0 /\ setByHand[r] = {}
  /\ LoadedStillCounts
  /\ AnsweredAdvances
  /\ ClosedHasDate
  /\ RespondedIsExplained
=============================================================================
