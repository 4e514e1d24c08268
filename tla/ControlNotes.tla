---------------------------- MODULE ControlNotes ----------------------------
(***************************************************************************)
(* The notes of the controls of assessments: a compensating override with  *)
(* its justification, and the review of the control.                       *)
(*                                                                         *)
(* The upsert calls log_event in the middle of its assignments.  log_event *)
(* commits, so an override is stored by one transaction together with its  *)
(* audit entry, and whatever the handler assigns after it, first of all    *)
(* the justification, by another; and log_event swallows its errors, so a  *)
(* refused first transaction does not stop the second.                     *)
(*                                                                         *)
(* A clone of an assessment copies its overrides, and no entry of the       *)
(* audit log is made of them but those of the assessments it comes from.    *)
(***************************************************************************)
EXTENDS OrmRow

CONSTANTS
  Assessments, \* primary keys, never reused
  Controls,    \* controls of the framework
  Workers,
  Overrides,   \* statuses an override may give
  Reviews      \* statuses a review may give

NotReviewed == "not_reviewed"
Null == "null"
Keep == "keep"    \* the field is absent from the payload
Clear == "clear"  \* the empty override, which removes one

VARIABLES
  assessments, \* ids in the table
  unused,      \* ids that have not been drawn
  note,        \* control_notes, by assessment and control
  logged,      \* OVERRIDE entries of the audit log: assessment, control, status
  req,         \* the request that each worker is serving
  origin,      \* history: an assessment, the one that it was cloned from, and so on
  lost         \* history: notes whose override was rolled back by an update
               \* that was answered as done

table == <<assessments, unused, origin>>
vars == <<table, note, logged, req, lost>>

-----------------------------------------------------------------------------
\* The unique constraint of control_notes.
Keys == Assessments \X Controls

\* A justification is told apart by the override it argues for.
Rows == [override_status : Overrides \cup {Null},
         override_justification : Overrides \cup {Null},
         review_status : Reviews \cup {NotReviewed}]

NoNote == [override_status |-> "none"]

NewNote == [override_status |-> Null, override_justification |-> Null,
            review_status |-> NotReviewed]

HasNote(k) == note[k] # NoNote

\* An override with its justification, its removal, or an edit of other fields.
Overriding == [override : Overrides, justification : Overrides]

Payloads == Overriding
       \cup [override : {Clear}, justification : {Keep}]
       \cup [override : {Keep}, justification : {Keep}]

SetsOverride(p) == p.override \notin {Keep, Clear}

Idle == [phase |-> "idle"]

Requests ==
       [phase : {"loaded"}, key : Keys, loaded : Rows \cup {NoNote}, payload : Payloads]
  \cup [phase : {"logged", "rolled_back"}, key : Keys, payload : Overriding]
  \cup [phase : {"reviewing"}, key : Keys, loaded : Rows \cup {NoNote}, review : Reviews]
  \cup [phase : {"cloning"}, source : Assessments]
  \cup [phase : {"copying"}, source : Assessments, copies : [Controls -> Rows \cup {NoNote}]]

TypeOK ==
  /\ assessments \subseteq Assessments
  /\ unused \subseteq Assessments \ assessments
  /\ note \in [Keys -> Rows \cup {NoNote}]
  /\ logged \subseteq Keys \X Overrides
  /\ req \in [Workers -> Requests \cup {Idle}]
  /\ origin \in [Assessments -> SUBSET Assessments]
  /\ lost \subseteq Keys

Init ==
  /\ assessments = {}
  /\ unused = Assessments
  /\ note = [k \in Keys |-> NoNote]
  /\ logged = {}
  /\ req = [w \in Workers |-> Idle]
  /\ origin = [a \in Assessments |-> {}]
  /\ lost = {}

-----------------------------------------------------------------------------
\* db.commit() of a note: an INSERT, which the unique constraint and the
\* foreign key may refuse, or an UPDATE of the given columns of a row that is
\* there.  Without a column to write nothing is sent.
Store(k, loaded, new, columns) ==
  \/ /\ loaded = NoNote
     /\ k[1] \in assessments
     /\ ~ HasNote(k)
     /\ note' = [note EXCEPT ![k] = new]
  \/ /\ loaded # NoNote
     /\ columns # {}
     /\ HasNote(k)
     /\ note' = [note EXCEPT ![k] = Flush(@, new, columns)]
  \/ /\ loaded # NoNote
     /\ columns = {}
     /\ UNCHANGED note

Base(loaded) == IF loaded = NoNote THEN NewNote ELSE loaded

(***************************************************************************)
(* upsert_control_notes                                                    *)
(***************************************************************************)
LoadNote(w, k, p) ==
  /\ req[w] = Idle
  /\ k[1] \in assessments
  /\ req' = [req EXCEPT ![w] = [phase |-> "loaded", key |-> k,
                                loaded |-> note[k], payload |-> p]]
  /\ UNCHANGED <<table, note, logged, lost>>

\* Fault: the override is stored first, and logged by a later transaction.
LogOverride_NotLogged(w) ==
  LET r == req[w]
      new == [Base(r.loaded) EXCEPT !.override_status = r.payload.override]
  IN /\ r.phase = "loaded"
     /\ SetsOverride(r.payload)
     /\ Store(r.key, r.loaded, new, Changed(Base(r.loaded), new))
     /\ req' = [req EXCEPT ![w] = [phase |-> "logged", key |-> r.key,
                                   payload |-> r.payload]]
     /\ UNCHANGED <<table, logged, lost>>

\* log_event commits the override along with its own entry.
LogOverride(w) ==
  LET r == req[w]
      new == [Base(r.loaded) EXCEPT !.override_status = r.payload.override]
  IN /\ r.phase = "loaded"
     /\ SetsOverride(r.payload)
     /\ Store(r.key, r.loaded, new, Changed(Base(r.loaded), new))
     /\ logged' = logged \cup {<<r.key, r.payload.override>>}
     /\ req' = [req EXCEPT ![w] = [phase |-> "logged", key |-> r.key,
                                   payload |-> r.payload]]
     /\ UNCHANGED <<table, lost>>

\* The database refuses that transaction, and log_event rolls it back and
\* returns: a note loaded from the database stays in the session without the
\* override, a new one is no longer in it and db.refresh ends the request.
RefuseOverride(w) ==
  LET r == req[w]
  IN /\ r.phase = "loaded"
     /\ SetsOverride(r.payload)
     /\ req' = [req EXCEPT ![w] =
          IF r.loaded = NoNote THEN Idle
          ELSE [phase |-> "rolled_back", key |-> r.key, payload |-> r.payload]]
     /\ UNCHANGED <<table, note, logged, lost>>

\* The values an update assigns that does not set an override.
Edited(loaded, p) ==
  IF p.override = Clear
  THEN [Base(loaded) EXCEPT !.override_status = Null] ELSE Base(loaded)

\* The handler's own commit, of everything when no override was set.
CommitEdit(w) ==
  LET r == req[w]
      new == Edited(r.loaded, r.payload)
  IN /\ r.phase = "loaded"
     /\ ~ SetsOverride(r.payload)
     /\ Store(r.key, r.loaded, new, Changed(Base(r.loaded), new))
     /\ req' = [req EXCEPT ![w] = Idle]
     /\ UNCHANGED <<table, logged, lost>>

\* The handler's own commit after log_event, of the justification: the first
\* transaction has expired the row, so the column is written in any case.
CommitJustification(w) ==
  LET r == req[w]
  IN /\ r.phase \in {"logged", "rolled_back"}
     /\ HasNote(r.key)
     /\ note' = [note EXCEPT ![r.key].override_justification =
                   r.payload.justification]
     /\ lost' = lost \cup {k \in {r.key} : r.phase = "rolled_back"}
     /\ req' = [req EXCEPT ![w] = Idle]
     /\ UNCHANGED <<table, logged>>

-----------------------------------------------------------------------------
(***************************************************************************)
(* update_control_review                                                   *)
(***************************************************************************)
LoadReview(w, k, s) ==
  /\ req[w] = Idle
  /\ k[1] \in assessments
  /\ req' = [req EXCEPT ![w] = [phase |-> "reviewing", key |-> k,
                                loaded |-> note[k], review |-> s]]
  /\ UNCHANGED <<table, note, logged, lost>>

CommitReview(w) ==
  LET r == req[w]
      new == [Base(r.loaded) EXCEPT !.review_status = r.review]
  IN /\ r.phase = "reviewing"
     /\ Store(r.key, r.loaded, new, Changed(Base(r.loaded), new))
     /\ req' = [req EXCEPT ![w] = Idle]
     /\ UNCHANGED <<table, logged, lost>>

-----------------------------------------------------------------------------
(***************************************************************************)
(* create_assessment, clone_assessment and delete_assessment, as far as    *)
(* they concern notes                                                      *)
(***************************************************************************)
CreateAssessment(a) ==
  /\ a \in unused
  /\ assessments' = assessments \cup {a}
  /\ unused' = unused \ {a}
  /\ origin' = [origin EXCEPT ![a] = {a}]
  /\ UNCHANGED <<note, logged, req, lost>>

\* clone_assessment finds its source,
LoadSource(w, a) ==
  /\ req[w] = Idle
  /\ a \in assessments
  /\ req' = [req EXCEPT ![w] = [phase |-> "cloning", source |-> a]]
  /\ UNCHANGED <<table, note, logged, lost>>

\* Override and justification are copied, the review is not.
Copy(n) == IF n = NoNote THEN NoNote ELSE [n EXCEPT !.review_status = NotReviewed]

\* and reads its notes, of which there are none if it has been deleted since.
CopyNotes(w) ==
  LET src == req[w].source
  IN /\ req[w].phase = "cloning"
     /\ req' = [req EXCEPT ![w] = [phase |-> "copying", source |-> src,
                                   copies |-> [c \in Controls |-> Copy(note[<<src, c>>])]]]
     /\ UNCHANGED <<table, note, logged, lost>>

\* The clone and its notes are one transaction, without an OVERRIDE entry.
CommitClone(w, b) ==
  LET q == req[w]
  IN /\ q.phase = "copying"
     /\ b \in unused
     /\ assessments' = assessments \cup {b}
     /\ unused' = unused \ {b}
     /\ note' = [k \in Keys |-> IF k[1] = b THEN q.copies[k[2]] ELSE note[k]]
     /\ origin' = [origin EXCEPT ![b] = {b} \cup origin[q.source]]
     /\ req' = [req EXCEPT ![w] = Idle]
     /\ UNCHANGED <<logged, lost>>

\* The notes go with their assessment; the entries of the log stay.
DeleteAssessment(a) ==
  /\ a \in assessments
  /\ assessments' = assessments \ {a}
  /\ note' = [k \in Keys |-> IF k[1] = a THEN NoNote ELSE note[k]]
  /\ UNCHANGED <<unused, origin, logged, req, lost>>

\* The process is killed, or the handler's own commit fails: the request ends
\* where it is, and what log_event has committed stays.
Abandon(w) ==
  /\ req[w] # Idle
  /\ req' = [req EXCEPT ![w] = Idle]
  /\ UNCHANGED <<table, note, logged, lost>>

Next ==
  \/ \E w \in Workers :
       \/ \E k \in Keys :
            \/ \E p \in Payloads : LoadNote(w, k, p)
            \/ \E s \in Reviews : LoadReview(w, k, s)
       \/ LogOverride(w)
       \/ RefuseOverride(w)
       \/ CommitEdit(w)
       \/ CommitJustification(w)
       \/ CommitReview(w)
       \/ \E a \in Assessments : LoadSource(w, a) \/ CommitClone(w, a)
       \/ CopyNotes(w)
       \/ Abandon(w)
  \/ \E a \in Assessments : CreateAssessment(a) \/ DeleteAssessment(a)

Spec == Init /\ [][Next]_vars

-----------------------------------------------------------------------------
(***************************************************************************)
(* Properties                                                              *)
(***************************************************************************)

\* An override in force has its OVERRIDE entry in the audit log, of the very
\* assessment or, since clone_assessment copies overrides and logs none, of one
\* that the assessment is a copy of, through however many copies.  Neither a
\* crash nor a refused statement separates the two, nor an update or a deletion
\* of the source while it is copied.
OverridesAreTraceable ==
  \A k \in Keys : HasNote(k) /\ note[k].override_status # Null =>
    \E a \in origin[k[1]] : <<<<a, k[2]>>, note[k].override_status>> \in logged

\* What a clone is about to store is traceable as well.
CopiesAreTraceable ==
  \A w \in Workers : req[w].phase = "copying" => \A c \in Controls :
    LET copy == req[w].copies[c]
    IN copy # NoNote /\ copy.override_status # Null =>
         \E a \in origin[req[w].source] : <<<<a, c>>, copy.override_status>> \in logged

\* A clone is of an assessment that was there, whose own origin is settled.
SourcesAreDrawn ==
  /\ \A a \in assessments : a \in origin[a]
  /\ \A w \in Workers : req[w].phase \in {"cloning", "copying"} => req[w].source \notin unused
  /\ \A k \in Keys : HasNote(k) => k[1] \in assessments

\* The inductive invariant behind OverridesAreTraceable.
NotesInv ==
  /\ SourcesAreDrawn
  /\ CopiesAreTraceable
  /\ OverridesAreTraceable

\* Only a review changes the review of a control: an edit of its notes that
\* loaded the row before a review does not undo it.
ReviewsStand ==
  [][\A k \in Keys :
       HasNote(k) /\ HasNote(k)' /\ note'[k].review_status # note[k].review_status =>
         \E w \in Workers : /\ req[w].phase = "reviewing"
                            /\ req[w].key = k
                            /\ req[w].review = note'[k].review_status]_vars

\* README, API reference: PATCH .../notes upserts notes, evidence URL and
\* override: an update that is answered as done has stored its override.
DoneMeansStored == lost = {}
=============================================================================
