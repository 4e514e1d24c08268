------------------------- MODULE AssessmentLifecycle -------------------------
(***************************************************************************)
(* The assessments router: create, clone, delete and the lifecycle         *)
(* endpoint, run by several workers against one database.                  *)
(*                                                                         *)
(* Endpoints are plain functions run in a thread pool of two server        *)
(* processes, each with a database session of its own at READ COMMITTED    *)
(* and without row locks.  A request therefore goes through four separate  *)
(* steps: get_current_user reads the user, the handler reads the           *)
(* assessment and checks its guards, db.commit() writes, and log_event     *)
(* commits the audit entry in a transaction of its own.                    *)
(***************************************************************************)
EXTENDS Naturals, Sequences, FiniteSets

CONSTANTS
  Users,
  Workers,      \* threads of all server processes
  Assessments,  \* primary keys, never reused
  Nobody,       \* SQL NULL in a column that refers to a user
  NoAssessment, \* the request names no assessment
  RoleChoices,  \* the roles that administrators hand out in this instance
  MaxSignoffs   \* bound on the sign-offs that are kept at a time

ASSUME NobodyAssumption == Nobody \notin Users
ASSUME NoAssessmentAssumption == NoAssessment \notin Assessments
ASSUME RoleAssumption ==
  RoleChoices \subseteq {"admin", "contributor", "viewer", "auditor"}
ASSUME MaxSignoffsAssumption == MaxSignoffs \in Nat

VARIABLES
  role,       \* users.role, "gone" once the user row is deleted
  status,     \* assessments.status, with "unused" and "deleted" identifiers
  created_by, \* assessments.created_by_id
  signoffs,   \* assessment_signoffs of an assessment, by timestamp
  logged,     \* number of LIFECYCLE_ entries about an assessment that exists
  req,        \* the request that each worker is serving
  everAdmin,  \* history: users that have held the role admin
  author      \* history: who created an assessment

vars == <<role, status, created_by, signoffs, logged, req, everAdmin, author>>
history == <<everAdmin, author>>

-----------------------------------------------------------------------------
T == INSTANCE SignoffTrail
       WITH trail <- signoffs, Signers <- Users

Roles == {"admin", "contributor", "viewer", "auditor"}
Exists(a) == status[a] \in T!Statuses

Inputs ==
       [op : {"lifecycle"}, a : Assessments, action : T!Actions]
  \cup [op : {"clone", "delete"}, a : Assessments, action : {"none"}]
  \cup [op : {"create"}, a : {NoAssessment}, action : {"none"}]

\* user and role are those that the session loaded, in is what the request
\* asks for, and a the assessment whose transition is yet to be logged.
Requests ==
       [phase : {"authenticated"}, user : Users, role : Roles]
  \cup [phase : {"checked"}, user : Users, in : Inputs]
  \cup [phase : {"committed"}, user : Users, a : Assessments]

Idle == [phase |-> "idle"]

TypeOK ==
  /\ role \in [Users -> Roles \cup {"gone"}]
  /\ status \in [Assessments -> T!Statuses \cup {"unused", "deleted"}]
  /\ created_by \in [Assessments -> Users \cup {Nobody}]
  /\ signoffs \in [Assessments -> Seq(T!Signoffs)]
  /\ logged \in [Assessments -> Nat]
  /\ req \in [Workers -> Requests \cup {Idle}]
  /\ everAdmin \subseteq Users
  /\ author \in [Assessments -> Users \cup {Nobody}]

Init ==
  /\ role \in [Users -> RoleChoices]
  /\ \E u \in Users : role[u] = "admin"
  /\ status = [a \in Assessments |-> "unused"]
  /\ created_by = [a \in Assessments |-> Nobody]
  /\ signoffs = [a \in Assessments |-> <<>>]
  /\ logged = [a \in Assessments |-> 0]
  /\ req = [w \in Workers |-> Idle]
  /\ everAdmin = {u \in Users : role[u] = "admin"}
  /\ author = [a \in Assessments |-> Nobody]

-----------------------------------------------------------------------------
(***************************************************************************)
(* get_current_user: the token resolves to an existing user, whose role is *)
(* kept in the session of the request.                                     *)
(***************************************************************************)
Authenticate(w, u) ==
  /\ req[w] = Idle
  /\ role[u] # "gone"
  /\ req' = [req EXCEPT ![w] =
       [phase |-> "authenticated", user |-> u, role |-> role[u]]]
  /\ UNCHANGED <<role, status, created_by, signoffs, logged, history>>

(***************************************************************************)
(* The guards of the four handlers, on the user row loaded by              *)
(* Authenticate and the assessment row as it is now.                       *)
(***************************************************************************)
IsContributor(r) == r.role \in {"admin", "contributor"}

\* Fault: the handler forgets that approving takes an administrator.
MayRunLifecycle_AnyoneApproves(r, in) ==
  /\ IsContributor(r)
  /\ Exists(in.a)
  /\ r.role = "admin" \/ created_by[in.a] = r.user
  /\ in.action \in T!Allowed(status[in.a])

\* Fault: the handler does not consult the transition table.
MayRunLifecycle_AnyTransition(r, in) ==
  /\ IsContributor(r)
  /\ Exists(in.a)
  /\ r.role = "admin" \/ created_by[in.a] = r.user
  /\ in.action = "approve" => r.role = "admin"

MayRunLifecycle(r, in) ==
  /\ IsContributor(r)
  /\ Exists(in.a)
  /\ r.role = "admin" \/ created_by[in.a] = r.user
  /\ in.action = "approve" => r.role = "admin"
  /\ in.action \in T!Allowed(status[in.a])

MayProceed(r, in) ==
  \/ in.op = "create" /\ IsContributor(r)
  \/ in.op = "clone" /\ IsContributor(r) /\ Exists(in.a)
  \/ in.op = "delete" /\ r.role = "admin" /\ Exists(in.a)
  \/ in.op = "lifecycle" /\ MayRunLifecycle(r, in)

Check(w, in) ==
  /\ req[w].phase = "authenticated"
  /\ MayProceed(req[w], in)
  /\ req' = [req EXCEPT ![w] =
       [phase |-> "checked", user |-> req[w].user, in |-> in]]
  /\ UNCHANGED <<role, status, created_by, signoffs, logged, history>>

\* 403, 404 or 400: the request ends and nothing has been written.
Reject(w, in) ==
  /\ req[w].phase = "authenticated"
  /\ ~ MayProceed(req[w], in)
  /\ req' = [req EXCEPT ![w] = Idle]
  /\ UNCHANGED <<role, status, created_by, signoffs, logged, history>>

-----------------------------------------------------------------------------
(***************************************************************************)
(* db.commit().  The foreign keys make it fail when the user row is gone,  *)
(* and the UPDATE of a deleted assessment matches no row and fails: then   *)
(* only Abandon is left for the request.                                   *)
(***************************************************************************)
Committing(w, op) == req[w].phase = "checked" /\ req[w].in.op = op

\* Only the audit entries of transitions are counted: a request that commits
\* anything else is done.
Done(w) == req' = [req EXCEPT ![w] = Idle]

ToBeLogged(w) ==
  req' = [req EXCEPT ![w] = [phase |-> "committed", user |-> req[w].user,
                             a |-> req[w].in.a]]

\* Fault: the status is committed on its own, the sign-off is not added.
CommitLifecycle_StatusOnly(w) ==
  /\ Committing(w, "lifecycle")
  /\ ToBeLogged(w)
  /\ Exists(req[w].in.a)
  /\ status' = [status EXCEPT ![req[w].in.a] =
                  T!StatusAfterAction(req[w].in.action)]
  /\ UNCHANGED <<role, created_by, signoffs, logged, history>>

Kept == UNION {{a} \X DOMAIN signoffs[a] : a \in Assessments}

CommitLifecycle(w) ==
  LET r == req[w]
      a == r.in.a
  IN /\ Committing(w, "lifecycle")
     /\ ToBeLogged(w)
     /\ Exists(a)
     /\ role[r.user] # "gone"
     /\ Cardinality(Kept) < MaxSignoffs
     /\ status' = [status EXCEPT ![a] = T!StatusAfterAction(r.in.action)]
     /\ signoffs' = [signoffs EXCEPT ![a] =
          Append(@, [action |-> r.in.action, user_name |-> r.user])]
     /\ UNCHANGED <<role, created_by, logged, history>>

\* A new row in draft, for create and for clone.
CommitNew(w) ==
  /\ Committing(w, "create") \/ Committing(w, "clone")
  /\ Done(w)
  /\ role[req[w].user] # "gone"
  /\ \E new \in Assessments :
       /\ status[new] = "unused"
       /\ status' = [status EXCEPT ![new] = "draft"]
       /\ created_by' = [created_by EXCEPT ![new] = req[w].user]
       /\ author' = [author EXCEPT ![new] = req[w].user]
  /\ UNCHANGED <<role, signoffs, logged, everAdmin>>

\* The sign-offs go with the row, by the ORM cascade and by the foreign key.
CommitDelete(w) ==
  LET a == req[w].in.a
  IN /\ Committing(w, "delete")
     /\ Done(w)
     /\ status' = [status EXCEPT ![a] = "deleted"]
     /\ created_by' = [created_by EXCEPT ![a] = Nobody]
     /\ signoffs' = [signoffs EXCEPT ![a] = <<>>]
     /\ logged' = [logged EXCEPT ![a] = 0]
     /\ UNCHANGED <<role, history>>

\* Fault: the audit entry is written ahead of the transition it reports.
LogEvent_BeforeCommit(w) ==
  /\ Committing(w, "lifecycle")
  /\ Done(w)
  /\ Exists(req[w].in.a)
  /\ logged' = [logged EXCEPT ![req[w].in.a] = @ + 1]
  /\ UNCHANGED <<role, status, created_by, signoffs, history>>

(***************************************************************************)
(* log_event, a second transaction.  It is reached only if db.refresh and  *)
(* the reload of current_user after the commit still find their rows.      *)
(***************************************************************************)
LogEvent(w) ==
  LET r == req[w]
  IN /\ r.phase = "committed"
     /\ Done(w)
     /\ role[r.user] # "gone"
     /\ Exists(r.a)
     /\ logged' = [logged EXCEPT ![r.a] = @ + 1]
     /\ UNCHANGED <<role, status, created_by, signoffs, history>>

\* The process is killed, or the database refuses the next statement (an
\* error that log_event swallows): what is committed stays, the rest is lost.
Abandon(w) ==
  /\ req[w] # Idle
  /\ req' = [req EXCEPT ![w] = Idle]
  /\ UNCHANGED <<role, status, created_by, signoffs, logged, history>>

-----------------------------------------------------------------------------
(***************************************************************************)
(* The two administration endpoints of the users that the guards above     *)
(* depend on, each as its committed effect.  Who asks was loaded as an      *)
(* administrator when the request began, and need not be one any more, nor  *)
(* exist.                                                                  *)
(***************************************************************************)
UpdateRole(u, r) ==
  /\ role[u] # "gone"
  /\ role[u] # r
  /\ everAdmin # {}
  /\ role' = [role EXCEPT ![u] = r]
  /\ everAdmin' = everAdmin \cup {v \in {u} : r = "admin"}
  /\ UNCHANGED <<status, created_by, signoffs, logged, req, author>>

DeleteUser(u) ==
  /\ role[u] # "gone"
  /\ everAdmin \ {u} # {}
  /\ role' = [role EXCEPT ![u] = "gone"]
  /\ created_by' = [a \in Assessments |->
                      IF created_by[a] = u THEN Nobody ELSE created_by[a]]
  /\ UNCHANGED <<status, signoffs, logged, req, history>>

Next ==
  \/ \E w \in Workers :
       \/ \E u \in Users : Authenticate(w, u)
       \/ \E in \in Inputs : Check(w, in) \/ Reject(w, in)
       \/ CommitLifecycle(w)
       \/ CommitNew(w)
       \/ CommitDelete(w)
       \/ LogEvent(w)
       \/ Abandon(w)
  \/ \E u \in Users : DeleteUser(u) \/ \E r \in RoleChoices : UpdateRole(u, r)

Spec == Init /\ [][Next]_vars

-----------------------------------------------------------------------------
(***************************************************************************)
(* Properties                                                              *)
(***************************************************************************)

\* The status column and the sign-off trail are written by two statements of
\* one transaction: the stored status is always the one that the newest
\* sign-off leads to, however requests interleave and wherever they stop.
StatusIsLastSignoff ==
  \A a \in Assessments :
    Exists(a) => status[a] = T!StatusAt(signoffs[a], Len(signoffs[a]))

\* Nobody approves, or sends back, what was never submitted: every approve
\* and every return in a trail comes after a submit_for_review, even when the
\* requests that wrote them raced.
DecisionsFollowSubmission ==
  \A a \in Assessments : \A i \in 1 .. Len(signoffs[a]) :
    signoffs[a][i].action \in {"approve", "return"} =>
      \E j \in 1 .. i - 1 : signoffs[a][j].action = "submit_for_review"

\* A sign-off is signed by the author of the assessment or by somebody who
\* has been an administrator, and an approval by the latter only, although
\* roles change and users disappear while requests are under way.
SignedWithAuthority ==
  \A a \in Assessments : \A i \in 1 .. Len(signoffs[a]) :
    LET s == signoffs[a][i]
    IN \/ s.user_name \in everAdmin
       \/ s.action # "approve" /\ s.user_name = author[a]

(***************************************************************************)
(* The inductive invariant behind the three properties above.              *)
(***************************************************************************)

\* A lifecycle request that has passed its guards about assessment r.in.a,
\* and whose commit can still succeed.
Pending(w) ==
  /\ req[w].phase = "checked"
  /\ req[w].in.op = "lifecycle"

\* The action of such a request was allowed from some status of the trail,
\* perhaps no longer the latest.
PendingGrounded ==
  \A w \in Workers : Pending(w) =>
    LET a == req[w].in.a
    IN /\ status[a] # "unused"
       /\ Exists(a) => \E k \in 0 .. Len(signoffs[a]) :
            req[w].in.action \in T!Allowed(T!StatusAt(signoffs[a], k))

\* An identifier that was never used has no trail.
FreshIsBlank ==
  \A a \in Assessments : status[a] = "unused" => signoffs[a] = <<>>

\* Where the authority of a pending request comes from.
AuthorityGrounded ==
  /\ \A u \in Users : role[u] = "admin" => u \in everAdmin
  /\ \A a \in Assessments : created_by[a] \in {Nobody, author[a]}
  /\ \A w \in Workers :
       /\ req[w].phase = "authenticated" /\ req[w].role = "admin" =>
            req[w].user \in everAdmin
       /\ Pending(w) => \/ req[w].user \in everAdmin
                        \/ /\ req[w].in.action # "approve"
                           /\ req[w].user = author[req[w].in.a]

\* What every step preserves: a decision in flight was legal at some point of
\* the trail it will extend, and its signer had the authority for it.
LifecycleInv ==
  /\ StatusIsLastSignoff
  /\ FreshIsBlank
  /\ PendingGrounded
  /\ DecisionsFollowSubmission
  /\ AuthorityGrounded
  /\ SignedWithAuthority

\* The audit log never reports a transition that did not happen: there are
\* at most as many LIFECYCLE_ entries as sign-offs that were committed.
LogReportsCommitted ==
  \A a \in Assessments : Exists(a) => logged[a] <= Len(signoffs[a])

\* Requests that have committed a transition of a and not yet reported it.
Unlogged(a) == {w \in Workers : req[w].phase = "committed" /\ req[w].a = a}

\* The inductive invariant behind it: the reports that are still to come are
\* paid for as well, and nobody reports on an identifier before its use.
ReportsArePaidFor ==
  \A a \in Assessments :
    /\ IsFiniteSet(Unlogged(a))
    /\ status[a] = "unused" => logged[a] = 0 /\ Unlogged(a) = {}
    /\ Exists(a) => logged[a] + Cardinality(Unlogged(a)) <= Len(signoffs[a])

\* The sign-off trail keeps the promise of SignoffTrail.
TrailSpec == T!Spec
=============================================================================
