---------------------- MODULE AssessmentLifecycleProofs ----------------------
(***************************************************************************)
(* Theorems about AssessmentLifecycle, for any sets of users, workers and  *)
(* assessments.                                                            *)
(***************************************************************************)
EXTENDS AssessmentLifecycle, SequenceTheorems, FiniteSetTheorems, TLAPS

-----------------------------------------------------------------------------
(***************************************************************************)
(* Type correctness.                                                       *)
(***************************************************************************)
LEMMA InitTypeOK == Init => TypeOK
<1>. SUFFICES ASSUME Init PROVE TypeOK
  OBVIOUS
<1>1. role \in [Users -> Roles \cup {"gone"}]
  BY RoleAssumption DEF Init, Roles
<1>2. signoffs \in [Assessments -> Seq(T!Signoffs)]
  BY DEF Init
<1>3. /\ status \in [Assessments -> T!Statuses \cup {"unused", "deleted"}]
      /\ created_by \in [Assessments -> Users \cup {Nobody}]
      /\ logged \in [Assessments -> Nat]
      /\ req \in [Workers -> Requests \cup {Idle}]
      /\ everAdmin \subseteq Users
      /\ author \in [Assessments -> Users \cup {Nobody}]
  BY DEF Init
<1>. QED
  BY <1>1, <1>2, <1>3 DEF TypeOK

\* What the phase of a request says about its fields.
LEMMA RequestFields ==
  ASSUME TypeOK, NEW w \in Workers, req[w].phase # "idle"
  PROVE  /\ req[w] \in Requests
         /\ req[w].user \in Users
         /\ req[w].phase = "authenticated" => req[w].role \in Roles
         /\ req[w].phase = "checked" => req[w].in \in Inputs
         /\ req[w].phase = "committed" => req[w].a \in Assessments
BY DEF TypeOK, Requests, Idle

\* A lifecycle or delete request names an assessment.
LEMMA InputFields ==
  ASSUME NEW in \in Inputs
  PROVE  /\ in.op \in {"lifecycle", "delete"} => in.a \in Assessments
         /\ in.op = "lifecycle" => in.action \in T!Actions
BY DEF Inputs

LEMMA StatusAfterActionType ==
  ASSUME NEW action
  PROVE  T!StatusAfterAction(action) \in T!Statuses
BY DEF T!StatusAfterAction, T!Statuses

\* Every action but the two administrative ones and those of log_event and
\* db.commit() changes req alone.
LEMMA RequestStepTypeOK ==
  ASSUME TypeOK, NEW w \in Workers,
         \/ \E u \in Users : Authenticate(w, u)
         \/ \E in \in Inputs : Check(w, in) \/ Reject(w, in)
         \/ Abandon(w)
  PROVE  TypeOK'
<1>1. ASSUME NEW u \in Users, Authenticate(w, u) PROVE TypeOK'
  <2>1. role[u] \in Roles
    BY <1>1 DEF Authenticate, TypeOK
  <2>2. [phase |-> "authenticated", user |-> u, role |-> role[u]] \in Requests
    BY <2>1 DEF Requests
  <2>. QED
    BY <1>1, <2>2 DEF Authenticate, TypeOK, history
<1>2. ASSUME NEW in \in Inputs, Check(w, in) PROVE TypeOK'
  <2>1. req[w].user \in Users
    BY <1>2, RequestFields DEF Check
  <2>2. [phase |-> "checked", user |-> req[w].user, in |-> in] \in Requests
    BY <2>1 DEF Requests
  <2>. QED
    BY <1>2, <2>2 DEF Check, TypeOK, history
<1>3. ASSUME NEW in \in Inputs, Reject(w, in) PROVE TypeOK'
  BY <1>3 DEF Reject, TypeOK, history
<1>4. CASE Abandon(w)
  BY <1>4 DEF Abandon, TypeOK, history
<1>. QED
  BY <1>1, <1>2, <1>3, <1>4

\* What a request that is about to commit carries.
LEMMA CommittingFields ==
  ASSUME TypeOK, NEW w \in Workers, NEW op, Committing(w, op)
  PROVE  /\ req[w].user \in Users
         /\ req[w].in \in Inputs
         /\ req[w].in.op = op
BY RequestFields DEF Committing

LEMMA DoneTypeOK ==
  ASSUME TypeOK, NEW w \in Workers, Done(w)
  PROVE  req' \in [Workers -> Requests \cup {Idle}]
BY DEF Done, TypeOK

LEMMA CommitTypeOK ==
  ASSUME TypeOK, NEW w \in Workers,
         \/ CommitLifecycle(w)
         \/ CommitNew(w)
         \/ CommitDelete(w)
         \/ LogEvent(w)
  PROVE  TypeOK'
<1>1. CASE CommitLifecycle(w)
  <2>. DEFINE r == req[w]
              s == [action |-> r.in.action, user_name |-> r.user]
              c == [phase |-> "committed", user |-> r.user, a |-> r.in.a]
  <2>1. /\ r.user \in Users
        /\ r.in.a \in Assessments
        /\ r.in.action \in T!Actions
    BY <1>1, CommittingFields, InputFields DEF CommitLifecycle
  <2>2. s \in T!Signoffs /\ c \in Requests
    BY <2>1 DEF T!Signoffs, Requests
  <2>3. Append(signoffs[r.in.a], s) \in Seq(T!Signoffs)
    BY <2>1, <2>2 DEF TypeOK
  <2>4. req' \in [Workers -> Requests \cup {Idle}]
    BY <1>1, <2>2 DEF CommitLifecycle, ToBeLogged, TypeOK
  <2>. QED
    BY <1>1, <2>1, <2>3, <2>4, StatusAfterActionType
    DEF CommitLifecycle, TypeOK, history
<1>2. CASE CommitNew(w)
  <2>1. /\ req' \in [Workers -> Requests \cup {Idle}]
        /\ req[w].user \in Users
    BY <1>2, CommittingFields, DoneTypeOK DEF CommitNew
  <2>. QED
    BY <1>2, <2>1 DEF CommitNew, TypeOK, T!Statuses
<1>3. CASE CommitDelete(w)
  <2>1. req' \in [Workers -> Requests \cup {Idle}]
    BY <1>3, DoneTypeOK DEF CommitDelete
  <2>2. status' \in [Assessments -> T!Statuses \cup {"unused", "deleted"}]
    BY <1>3 DEF CommitDelete, TypeOK
  <2>3. <<>> \in Seq(T!Signoffs)
    OBVIOUS
  <2>4. signoffs' \in [Assessments -> Seq(T!Signoffs)]
    BY <1>3, <2>3 DEF CommitDelete, TypeOK
  <2>5. /\ created_by' \in [Assessments -> Users \cup {Nobody}]
        /\ logged' \in [Assessments -> Nat]
    BY <1>3 DEF CommitDelete, TypeOK
  <2>. QED
    BY <1>3, <2>1, <2>2, <2>4, <2>5 DEF CommitDelete, TypeOK, history
<1>4. CASE LogEvent(w)
  <2>1. logged' \in [Assessments -> Nat]
    <3>. DEFINE a == req[w].a
    <3>1. logged \in [Assessments -> Nat] /\ a \in Assessments
      BY <1>4, RequestFields DEF LogEvent, TypeOK
    <3>2. logged' = [logged EXCEPT ![a] = logged[a] + 1]
      BY <1>4 DEF LogEvent
    <3>3. logged[a] + 1 \in Nat
      BY <3>1
    <3>. HIDE DEF a
    <3>. QED
      BY <3>1, <3>2, <3>3
  <2>2. req' \in [Workers -> Requests \cup {Idle}]
    BY <1>4, DoneTypeOK DEF LogEvent
  <2>. QED
    BY <1>4, <2>1, <2>2 DEF LogEvent, TypeOK, history
<1>. QED
  BY <1>1, <1>2, <1>3, <1>4

LEMMA AdministrationTypeOK ==
  ASSUME TypeOK, NEW u \in Users,
         \/ DeleteUser(u)
         \/ \E r \in RoleChoices : UpdateRole(u, r)
  PROVE  TypeOK'
<1>1. CASE DeleteUser(u)
  BY <1>1 DEF DeleteUser, TypeOK, history
<1>2. ASSUME NEW r \in RoleChoices, UpdateRole(u, r)
      PROVE  TypeOK'
  BY <1>2, RoleAssumption DEF UpdateRole, TypeOK, Roles
<1>. QED
  BY <1>1, <1>2

LEMMA NextTypeOK == TypeOK /\ [Next]_vars => TypeOK'
<1>1. ASSUME TypeOK, Next PROVE TypeOK'
  BY <1>1, RequestStepTypeOK, CommitTypeOK, AdministrationTypeOK DEF Next
<1>2. ASSUME TypeOK, UNCHANGED vars PROVE TypeOK'
  BY <1>2 DEF TypeOK, vars, history
<1>. QED
  BY <1>1, <1>2

\* Every variable keeps its type: the rows, the trails and the local state of
\* every request.
THEOREM TypeCorrect == Spec => []TypeOK
BY InitTypeOK, NextTypeOK, PTL DEF Spec

-----------------------------------------------------------------------------
(***************************************************************************)
(* The inductive invariant.                                                *)
(***************************************************************************)

\* Appending to a trail leaves the statuses before it alone.
LEMMA TrailAppend ==
  ASSUME NEW t \in Seq(T!Signoffs), NEW s \in T!Signoffs
  PROVE  /\ Len(Append(t, s)) = Len(t) + 1
         /\ \A k \in 0 .. Len(t) :
              T!StatusAt(Append(t, s), k) = T!StatusAt(t, k)
         /\ T!StatusAt(Append(t, s), Len(t) + 1) = T!StatusAfterAction(s.action)
         /\ \A i \in 1 .. Len(t) : Append(t, s)[i] = t[i]
         /\ Append(t, s)[Len(t) + 1] = s
<1>1. /\ Len(Append(t, s)) = Len(t) + 1
      /\ \A i \in 1 .. Len(t) : Append(t, s)[i] = t[i]
      /\ Append(t, s)[Len(t) + 1] = s
      /\ Len(t) \in Nat
  OBVIOUS
<1>. QED
  BY <1>1 DEF T!StatusAt

\* Only a submission leads to a status in which a decision is allowed.
LEMMA DecisionNeedsSubmission ==
  ASSUME NEW t \in Seq(T!Signoffs), NEW k \in 0 .. Len(t),
         NEW action \in T!Allowed(T!StatusAt(t, k)),
         action \in {"approve", "return"}
  PROVE  k \in 1 .. Len(t) /\ t[k].action = "submit_for_review"
<1>1. T!StatusAt(t, k) = "in_review"
  BY DEF T!Allowed
<1>2. k # 0
  BY <1>1 DEF T!StatusAt
<1>3. t[k] \in T!Signoffs
  BY <1>2, ElementOfSeq
<1>. QED
  BY <1>1, <1>2, <1>3 DEF T!StatusAt, T!StatusAfterAction, T!Signoffs, T!Actions

LEMMA InitLifecycleInv == Init => LifecycleInv
<1>. SUFFICES ASSUME Init PROVE LifecycleInv
  OBVIOUS
<1>1. \A a \in Assessments : signoffs[a] = <<>> /\ ~ Exists(a)
  BY DEF Init, Exists, T!Statuses
<1>2. \A w \in Workers : req[w].phase = "idle"
  BY DEF Init, Idle
<1>3. AuthorityGrounded
  BY <1>2 DEF Init, AuthorityGrounded, Pending
<1>. QED
  BY <1>1, <1>2, <1>3
  DEF LifecycleInv, StatusIsLastSignoff, FreshIsBlank, PendingGrounded, Pending,
      DecisionsFollowSubmission, SignedWithAuthority

\* Steps that leave the rows alone and put no request into the checked phase.
LEMMA QuietStep ==
  ASSUME TypeOK, LifecycleInv,
         UNCHANGED <<status, created_by, signoffs, history, role>>,
         NEW w \in Workers, NEW r, req' = [req EXCEPT ![w] = r],
         r.phase # "checked",
         /\ r.phase = "authenticated"
         /\ r.role = "admin"
         => r.user \in everAdmin
  PROVE  LifecycleInv'
<1>. USE DEF LifecycleInv, history
<1>1. \A x \in Workers : Pending(x)' => Pending(x) /\ req'[x] = req[x]
  BY DEF TypeOK, Pending
<1>2. (StatusIsLastSignoff /\ FreshIsBlank)'
  BY DEF StatusIsLastSignoff, FreshIsBlank, Exists
<1>3. PendingGrounded'
  BY <1>1 DEF PendingGrounded, Exists
<1>4. (DecisionsFollowSubmission /\ SignedWithAuthority)'
  BY DEF DecisionsFollowSubmission, SignedWithAuthority
<1>5. AuthorityGrounded'
  BY <1>1 DEF AuthorityGrounded, TypeOK
<1>. QED
  BY <1>2, <1>3, <1>4, <1>5

\* The check reads a status that is the last of its trail, so the action it
\* lets through is grounded there.
LEMMA CheckStep ==
  ASSUME TypeOK, LifecycleInv, NEW w \in Workers, NEW in \in Inputs,
         Check(w, in)
  PROVE  LifecycleInv'
<1>. USE DEF LifecycleInv, history
<1>. DEFINE a == in.a
<1>1. /\ UNCHANGED <<role, status, created_by, signoffs, everAdmin, author>>
      /\ req[w].phase = "authenticated"
      /\ req[w].user \in Users
      /\ req'[w] = [phase |-> "checked", user |-> req[w].user, in |-> in]
      /\ \A x \in Workers \ {w} : req'[x] = req[x]
  BY RequestFields DEF Check, TypeOK
<1>2. (StatusIsLastSignoff /\ FreshIsBlank)'
  BY <1>1 DEF StatusIsLastSignoff, FreshIsBlank, Exists
<1>3. (DecisionsFollowSubmission /\ SignedWithAuthority)'
  BY <1>1 DEF DecisionsFollowSubmission, SignedWithAuthority
<1>4. ASSUME Pending(w)'
      PROVE  /\ a \in Assessments
             /\ Exists(a)
             /\ in.action \in T!Allowed(status[a])
             /\ \/ req[w].user \in everAdmin
                \/ /\ in.action # "approve"
                   /\ req[w].user = author[a]
  <2>1. in.op = "lifecycle" /\ MayRunLifecycle(req[w], in)
    BY <1>1, <1>4 DEF Check, Pending, MayProceed
  <2>2. a \in Assessments
    BY <1>1, <2>1, InputFields
  <2>. QED
    BY <1>1, <2>1, <2>2, NobodyAssumption
    DEF MayRunLifecycle, AuthorityGrounded
<1>5. PendingGrounded'
  <2>1. ASSUME Pending(w)'
        PROVE  \E k \in 0 .. Len(signoffs[a]) :
                 in.action \in T!Allowed(T!StatusAt(signoffs[a], k))
    <3>1. Len(signoffs[a]) \in 0 .. Len(signoffs[a])
      BY <1>4, <2>1, LenProperties DEF TypeOK
    <3>2. status[a] = T!StatusAt(signoffs[a], Len(signoffs[a]))
      BY <1>4, <2>1 DEF StatusIsLastSignoff
    <3>. QED
      BY <1>4, <2>1, <3>1, <3>2
  <2>2. ASSUME Pending(w)' PROVE status[a] # "unused"
    BY <1>4, <2>2 DEF Exists, T!Statuses
  <2>. QED
    BY <1>1, <2>1, <2>2 DEF PendingGrounded, Pending, Exists
<1>6. AuthorityGrounded'
  BY <1>1, <1>4 DEF AuthorityGrounded, Pending
<1>. QED
  BY <1>2, <1>3, <1>5, <1>6

\* A commit appends the one sign-off that its request was checked for.
LEMMA CommitLifecycleStep ==
  ASSUME TypeOK, LifecycleInv, NEW w \in Workers, CommitLifecycle(w)
  PROVE  LifecycleInv'
<1>. USE DEF LifecycleInv, history
<1>. DEFINE a == req[w].in.a
            s == [action |-> req[w].in.action, user_name |-> req[w].user]
            t == signoffs[a]
<1>1. /\ Pending(w)
      /\ a \in Assessments
      /\ s \in T!Signoffs
      /\ t \in Seq(T!Signoffs)
  BY RequestFields, InputFields
  DEF CommitLifecycle, Committing, Pending, TypeOK, T!Signoffs
<1>2. /\ Exists(a)
      /\ status' = [status EXCEPT ![a] = T!StatusAfterAction(s.action)]
      /\ signoffs' = [signoffs EXCEPT ![a] = Append(t, s)]
      /\ UNCHANGED <<role, created_by, everAdmin, author>>
  BY DEF CommitLifecycle
<1>3. \A x \in Workers : Pending(x)' => Pending(x) /\ req'[x] = req[x]
  BY DEF CommitLifecycle, ToBeLogged, TypeOK, Pending
<1>4. PICK k \in 0 .. Len(t) : s.action \in T!Allowed(T!StatusAt(t, k))
  BY <1>1, <1>2 DEF PendingGrounded
<1>5. /\ signoffs'[a] = Append(t, s)
      /\ \A b \in Assessments \ {a} :
           signoffs'[b] = signoffs[b] /\ status'[b] = status[b]
      /\ status'[a] = T!StatusAfterAction(s.action)
  BY <1>1, <1>2 DEF TypeOK
<1>. HIDE DEF s, t
<1>6. /\ Len(signoffs'[a]) = Len(t) + 1
      /\ Len(t) \in Nat
      /\ \A i \in 0 .. Len(t) :
           T!StatusAt(signoffs'[a], i) = T!StatusAt(t, i)
      /\ T!StatusAt(signoffs'[a], Len(t) + 1) = T!StatusAfterAction(s.action)
      /\ \A i \in 1 .. Len(t) : signoffs'[a][i] = t[i]
      /\ signoffs'[a][Len(t) + 1] = s
  BY <1>1, <1>5, TrailAppend, LenProperties
<1>7. StatusIsLastSignoff'
  BY <1>5, <1>6 DEF StatusIsLastSignoff, Exists
<1>8. FreshIsBlank'
  <2>1. status'[a] # "unused"
    BY <1>5, StatusAfterActionType DEF T!Statuses
  <2>. QED
    BY <1>5, <2>1 DEF FreshIsBlank
<1>9. PendingGrounded'
  <2>. SUFFICES ASSUME NEW x \in Workers, Pending(x)'
                PROVE  /\ status'[req[x].in.a] # "unused"
                       /\ Exists(req[x].in.a)' =>
                            \E i \in 0 .. Len(signoffs'[req[x].in.a]) :
                              req[x].in.action \in
                                T!Allowed(T!StatusAt(signoffs'[req[x].in.a], i))
    BY <1>3 DEF PendingGrounded
  <2>1. Pending(x) /\ req[x].in.a \in Assessments
    BY <1>3, RequestFields, InputFields DEF Pending
  <2>2. CASE req[x].in.a = a
    <3>1. PICK i \in 0 .. Len(t) :
            req[x].in.action \in T!Allowed(T!StatusAt(t, i))
      BY <1>2, <2>1, <2>2 DEF PendingGrounded, t
    <3>2. i \in 0 .. Len(signoffs'[a])
      BY <1>6, <3>1
    <3>3. status'[a] # "unused"
      BY <1>5, StatusAfterActionType DEF T!Statuses
    <3>. QED
      BY <1>6, <2>2, <3>1, <3>2, <3>3
  <2>3. CASE req[x].in.a # a
    <3>. DEFINE b == req[x].in.a
    <3>1. signoffs'[b] = signoffs[b] /\ status'[b] = status[b]
      BY <1>5, <2>1, <2>3
    <3>2. /\ status[b] # "unused"
          /\ Exists(b) => \E i \in 0 .. Len(signoffs[b]) :
               req[x].in.action \in T!Allowed(T!StatusAt(signoffs[b], i))
      BY <2>1 DEF PendingGrounded
    <3>3. Exists(b)' => Exists(b)
      BY <1>3, <3>1 DEF Exists
    <3>. QED
      BY <3>1, <3>2, <3>3
  <2>. QED
    BY <2>2, <2>3
<1>10. DecisionsFollowSubmission'
  <2>. SUFFICES ASSUME NEW b \in Assessments, NEW i \in 1 .. Len(signoffs'[b]),
                       signoffs'[b][i].action \in {"approve", "return"}
                PROVE  \E j \in 1 .. i - 1 :
                         signoffs'[b][j].action = "submit_for_review"
    BY DEF DecisionsFollowSubmission
  <2>1. CASE b # a
    BY <1>5, <2>1 DEF DecisionsFollowSubmission
  <2>2. CASE b = a /\ i \in 1 .. Len(t)
    <3>1. PICK j \in 1 .. i - 1 : t[j].action = "submit_for_review"
      BY <1>1, <1>6, <2>2 DEF DecisionsFollowSubmission, t
    <3>. QED
      BY <1>6, <2>2, <3>1
  <2>3. CASE b = a /\ i = Len(t) + 1
    <3>1. s.action \in {"approve", "return"}
      BY <1>6, <2>3
    <3>2. k \in 1 .. Len(t) /\ t[k].action = "submit_for_review"
      BY <1>1, <1>4, <3>1, DecisionNeedsSubmission
    <3>. QED
      BY <1>6, <2>3, <3>2
  <2>. QED
    BY <1>6, <2>1, <2>2, <2>3
<1>11. SignedWithAuthority'
  <2>1. \/ s.user_name \in everAdmin
        \/ s.action # "approve" /\ s.user_name = author[a]
    BY <1>1 DEF AuthorityGrounded, s
  <2>2. \A i \in 1 .. Len(t) : \/ t[i].user_name \in everAdmin
                               \/ /\ t[i].action # "approve"
                                  /\ t[i].user_name = author[a]
    BY <1>1 DEF SignedWithAuthority, t
  <2>3. ASSUME NEW i \in 1 .. Len(signoffs'[a])
        PROVE  \/ signoffs'[a][i].user_name \in everAdmin'
               \/ /\ signoffs'[a][i].action # "approve"
                  /\ signoffs'[a][i].user_name = author'[a]
    BY <1>2, <1>6, <2>1, <2>2
  <2>. QED
    BY <1>2, <1>5, <2>3 DEF SignedWithAuthority
<1>12. AuthorityGrounded'
  <2>1. ASSUME NEW x \in Workers, req'[x].phase = "authenticated"
        PROVE  req'[x] = req[x]
    BY <2>1 DEF CommitLifecycle, ToBeLogged, TypeOK
  <2>. QED
    BY <1>2, <1>3, <2>1 DEF AuthorityGrounded
<1>. QED
  BY <1>7, <1>8, <1>9, <1>10, <1>11, <1>12

\* A new row takes an identifier that nothing refers to yet.
LEMMA CommitNewStep ==
  ASSUME TypeOK, LifecycleInv, NEW w \in Workers, CommitNew(w)
  PROVE  LifecycleInv'
<1>. USE DEF LifecycleInv, history
<1>1. PICK new \in Assessments :
        /\ status[new] = "unused"
        /\ status' = [status EXCEPT ![new] = "draft"]
        /\ created_by' = [created_by EXCEPT ![new] = req[w].user]
        /\ author' = [author EXCEPT ![new] = req[w].user]
  BY DEF CommitNew
<1>2. /\ UNCHANGED <<role, signoffs, everAdmin>>
      /\ signoffs[new] = <<>>
  BY <1>1 DEF CommitNew, FreshIsBlank
<1>3. /\ \A b \in Assessments \ {new} :
           /\ status'[b] = status[b]
           /\ created_by'[b] = created_by[b]
           /\ author'[b] = author[b]
      /\ status'[new] = "draft"
      /\ created_by'[new] = author'[new]
  BY <1>1 DEF TypeOK
<1>4. /\ req'[w].phase = "idle"
      /\ \A x \in Workers \ {w} : req'[x] = req[x]
  BY DEF CommitNew, Done, Idle, TypeOK
<1>5. \A x \in Workers : Pending(x)' =>
        Pending(x) /\ req'[x] = req[x] /\ req[x].in.a \in Assessments \ {new}
  <2>1. \A x \in Workers : Pending(x)' => Pending(x) /\ req'[x] = req[x]
    BY <1>4 DEF Pending
  <2>2. ASSUME NEW x \in Workers, Pending(x) PROVE req[x].in.a \in Assessments
    BY <2>2, RequestFields, InputFields DEF Pending
  <2>3. \A x \in Workers : Pending(x) => status[req[x].in.a] # "unused"
    BY DEF PendingGrounded
  <2>. QED
    BY <1>1, <2>1, <2>2, <2>3
<1>6. StatusIsLastSignoff'
  <2>1. T!StatusAt(signoffs'[new], Len(signoffs'[new])) = "draft"
    BY <1>2 DEF T!StatusAt
  <2>. QED
    BY <1>2, <1>3, <2>1 DEF StatusIsLastSignoff, Exists
<1>7. FreshIsBlank'
  BY <1>2, <1>3 DEF FreshIsBlank
<1>8. PendingGrounded'
  BY <1>2, <1>3, <1>5 DEF PendingGrounded, Exists
<1>9. DecisionsFollowSubmission'
  BY <1>2 DEF DecisionsFollowSubmission
<1>10. SignedWithAuthority'
  BY <1>2, <1>3 DEF SignedWithAuthority
<1>11. AuthorityGrounded'
  <2>1. ASSUME NEW x \in Workers, req'[x].phase = "authenticated"
        PROVE  req'[x] = req[x]
    BY <1>4, <2>1
  <2>. QED
    BY <1>2, <1>3, <1>5, <2>1 DEF AuthorityGrounded
<1>. QED
  BY <1>6, <1>7, <1>8, <1>9, <1>10, <1>11

\* A deleted assessment has no status to account for and no trail.
LEMMA CommitDeleteStep ==
  ASSUME TypeOK, LifecycleInv, NEW w \in Workers, CommitDelete(w)
  PROVE  LifecycleInv'
<1>. USE DEF LifecycleInv, history
<1>. DEFINE a == req[w].in.a
<1>1. a \in Assessments
  BY RequestFields, InputFields DEF CommitDelete, Committing
<1>2. /\ UNCHANGED <<role, everAdmin, author>>
      /\ \A b \in Assessments : created_by'[b] \in {Nobody, created_by[b]}
      /\ status'[a] = "deleted" /\ signoffs'[a] = <<>>
      /\ \A b \in Assessments \ {a} :
           status'[b] = status[b] /\ signoffs'[b] = signoffs[b]
  BY <1>1 DEF CommitDelete, TypeOK
<1>3. \A x \in Workers : Pending(x)' =>
        Pending(x) /\ req'[x] = req[x] /\ req[x].in.a \in Assessments
  <2>1. \A x \in Workers : Pending(x)' => Pending(x) /\ req'[x] = req[x]
    BY DEF CommitDelete, Done, Idle, TypeOK, Pending
  <2>. QED
    BY <2>1, RequestFields, InputFields DEF Pending
<1>4. status'[a] \notin T!Statuses /\ status'[a] # "unused"
  BY <1>2 DEF T!Statuses
<1>5. (StatusIsLastSignoff /\ FreshIsBlank)'
  BY <1>2, <1>4 DEF StatusIsLastSignoff, FreshIsBlank, Exists
<1>6. PendingGrounded'
  <2>. SUFFICES ASSUME NEW x \in Workers, Pending(x)'
                PROVE  LET b == req[x].in.a
                       IN /\ status'[b] # "unused"
                          /\ status'[b] \in T!Statuses =>
                               \E k \in 0 .. Len(signoffs'[b]) :
                                 req[x].in.action \in
                                   T!Allowed(T!StatusAt(signoffs'[b], k))
    BY <1>3 DEF PendingGrounded, Exists
  <2>1. CASE req[x].in.a = a
    BY <1>4, <2>1
  <2>2. CASE req[x].in.a # a
    BY <1>2, <1>3, <2>2 DEF PendingGrounded, Exists
  <2>. QED
    BY <2>1, <2>2
<1>7. (DecisionsFollowSubmission /\ SignedWithAuthority)'
  <2>1. 1 .. Len(signoffs'[a]) = {}
    BY <1>2
  <2>. QED
    BY <1>2, <2>1 DEF DecisionsFollowSubmission, SignedWithAuthority
<1>8. AuthorityGrounded'
  <2>1. ASSUME NEW x \in Workers, req'[x].phase = "authenticated"
        PROVE  req'[x] = req[x]
    BY <2>1 DEF CommitDelete, Done, Idle, TypeOK
  <2>. QED
    BY <1>2, <1>3, <2>1 DEF AuthorityGrounded
<1>. QED
  BY <1>5, <1>6, <1>7, <1>8

\* Changing or removing a user only ever widens who has been an administrator
\* and only ever clears a creator.
LEMMA AdministrationStep ==
  ASSUME TypeOK, LifecycleInv, NEW u \in Users,
         \/ DeleteUser(u)
         \/ \E r \in RoleChoices : UpdateRole(u, r)
  PROVE  LifecycleInv'
<1>. USE DEF LifecycleInv, history
<1>. DEFINE Widens ==
       /\ UNCHANGED <<status, signoffs, req, author>>
       /\ everAdmin \subseteq everAdmin'
       /\ \A v \in Users : role'[v] = "admin" => v \in everAdmin'
       /\ \A a \in Assessments : created_by'[a] \in {Nobody, created_by[a]}
<1>1. Widens
  <2>1. CASE DeleteUser(u)
    BY <2>1 DEF DeleteUser, TypeOK, AuthorityGrounded
  <2>2. ASSUME NEW r \in RoleChoices, UpdateRole(u, r) PROVE Widens
    BY <2>2 DEF UpdateRole, TypeOK, AuthorityGrounded
  <2>. QED
    BY <2>1, <2>2
<1>2. (StatusIsLastSignoff /\ FreshIsBlank /\ PendingGrounded
        /\ DecisionsFollowSubmission)'
  BY <1>1 DEF StatusIsLastSignoff, FreshIsBlank, PendingGrounded, Pending, Exists,
              DecisionsFollowSubmission
<1>3. SignedWithAuthority'
  BY <1>1 DEF SignedWithAuthority
<1>4. AuthorityGrounded'
  BY <1>1 DEF AuthorityGrounded, Pending
<1>. QED
  BY <1>2, <1>3, <1>4

LEMMA NextLifecycleInv == TypeOK /\ LifecycleInv /\ [Next]_vars => LifecycleInv'
<1>. SUFFICES ASSUME TypeOK, LifecycleInv, [Next]_vars PROVE LifecycleInv'
  OBVIOUS
<1>1. ASSUME NEW w \in Workers, NEW u \in Users, Authenticate(w, u)
      PROVE  LifecycleInv'
  <2>. DEFINE r == [phase |-> "authenticated", user |-> u, role |-> role[u]]
  <2>1. r.role = "admin" => r.user \in everAdmin
    BY DEF LifecycleInv, AuthorityGrounded
  <2>2. r.phase # "checked" /\ req' = [req EXCEPT ![w] = r]
        /\ UNCHANGED <<status, created_by, signoffs, history, role>>
    BY <1>1 DEF Authenticate
  <2>. HIDE DEF r
  <2>. QED
    BY <2>1, <2>2, QuietStep
<1>2. ASSUME NEW w \in Workers,
             \/ \E in \in Inputs : Reject(w, in)
             \/ Abandon(w)
             \/ LogEvent(w)
      PROVE  LifecycleInv'
  <2>1. /\ req' = [req EXCEPT ![w] = Idle]
        /\ Idle.phase = "idle"
        /\ UNCHANGED <<status, created_by, signoffs, history, role>>
    BY <1>2 DEF Reject, Abandon, LogEvent, Done, Idle
  <2>. QED
    BY <2>1, QuietStep
<1>3. CASE UNCHANGED vars
  BY <1>3 DEF vars, history, LifecycleInv, StatusIsLastSignoff, FreshIsBlank,
              PendingGrounded, Pending, Exists, DecisionsFollowSubmission,
              SignedWithAuthority, AuthorityGrounded
<1>. QED
  BY <1>1, <1>2, <1>3, CheckStep, CommitLifecycleStep, CommitNewStep,
     CommitDeleteStep, AdministrationStep DEF Next

\* LifecycleInv is inductive, so it holds in every reachable state.
THEOREM LifecycleInvariant == Spec => []LifecycleInv
BY InitLifecycleInv, NextLifecycleInv, TypeCorrect, PTL DEF Spec

\* The stored status is the one the newest sign-off leads to.
THEOREM StatusMatchesTrail == Spec => []StatusIsLastSignoff
<1>1. LifecycleInv => StatusIsLastSignoff
  BY DEF LifecycleInv
<1>. QED
  BY <1>1, LifecycleInvariant, PTL

\* No approval and no return without an earlier submission, whatever races.
THEOREM DecisionsOrdered == Spec => []DecisionsFollowSubmission
<1>1. LifecycleInv => DecisionsFollowSubmission
  BY DEF LifecycleInv
<1>. QED
  BY <1>1, LifecycleInvariant, PTL

\* Only administrators approve, and only they or the author sign anything.
THEOREM SignaturesAuthorised == Spec => []SignedWithAuthority
<1>1. LifecycleInv => SignedWithAuthority
  BY DEF LifecycleInv
<1>. QED
  BY <1>1, LifecycleInvariant, PTL

-----------------------------------------------------------------------------
(***************************************************************************)
(* The audit log against the trail.                                        *)
(***************************************************************************)
LEMMA InitReports == Init => ReportsArePaidFor
<1>. SUFFICES ASSUME Init, NEW a \in Assessments
     PROVE  /\ IsFiniteSet(Unlogged(a))
            /\ logged[a] = 0 /\ Unlogged(a) = {}
            /\ ~ Exists(a)
  BY DEF ReportsArePaidFor
<1>1. Unlogged(a) = {}
  BY DEF Init, Idle, Unlogged
<1>. QED
  BY <1>1, FS_EmptySet DEF Init, Exists, T!Statuses

\* A request that ends, or goes on to a phase without a report, leaves at most
\* fewer reports to come.
LEMMA UnloggedShrinks ==
  ASSUME TypeOK, ReportsArePaidFor, NEW w \in Workers, NEW r,
         req' = [req EXCEPT ![w] = r], r.phase # "committed",
         NEW a \in Assessments
  PROVE  /\ Unlogged(a)' = Unlogged(a) \ {w}
         /\ IsFiniteSet(Unlogged(a)')
         /\ Cardinality(Unlogged(a)') \in Nat
         /\ Cardinality(Unlogged(a)') <= Cardinality(Unlogged(a))
         /\ w \in Unlogged(a) =>
              Cardinality(Unlogged(a)') + 1 = Cardinality(Unlogged(a))
<1>1. Unlogged(a)' = Unlogged(a) \ {w}
  BY DEF Unlogged, TypeOK
<1>2. IsFiniteSet(Unlogged(a))
  BY DEF ReportsArePaidFor
<1>3. Cardinality(Unlogged(a)) \in Nat
  BY <1>2, FS_CardinalityType
<1>4. /\ IsFiniteSet(Unlogged(a) \ {w})
      /\ Cardinality(Unlogged(a) \ {w}) =
           IF w \in Unlogged(a) THEN Cardinality(Unlogged(a)) - 1
                               ELSE Cardinality(Unlogged(a))
  BY <1>2, FS_RemoveElement
<1>5. Cardinality(Unlogged(a) \ {w}) \in Nat
  BY <1>4, FS_CardinalityType
<1>. QED
  BY <1>1, <1>3, <1>4, <1>5

\* Steps that leave the trails and the entries alone and commit no transition.
LEMMA QuietReports ==
  ASSUME TypeOK, ReportsArePaidFor, UNCHANGED <<status, signoffs, logged>>,
         NEW w \in Workers, NEW r, req' = [req EXCEPT ![w] = r],
         r.phase # "committed"
  PROVE  ReportsArePaidFor'
<1>. SUFFICES ASSUME NEW a \in Assessments
     PROVE  /\ IsFiniteSet(Unlogged(a)')
            /\ status[a] = "unused" => logged[a] = 0 /\ Unlogged(a)' = {}
            /\ Exists(a) =>
                 logged[a] + Cardinality(Unlogged(a)') <= Len(signoffs[a])
  BY DEF ReportsArePaidFor, Exists
<1>1. logged[a] \in Nat /\ Len(signoffs[a]) \in Nat
  BY DEF TypeOK
<1>2. Cardinality(Unlogged(a)) \in Nat
  BY FS_CardinalityType DEF ReportsArePaidFor
<1>3. /\ Unlogged(a)' = Unlogged(a) \ {w}
      /\ IsFiniteSet(Unlogged(a)')
      /\ Cardinality(Unlogged(a)') \in Nat
      /\ Cardinality(Unlogged(a)') <= Cardinality(Unlogged(a))
  BY UnloggedShrinks
<1>. QED
  BY <1>1, <1>2, <1>3 DEF ReportsArePaidFor

\* The transition is committed with its sign-off: one more report to come, and
\* one more sign-off to pay for it.
LEMMA CommitLifecycleReports ==
  ASSUME TypeOK, ReportsArePaidFor, NEW w \in Workers, CommitLifecycle(w)
  PROVE  ReportsArePaidFor'
<1>. DEFINE b == req[w].in.a
            s == [action |-> req[w].in.action, user_name |-> req[w].user]
<1>1. b \in Assessments /\ s \in T!Signoffs
  BY CommittingFields, InputFields DEF CommitLifecycle, T!Signoffs
<1>2. /\ req[w].phase = "checked" /\ Exists(b)
      /\ req' = [req EXCEPT ![w] = [phase |-> "committed", user |-> req[w].user,
                                    a |-> b]]
      /\ status' = [status EXCEPT ![b] = T!StatusAfterAction(req[w].in.action)]
      /\ signoffs' = [signoffs EXCEPT ![b] = Append(signoffs[b], s)]
      /\ logged' = logged
  BY DEF CommitLifecycle, Committing, ToBeLogged
<1>3. T!StatusAfterAction(req[w].in.action) \in T!Statuses
  BY StatusAfterActionType
<1>. HIDE DEF b, s
<1>. SUFFICES ASSUME NEW a \in Assessments
     PROVE  /\ IsFiniteSet(Unlogged(a)')
            /\ status'[a] = "unused" => logged[a] = 0 /\ Unlogged(a)' = {}
            /\ Exists(a)' =>
                 logged[a] + Cardinality(Unlogged(a)') <= Len(signoffs'[a])
  BY <1>2 DEF ReportsArePaidFor
<1>4. IsFiniteSet(Unlogged(a)) /\ logged[a] \in Nat /\ signoffs[a] \in Seq(T!Signoffs)
  BY DEF ReportsArePaidFor, TypeOK
<1>5. Cardinality(Unlogged(a)) \in Nat /\ Len(signoffs[a]) \in Nat
  BY <1>4, FS_CardinalityType
<1>6. CASE a = b
  <2>1. Unlogged(a)' = Unlogged(a) \cup {w} /\ w \notin Unlogged(a)
    BY <1>2, <1>6 DEF Unlogged, TypeOK
  <2>2. /\ IsFiniteSet(Unlogged(a)')
        /\ Cardinality(Unlogged(a)') = Cardinality(Unlogged(a)) + 1
    BY <2>1, <1>4, FS_AddElement
  <2>3. Len(signoffs'[a]) = Len(signoffs[a]) + 1
    BY <1>1, <1>2, <1>4, <1>6 DEF TypeOK
  <2>4. status'[a] # "unused"
    BY <1>1, <1>2, <1>3, <1>6 DEF TypeOK, T!Statuses
  <2>5. logged[a] + Cardinality(Unlogged(a)) <= Len(signoffs[a])
    BY <1>2, <1>6 DEF ReportsArePaidFor
  <2>. QED
    BY <2>2, <2>3, <2>4, <2>5, <1>4, <1>5
<1>7. CASE a # b
  <2>1. Unlogged(a)' = Unlogged(a)
    BY <1>2, <1>7 DEF Unlogged, TypeOK
  <2>2. status'[a] = status[a] /\ signoffs'[a] = signoffs[a]
    BY <1>2, <1>7 DEF TypeOK
  <2>3. Exists(a)' <=> Exists(a)
    BY <2>2 DEF Exists
  <2>. QED
    BY <2>1, <2>2, <2>3 DEF ReportsArePaidFor
<1>. QED
  BY <1>6, <1>7

\* A report that is written is one that was still to come.
LEMMA LogEventReports ==
  ASSUME TypeOK, ReportsArePaidFor, NEW w \in Workers, LogEvent(w)
  PROVE  ReportsArePaidFor'
<1>. DEFINE b == req[w].a
<1>1. /\ req[w].phase = "committed" /\ Exists(b)
      /\ req' = [req EXCEPT ![w] = Idle] /\ Idle.phase # "committed"
      /\ logged' = [logged EXCEPT ![b] = logged[b] + 1]
      /\ UNCHANGED <<status, signoffs>>
  BY DEF LogEvent, Done, Idle
<1>2. b \in Assessments /\ w \in Unlogged(b)
  BY <1>1, RequestFields DEF Unlogged
<1>. HIDE DEF b
<1>. SUFFICES ASSUME NEW a \in Assessments
     PROVE  /\ IsFiniteSet(Unlogged(a)')
            /\ status[a] = "unused" => logged'[a] = 0 /\ Unlogged(a)' = {}
            /\ Exists(a) =>
                 logged'[a] + Cardinality(Unlogged(a)') <= Len(signoffs[a])
  BY <1>1 DEF ReportsArePaidFor, Exists
<1>3. /\ logged[a] \in Nat /\ Len(signoffs[a]) \in Nat
      /\ Cardinality(Unlogged(a)) \in Nat
  BY FS_CardinalityType DEF ReportsArePaidFor, TypeOK
<1>4. /\ Unlogged(a)' = Unlogged(a) \ {w}
      /\ IsFiniteSet(Unlogged(a)')
      /\ Cardinality(Unlogged(a)') \in Nat
      /\ Cardinality(Unlogged(a)') <= Cardinality(Unlogged(a))
      /\ w \in Unlogged(a) =>
           Cardinality(Unlogged(a)') + 1 = Cardinality(Unlogged(a))
  BY <1>1, UnloggedShrinks
<1>5. CASE a = b
  <2>1. logged'[a] = logged[a] + 1
    BY <1>1, <1>5 DEF TypeOK
  <2>2. status[a] # "unused"
    BY <1>1, <1>5 DEF Exists, T!Statuses
  <2>. QED
    BY <1>1, <1>2, <1>3, <1>4, <1>5, <2>1, <2>2 DEF ReportsArePaidFor
<1>6. CASE a # b
  <2>1. logged'[a] = logged[a]
    BY <1>1, <1>6 DEF TypeOK
  <2>. QED
    BY <1>3, <1>4, <2>1 DEF ReportsArePaidFor
<1>. QED
  BY <1>5, <1>6

\* A new row starts without entries, and a deletion takes them along.
LEMMA RowReports ==
  ASSUME TypeOK, ReportsArePaidFor, NEW w \in Workers,
         CommitNew(w) \/ CommitDelete(w)
  PROVE  ReportsArePaidFor'
<1>1. req' = [req EXCEPT ![w] = Idle] /\ Idle.phase # "committed"
  BY DEF CommitNew, CommitDelete, Done, Idle
<1>. SUFFICES ASSUME NEW a \in Assessments
     PROVE  /\ IsFiniteSet(Unlogged(a)')
            /\ status'[a] = "unused" => logged'[a] = 0 /\ Unlogged(a)' = {}
            /\ Exists(a)' =>
                 logged'[a] + Cardinality(Unlogged(a)') <= Len(signoffs'[a])
  BY DEF ReportsArePaidFor
<1>2. /\ Unlogged(a)' = Unlogged(a) \ {w}
      /\ IsFiniteSet(Unlogged(a)')
      /\ Cardinality(Unlogged(a)') \in Nat
      /\ Cardinality(Unlogged(a)') <= Cardinality(Unlogged(a))
  BY <1>1, UnloggedShrinks
<1>3. /\ logged[a] \in Nat /\ Len(signoffs[a]) \in Nat
      /\ Cardinality(Unlogged(a)) \in Nat
  BY FS_CardinalityType DEF ReportsArePaidFor, TypeOK
<1>4. CASE status'[a] = status[a] /\ signoffs'[a] = signoffs[a] /\ logged'[a] = logged[a]
  <2>1. Exists(a)' <=> Exists(a)
    BY <1>4 DEF Exists
  <2>. QED
    BY <1>2, <1>3, <1>4, <2>1 DEF ReportsArePaidFor
<1>5. CASE /\ status[a] = "unused" /\ status'[a] = "draft"
           /\ signoffs'[a] = signoffs[a] /\ logged'[a] = logged[a]
  <2>1. Unlogged(a) = {} /\ logged[a] = 0
    BY <1>5 DEF ReportsArePaidFor
  <2>2. Unlogged(a)' = {}
    BY <1>2, <2>1
  <2>3. Cardinality(Unlogged(a)') = 0
    BY <2>2, FS_EmptySet
  <2>4. logged'[a] + Cardinality(Unlogged(a)') = 0
    BY <1>5, <2>1, <2>3
  <2>5. signoffs'[a] = signoffs[a] /\ status'[a] # "unused"
    BY <1>5
  <2>. QED
    BY <1>2, <1>3, <2>4, <2>5
<1>6. CASE status'[a] = "deleted"
  BY <1>2, <1>6 DEF Exists, T!Statuses
<1>7. CASE CommitNew(w)
  <2>1. PICK new \in Assessments :
          status[new] = "unused" /\ status' = [status EXCEPT ![new] = "draft"]
    BY <1>7 DEF CommitNew
  <2>2. signoffs' = signoffs /\ logged' = logged
    BY <1>7 DEF CommitNew
  <2>3. CASE a = new
    BY <2>1, <2>2, <2>3, <1>5 DEF TypeOK
  <2>4. CASE a # new
    BY <2>1, <2>2, <2>4, <1>4 DEF TypeOK
  <2>. QED
    BY <2>3, <2>4
<1>8. CASE CommitDelete(w)
  <2>. DEFINE b == req[w].in.a
  <2>1. /\ status' = [status EXCEPT ![b] = "deleted"]
        /\ signoffs' = [signoffs EXCEPT ![b] = <<>>]
        /\ logged' = [logged EXCEPT ![b] = 0]
    BY <1>8 DEF CommitDelete
  <2>. HIDE DEF b
  <2>2. CASE a = b
    BY <2>1, <2>2, <1>6 DEF TypeOK
  <2>3. CASE a # b
    BY <2>1, <2>3, <1>4 DEF TypeOK
  <2>. QED
    BY <2>2, <2>3
<1>. QED
  BY <1>7, <1>8

LEMMA NextReports == TypeOK /\ ReportsArePaidFor /\ [Next]_vars => ReportsArePaidFor'
<1>. SUFFICES ASSUME TypeOK, ReportsArePaidFor, [Next]_vars
     PROVE  ReportsArePaidFor'
  OBVIOUS
<1>1. ASSUME NEW w \in Workers, NEW u \in Users, Authenticate(w, u)
      PROVE  ReportsArePaidFor'
  <2>. DEFINE r == [phase |-> "authenticated", user |-> u, role |-> role[u]]
  <2>1. /\ r.phase # "committed" /\ req' = [req EXCEPT ![w] = r]
        /\ UNCHANGED <<status, signoffs, logged>>
    BY <1>1 DEF Authenticate
  <2>. HIDE DEF r
  <2>. QED
    BY <2>1, QuietReports
<1>2. ASSUME NEW w \in Workers, NEW in \in Inputs, Check(w, in)
      PROVE  ReportsArePaidFor'
  <2>. DEFINE r == [phase |-> "checked", user |-> req[w].user, in |-> in]
  <2>1. /\ r.phase # "committed" /\ req' = [req EXCEPT ![w] = r]
        /\ UNCHANGED <<status, signoffs, logged>>
    BY <1>2 DEF Check
  <2>. HIDE DEF r
  <2>. QED
    BY <2>1, QuietReports
<1>3. ASSUME NEW w \in Workers, Abandon(w) \/ \E in \in Inputs : Reject(w, in)
      PROVE  ReportsArePaidFor'
  <2>1. /\ req' = [req EXCEPT ![w] = Idle] /\ Idle.phase # "committed"
        /\ UNCHANGED <<status, signoffs, logged>>
    BY <1>3 DEF Abandon, Reject, Idle
  <2>. QED
    BY <2>1, QuietReports
<1>4. CASE UNCHANGED <<status, signoffs, logged, req>>
  BY <1>4 DEF ReportsArePaidFor, Unlogged, Exists
<1>5. ASSUME NEW u \in Users, DeleteUser(u) \/ \E r \in RoleChoices : UpdateRole(u, r)
      PROVE  ReportsArePaidFor'
  BY <1>4, <1>5 DEF DeleteUser, UpdateRole, history
<1>6. CASE UNCHANGED vars
  BY <1>4, <1>6 DEF vars
<1>. QED
  BY <1>1, <1>2, <1>3, <1>5, <1>6, CommitLifecycleReports, LogEventReports,
     RowReports DEF Next

\* The audit log reports no transition that was not committed, for any number
\* of requests that race, are killed or are refused their entry.
THEOREM LogIsHonest == Spec => []LogReportsCommitted
<1>1. TypeOK /\ ReportsArePaidFor => LogReportsCommitted
  <2>. SUFFICES ASSUME TypeOK, ReportsArePaidFor,
                       NEW a \in Assessments, Exists(a)
       PROVE  logged[a] <= Len(signoffs[a])
    BY DEF LogReportsCommitted
  <2>1. /\ logged[a] \in Nat /\ Len(signoffs[a]) \in Nat
        /\ Cardinality(Unlogged(a)) \in Nat
    BY FS_CardinalityType DEF ReportsArePaidFor, TypeOK
  <2>. QED
    BY <2>1 DEF ReportsArePaidFor
<1>. QED
  BY <1>1, InitReports, NextReports, TypeCorrect, PTL DEF Spec

-----------------------------------------------------------------------------
(***************************************************************************)
(* The router implements SignoffTrail.                                     *)
(***************************************************************************)
LEMMA StepRecordsOrDiscards ==
  TypeOK /\ LifecycleInv /\ [Next]_vars => [T!Next]_signoffs
<1>. SUFFICES ASSUME TypeOK, LifecycleInv, [Next]_vars PROVE [T!Next]_signoffs
  OBVIOUS
<1>1. ASSUME NEW w \in Workers, CommitLifecycle(w)
      PROVE  T!Next
  <2>. DEFINE a == req[w].in.a
              s == [action |-> req[w].in.action, user_name |-> req[w].user]
  <2>1. a \in Assessments /\ s \in T!Signoffs /\ Pending(w)
    BY <1>1, RequestFields, InputFields
    DEF CommitLifecycle, Committing, Pending, T!Signoffs
  <2>2. \E k \in 0 .. Len(signoffs[a]) :
          s.action \in T!Allowed(T!StatusAt(signoffs[a], k))
    BY <1>1, <2>1 DEF LifecycleInv, PendingGrounded, CommitLifecycle
  <2>3. signoffs' = [signoffs EXCEPT ![a] = Append(signoffs[a], s)]
    BY <1>1 DEF CommitLifecycle
  <2>. HIDE DEF a, s
  <2>. QED
    BY <2>1, <2>2, <2>3 DEF T!Next, T!Record
<1>2. ASSUME NEW w \in Workers, CommitDelete(w)
      PROVE  T!Next
  BY <1>2, RequestFields, InputFields
  DEF CommitDelete, Committing, T!Next, T!Discard
<1>3. CASE UNCHANGED signoffs
  BY <1>3
<1>. QED
  BY <1>1, <1>2, <1>3
  DEF Next, Authenticate, Check, Reject, CommitNew, LogEvent, Abandon,
      DeleteUser, UpdateRole, vars

\* Whatever the requests do, each sign-off is an action that was allowed from
\* an earlier status of the same trail.
THEOREM ImplementsSignoffTrail == Spec => TrailSpec
<1>1. Init => T!Init
  BY DEF Init, T!Init
<1>. QED
  BY <1>1, StepRecordsOrDiscards, TypeCorrect, LifecycleInvariant, PTL
  DEF Spec, TrailSpec, T!Spec
=============================================================================
