------------------------ MODULE UserDirectoryProofs ------------------------
(***************************************************************************)
(* Proofs about UserDirectory, for any number of accounts, subjects,        *)
(* addresses and workers, and any names that are derived for a subject, and *)
(* about MfaEnrollment (F of MCDirectory), for any secrets and workers.     *)
(***************************************************************************)
EXTENDS MCDirectory, TLAPS

-----------------------------------------------------------------------------
(***************************************************************************)
(* Type correctness                                                        *)
(***************************************************************************)

\* The phase of a request tells which fields it has.
LEMMA RequestFields ==
  ASSUME NEW q \in Requests \cup {Idle}
  PROVE  /\ q.phase = "admin" => q.requester \in Ids /\ q.loaded \in Rows
         /\ q.phase \in {"updating", "deleting"} => q.requester \in Ids /\ q.user \in Ids
         /\ q.phase = "updating" => q.writes \in PartsOf(Updates)
         /\ q.phase \in {"address", "name", "insert", "found", "entered"} => q.subject \in Subjects
         /\ q.phase = "insert" => q.name \in UserNames
         /\ q.phase = "found" => q.user \in Ids /\ q.writes \in PartsOf([oidc_sub : Subjects])
  BY DEF Requests, Idle

\* What Written leaves of an update is a part of it.
LEMMA WrittenIsPart ==
  ASSUME NEW U, NEW update \in U, NEW loaded
  PROVE  Written(loaded, update) \in PartsOf(U)
<1> DEFINE D == {d \in DOMAIN update : update[d] # loaded[d]}
<1>1. D \in SUBSET DOMAIN update
  OBVIOUS
<1>2. Written(loaded, update) = [c \in D |-> update[c]]
  BY DEF Written
<1>3. Written(loaded, update) \in {[c \in E |-> update[c]] : E \in SUBSET DOMAIN update}
  BY <1>1, <1>2
<1> QED
  BY <1>3 DEF PartsOf

\* The columns that an update of a user by an administrator writes.
LEMMA UpdateColumns ==
  ASSUME NEW x \in PartsOf(Updates)
  PROVE  /\ DOMAIN x \subseteq {"role", "is_active", "email"}
         /\ "role" \in DOMAIN x => x["role"] \in Roles
         /\ "is_active" \in DOMAIN x => x["is_active"] \in BOOLEAN
         /\ "email" \in DOMAIN x => x["email"] \in Addresses \cup {NoAddress}
<1>1. PICK u \in Updates : \E D \in SUBSET DOMAIN u : x = [c \in D |-> u[c]]
  BY DEF PartsOf
<1>2. CASE u \in [role : Roles]
  BY <1>1, <1>2
<1>3. CASE u \in [is_active : BOOLEAN]
  BY <1>1, <1>3
<1>4. CASE u \in [email : Mails]
  BY <1>1, <1>4, DirectoryAssumption
<1> QED
  BY <1>2, <1>3, <1>4 DEF Updates

\* A callback writes the subject or nothing.
LEMMA LinkColumns ==
  ASSUME NEW x \in PartsOf([oidc_sub : Subjects])
  PROVE  /\ DOMAIN x \subseteq {"oidc_sub"}
         /\ "oidc_sub" \in DOMAIN x => x["oidc_sub"] \in Subjects
<1>1. PICK u \in [oidc_sub : Subjects] : \E D \in SUBSET DOMAIN u : x = [c \in D |-> u[c]]
  BY DEF PartsOf
<1> QED
  BY <1>1

LEMMA UpdatedRow ==
  ASSUME NEW r \in Rows, NEW x \in PartsOf(Updates)
  PROVE  LET new == Flush(r, x, DOMAIN x)
         IN /\ new \in Rows
            /\ new.oidc_sub = r.oidc_sub
            /\ "role" \notin DOMAIN x => new.role = r.role
            /\ "role" \in DOMAIN x => new.role = x["role"]
            /\ "is_active" \notin DOMAIN x => new.is_active = r.is_active
            /\ "is_active" \in DOMAIN x => new.is_active = x["is_active"]
  BY UpdateColumns DEF Flush, Rows

LEMMA LinkedRow ==
  ASSUME NEW r \in Rows, NEW x \in PartsOf([oidc_sub : Subjects])
  PROVE  LET new == Flush(r, x, DOMAIN x)
         IN /\ new \in Rows
            /\ new.role = r.role /\ new.is_active = r.is_active /\ new.email = r.email
            /\ "oidc_sub" \notin DOMAIN x => new.oidc_sub = r.oidc_sub
            /\ "oidc_sub" \in DOMAIN x => new.oidc_sub = x["oidc_sub"]
  BY LinkColumns DEF Flush, Rows

LEMMA NoRowIsNoRow == NoRow \notin Rows
  BY DEF NoRow, Rows

LEMMA RowFields ==
  ASSUME TypeOK, NEW a \in Ids, Exists(a)
  PROVE  users[a] \in Rows
  BY DEF TypeOK, Exists

\* A step that leaves the table alone and gives one worker a request.
LEMMA TypeGo ==
  ASSUME TypeOK, NEW w \in Workers, NEW q \in Requests \cup {Idle}, Go(w, q),
         UNCHANGED <<users, created, founders, rushed, abdicated, overtaken, displaced>>,
         raced' \subseteq Subjects
  PROVE  TypeOK'
  BY DEF TypeOK, Go

LEMMA TypeInsert ==
  ASSUME TypeOK, NEW new \in Rows, Insert(new)
  PROVE  /\ users' \in [Ids -> Rows \cup {NoRow}]
         /\ created' \in 0..MaxAccounts
         /\ rushed' \in BOOLEAN
         /\ created + 1 \in Ids
  BY DirectoryAssumption DEF TypeOK, Insert, Ids

LEMMA TypeNext == TypeOK /\ [Next]_vars => TypeOK'
<1> SUFFICES ASSUME TypeOK, [Next]_vars
             PROVE  TypeOK'
  OBVIOUS
<1>0. \A w \in Workers : req[w] \in Requests \cup {Idle}
  BY DEF TypeOK
<1>1. ASSUME NEW w \in Workers, CountUsers(w)
      PROVE  TypeOK'
  BY <1>1, TypeGo DEF CountUsers, history, Requests, TypeOK
<1>2. ASSUME NEW w \in Workers, NEW name \in Names, CommitSetup(w, name)
      PROVE  TypeOK'
  <2>1. NewRow(name, "admin", NoAddress, NoSubject) \in Rows
    BY DEF NewRow, Rows, Roles, UserNames
  <2> QED
    BY <1>2, <2>1, TypeInsert DEF CommitSetup, TypeOK, Go
<1>3. ASSUME NEW w \in Workers, NEW a \in Ids, Authenticate(w, a)
      PROVE  TypeOK'
  <2>1. users[a] \in Rows
    BY <1>3, RowFields DEF Authenticate, IsAdmin
  <2> QED
    BY <1>3, <2>1, TypeGo DEF Authenticate, history, Requests, TypeOK
<1>4. ASSUME NEW w \in Workers, NEW name \in Names, NEW role \in Roles,
             NEW email \in Mails, CreateUser(w, name, role, email)
      PROVE  TypeOK'
  <2>1. NewRow(name, role, email, NoSubject) \in Rows
    BY DirectoryAssumption DEF NewRow, Rows, UserNames
  <2> QED
    BY <1>4, <2>1, TypeInsert DEF CreateUser, TypeOK, Go
<1>5. ASSUME NEW w \in Workers, NEW a \in Ids, NEW update \in Updates, LoadForUpdate(w, a, update)
      PROVE  TypeOK'
  <2>1. /\ req[w].requester \in Ids
        /\ \A loaded : Written(loaded, update) \in PartsOf(Updates)
    BY <1>0, <1>5, RequestFields, WrittenIsPart DEF LoadForUpdate
  <2> QED
    BY <1>5, <2>1, TypeGo DEF LoadForUpdate, history, Requests, TypeOK
<1>6. ASSUME NEW w \in Workers, CommitUpdate(w)
      PROVE  TypeOK'
  <2>1. req[w].user \in Ids /\ req[w].writes \in PartsOf(Updates)
    BY <1>0, <1>6, RequestFields DEF CommitUpdate
  <2>2. Flush(users[req[w].user], req[w].writes, DOMAIN req[w].writes) \in Rows
    BY <1>6, <2>1, RowFields, UpdatedRow DEF CommitUpdate
  <2>3. Overtaken(req[w]) \in BOOLEAN
    BY DEF Overtaken
  <2> QED
    BY <1>6, <2>1, <2>2, <2>3 DEF CommitUpdate, TypeOK, Go
<1>7. ASSUME NEW w \in Workers, NEW a \in Ids, LoadForDelete(w, a)
      PROVE  TypeOK'
  <2>1. req[w].requester \in Ids
    BY <1>0, <1>7, RequestFields DEF LoadForDelete
  <2> QED
    BY <1>7, <2>1, TypeGo DEF LoadForDelete, history, Requests, TypeOK
<1>8. ASSUME NEW w \in Workers, CommitDelete(w)
      PROVE  TypeOK'
  <2>1. Overtaken(req[w]) \in BOOLEAN
    BY DEF Overtaken
  <2> QED
    BY <1>8, <2>1 DEF CommitDelete, TypeOK, Go
<1>9. ASSUME NEW w \in Workers, NEW s \in Subjects, LookUpSubject(w, s)
      PROVE  TypeOK'
  <2>1. raced' \subseteq Subjects
    BY <1>9 DEF LookUpSubject, Seen, TypeOK
  <2>2. ASSUME NEW a \in Ids
        PROVE  Found(s, a) \in Requests
    BY WrittenIsPart DEF Found, Requests
  <2>3. CASE OfSubject(s) = {}
    BY <1>9, <2>1, <2>3, TypeGo DEF LookUpSubject, Rest, Requests
  <2>4. CASE OfSubject(s) # {}
    <3>1. PICK a \in Ids : Go(w, Found(s, a))
      BY <1>9, <2>4 DEF LookUpSubject, OfSubject
    <3> QED
      BY <1>9, <2>1, <2>2, <3>1, TypeGo DEF LookUpSubject, Rest
  <2> QED
    BY <2>3, <2>4
<1>10. ASSUME NEW w \in Workers, LookUpAddress(w)
       PROVE  TypeOK'
  <2> DEFINE s == req[w].subject
  <2>1. s \in Subjects
    BY <1>0, <1>10, RequestFields DEF LookUpAddress
  <2>2. ASSUME NEW a \in Ids
        PROVE  Found(s, a) \in Requests
    BY <2>1, WrittenIsPart DEF Found, Requests
  <2>3. CASE AddressOf[s] = NoAddress \/ OfAddress(AddressOf[s]) = {}
    BY <1>10, <2>1, <2>3, TypeGo DEF LookUpAddress, Rest, Requests, TypeOK
  <2>4. CASE ~(AddressOf[s] = NoAddress \/ OfAddress(AddressOf[s]) = {})
    <3>1. PICK a \in Ids : Go(w, Found(s, a))
      BY <1>10, <2>4 DEF LookUpAddress, OfAddress
    <3> QED
      BY <1>10, <2>2, <3>1, TypeGo DEF LookUpAddress, Rest, TypeOK
  <2> QED
    BY <2>3, <2>4
<1>11. ASSUME NEW w \in Workers, ChooseName(w)
       PROVE  TypeOK'
  <2>1. req[w].subject \in Subjects
    BY <1>0, <1>11, RequestFields DEF ChooseName
  <2>2. PICK i \in FreeNames(req[w].subject) :
          Go(w, [phase |-> "insert", subject |-> req[w].subject, name |-> NamesOf[req[w].subject][i]])
    BY <1>11 DEF ChooseName
  <2>3. NamesOf[req[w].subject][i] \in UserNames
    BY <2>1, <2>2 DEF FreeNames, UserNames
  <2> QED
    BY <1>11, <2>1, <2>2, <2>3, TypeGo DEF ChooseName, Rest, Requests, TypeOK
<1>12. ASSUME NEW w \in Workers, CommitSignIn(w)
       PROVE  TypeOK'
  <2> DEFINE q == req[w]
             new == Flush(users[q.user], q.writes, DOMAIN q.writes)
  <2>1. /\ q.user \in Ids /\ q.subject \in Subjects
        /\ q.writes \in PartsOf([oidc_sub : Subjects])
    BY <1>0, <1>12, RequestFields DEF CommitSignIn
  <2>2. users[q.user] \in Rows /\ new \in Rows
    BY <1>12, <2>1, RowFields, LinkedRow DEF CommitSignIn
  <2>3. users' = [users EXCEPT ![q.user] = new] /\ users'[q.user] = new
    BY <1>12, <2>1 DEF CommitSignIn, TypeOK
  <2>4. new.oidc_sub \in Subjects \cup {NoSubject} /\ new.email \in Addresses \cup {NoAddress}
    BY <2>2 DEF Rows
  <2>5. [phase |-> "entered", subject |-> q.subject, oidc_sub |-> new.oidc_sub,
         email |-> new.email] \in Requests
    BY <2>1, <2>4 DEF Requests
  <2>6. displaced' \subseteq Subjects
    BY <1>12, <2>2 DEF CommitSignIn, TypeOK, Rows
  <2> QED
    BY <1>12, <2>2, <2>3, <2>5, <2>6 DEF CommitSignIn, Enter, Go, TypeOK
<1>13. ASSUME NEW w \in Workers, CommitProvision(w)
       PROVE  TypeOK'
  <2> DEFINE q == req[w]
             new == NewRow(q.name, DefaultRole, AddressOf[q.subject], q.subject)
  <2>1. q.subject \in Subjects /\ q.name \in UserNames
    BY <1>0, <1>13, RequestFields DEF CommitProvision
  <2>2. new \in Rows /\ new.oidc_sub \in Subjects /\ new.email \in Addresses \cup {NoAddress}
    BY <2>1, DirectoryAssumption DEF NewRow, Rows
  <2>3. [phase |-> "entered", subject |-> q.subject, oidc_sub |-> new.oidc_sub,
         email |-> new.email] \in Requests
    BY <2>1, <2>2 DEF Requests
  <2> QED
    BY <1>13, <2>2, <2>3, TypeInsert DEF CommitProvision, Enter, Go, TypeOK
<1>14. ASSUME NEW w \in Workers, RecoverFromConflict(w)
       PROVE  TypeOK'
  <2>1. req[w].subject \in Subjects
    BY <1>0, <1>14, RequestFields DEF RecoverFromConflict
  <2>2. PICK a \in Winners(req[w].subject, req[w].name) : Enter(w, users[a])
    BY <1>14 DEF RecoverFromConflict
  <2>3. users[a] \in Rows
    BY <2>2, RowFields DEF Winners, OfSubject, OfAddress
  <2>4. users[a].oidc_sub \in Subjects \cup {NoSubject} /\ users[a].email \in Addresses \cup {NoAddress}
    BY <2>3 DEF Rows
  <2>5. [phase |-> "entered", subject |-> req[w].subject, oidc_sub |-> users[a].oidc_sub,
         email |-> users[a].email] \in Requests
    BY <2>1, <2>4 DEF Requests
  <2> QED
    BY <1>14, <2>2, <2>5, TypeGo DEF RecoverFromConflict, Enter, history, TypeOK
<1>15. ASSUME NEW w \in Workers, Finish(w) \/ Abandon(w)
       PROVE  TypeOK'
  BY <1>15, TypeGo DEF Finish, Abandon, history, TypeOK
<1>16. ASSUME UNCHANGED vars
       PROVE  TypeOK'
  BY <1>16 DEF vars, TypeOK
<1> QED
  BY <1>1, <1>2, <1>3, <1>4, <1>5, <1>6, <1>7, <1>8, <1>9, <1>10, <1>11, <1>12, <1>13, <1>14,
     <1>15, <1>16 DEF Next

LEMMA TypeInit == Init => TypeOK
<1> SUFFICES ASSUME Init
             PROVE  TypeOK
  OBVIOUS
<1>1. users \in [Ids -> Rows \cup {NoRow}] /\ req \in [Workers -> Requests \cup {Idle}]
  BY DEF Init
<1>2. {rushed, abdicated, overtaken} \subseteq BOOLEAN
  BY DEF Init
<1>3. created \in 0..MaxAccounts
  BY DirectoryAssumption DEF Init
<1>4. founders \subseteq Ids /\ raced \subseteq Subjects /\ displaced \subseteq Subjects
  BY DEF Init
<1> QED
  BY <1>1, <1>2, <1>3, <1>4 DEF TypeOK

\* Every row, request and history variable of UserDirectory keeps its type,
\* whatever columns racing requests write.
THEOREM TypeCorrect == Spec => []TypeOK
  BY TypeInit, TypeNext, PTL DEF Spec

-----------------------------------------------------------------------------
(***************************************************************************)
(* Administrators and the first-run setup                                  *)
(***************************************************************************)

UsedIds ==
  /\ \A a \in Ids : Exists(a) => a <= created
  /\ founders \subseteq 1..created

\* No request is about to remove or deactivate its own requester.
NoSelfRemoval(q) ==
  /\ q.phase = "deleting" => q.user # q.requester
  /\ q.phase = "updating" /\ q.user = q.requester /\ "is_active" \in DOMAIN q.writes
       => q.writes["is_active"] = TRUE

\* The table does not become empty again, and so a setup that is under way and
\* that nobody has overtaken still finds it as it was before the first account.
NeverEmptied == created > 0 => overtaken \/ ~Empty
SetupOnEmpty(q) == q.phase = "setup" => rushed \/ overtaken \/ created = 0

RequestsInv == \A w \in Workers : NoSelfRemoval(req[w]) /\ SetupOnEmpty(req[w])

AdminInv ==
  /\ UsedIds
  /\ NeverEmptied
  /\ RequestsInv
  /\ AdministratorRemains
  /\ SetupIsForTheFirst

LEMMA OneColumn ==
  ASSUME NEW x \in PartsOf(Updates), "role" \in DOMAIN x, x["role"] = "other"
  PROVE  x = [role |-> "other"]
<1>1. PICK u \in Updates : \E D \in SUBSET DOMAIN u : x = [c \in D |-> u[c]]
  BY DEF PartsOf
<1>2. u \in [role : Roles]
  BY <1>1 DEF Updates
<1>3. x = [c \in {"role"} |-> u[c]]
  BY <1>1, <1>2
<1> QED
  BY <1>3

LEMMA NotDeactivated ==
  ASSUME NEW update \in Updates, NEW loaded, update # [is_active |-> FALSE],
         "is_active" \in DOMAIN Written(loaded, update)
  PROVE  Written(loaded, update)["is_active"] = TRUE
<1>1. "is_active" \in DOMAIN update /\ Written(loaded, update)["is_active"] = update["is_active"]
  BY DEF Written
<1>2. update \in [is_active : BOOLEAN]
  BY <1>1 DEF Updates
<1>3. update = [is_active |-> update["is_active"]] /\ update["is_active"] \in BOOLEAN
  BY <1>2
<1> QED
  BY <1>1, <1>3

\* A step that leaves the table of users alone.
LEMMA QuietStep ==
  ASSUME TypeOK, AdminInv, NEW w \in Workers, NEW q, Go(w, q), NoSelfRemoval(q), SetupOnEmpty(q),
         UNCHANGED <<users, created, founders, rushed, abdicated, overtaken>>
  PROVE  AdminInv'
<1>1. RequestsInv'
  BY DEF RequestsInv, NoSelfRemoval, SetupOnEmpty, AdminInv, TypeOK, Go
<1>2. UsedIds' /\ NeverEmptied'
  BY DEF AdminInv, UsedIds, NeverEmptied, Empty, Exists
<1>3. AdministratorRemains' /\ SetupIsForTheFirst'
  BY DEF AdminInv, AdministratorRemains, SetupIsForTheFirst, IsAdmin, Exists
<1> QED
  BY <1>1, <1>2, <1>3 DEF AdminInv

\* An insertion takes no administrator away, and overtakes every other setup.
LEMMA InsertStep ==
  ASSUME TypeOK, AdminInv, NEW w \in Workers, NEW q, Go(w, q), NoSelfRemoval(q),
         q.phase # "setup",
         NEW new \in Rows, Insert(new), UNCHANGED <<abdicated, overtaken>>,
         \/ founders' = founders
         \/ /\ founders' = founders \cup {created + 1}
            /\ new.role = "admin" /\ new.is_active
            /\ req[w].phase = "setup"
  PROVE  AdminInv'
<1>1. /\ created + 1 \in Ids /\ created' = created + 1 /\ created \in Nat
      /\ users' = [users EXCEPT ![created + 1] = new] /\ users'[created + 1] = new
      /\ rushed' = (rushed \/ \E v \in Workers : req[v].phase = "setup" /\ req'[v].phase = "setup")
  <2>1. created \in Nat /\ created + 1 \in Ids
    BY TypeInsert DEF TypeOK
  <2>2. users' = [users EXCEPT ![created + 1] = new] /\ users'[created + 1] = new
    BY <2>1 DEF Insert, TypeOK
  <2> QED
    BY <2>1, <2>2 DEF Insert
<1>2. \A a \in Ids : Exists(a) => Exists(a)' /\ users'[a] = users[a]
  BY <1>1 DEF AdminInv, UsedIds, Exists, Ids, TypeOK
<1> DEFINE n == created'
<1>3. n \in Ids /\ users'[n] = new /\ users'[n] # NoRow
  BY <1>1, NoRowIsNoRow
<1>4. UsedIds' /\ NeverEmptied'
  <2>1. \A a \in Ids : Exists(a)' => a <= created'
    BY <1>1, <1>3 DEF AdminInv, UsedIds, Exists, TypeOK, Ids
  <2>2. founders' \subseteq 1..created'
    <3>1. founders \subseteq 1..created /\ 1..created \subseteq 1..(created + 1)
      BY <1>1 DEF AdminInv, UsedIds
    <3>2. created + 1 \in 1..(created + 1)
      BY <1>1
    <3> QED
      BY <1>1, <3>1, <3>2
  <2> QED
    BY <1>1, <1>3, <2>1, <2>2 DEF UsedIds, NeverEmptied, Empty, Exists
<1>5. RequestsInv'
  <2> SUFFICES ASSUME NEW v \in Workers
               PROVE  NoSelfRemoval(req[v])' /\ SetupOnEmpty(req[v])'
    BY DEF RequestsInv
  <2>1. CASE v = w
    BY <2>1 DEF Go, NoSelfRemoval, SetupOnEmpty, TypeOK
  <2>2. CASE v # w
    <3>1. req'[v] = req[v]
      BY <2>2 DEF Go, TypeOK
    <3> QED
      BY <1>1, <3>1 DEF AdminInv, RequestsInv, NoSelfRemoval, SetupOnEmpty
  <2> QED
    BY <2>1, <2>2
<1>6. AdministratorRemains'
  <2>1. CASE founders' = founders
    BY <1>2, <2>1 DEF AdminInv, AdministratorRemains, IsAdmin
  <2>2. CASE new.role = "admin" /\ new.is_active
    BY <1>3, <2>2 DEF AdministratorRemains, IsAdmin, Exists
  <2> QED
    BY <2>1, <2>2
<1>7. SetupIsForTheFirst'
  <2>1. CASE founders' = founders
    BY <1>1, <2>1 DEF AdminInv, SetupIsForTheFirst
  <2>2. CASE founders' = founders \cup {created + 1} /\ req[w].phase = "setup"
    <3>1. rushed \/ overtaken \/ created = 0
      BY <2>2 DEF AdminInv, RequestsInv, SetupOnEmpty
    <3>2. created = 0 => founders = {}
      BY DEF AdminInv, UsedIds
    <3> QED
      BY <1>1, <2>2, <3>1, <3>2 DEF SetupIsForTheFirst
  <2> QED
    BY <2>1, <2>2
<1> QED
  BY <1>4, <1>5, <1>6, <1>7 DEF AdminInv

\* A step that keeps every row a row, with the role and the activity of all but
\* perhaps one, and that ends a request.
LEMMA UpdateStep ==
  ASSUME TypeOK, AdminInv, NEW w \in Workers, NEW a \in Ids, NEW new \in Rows, Exists(a),
         NEW q, Go(w, q), NoSelfRemoval(q), q.phase # "setup",
         users' = [users EXCEPT ![a] = new],
         created' = created, founders' = founders, rushed' = rushed,
         overtaken => overtaken',
         AdministratorRemains'
  PROVE  AdminInv'
<1>1. \A b \in Ids : Exists(b)' <=> Exists(b)
  BY NoRowIsNoRow DEF Exists, TypeOK
<1>2. UsedIds' /\ NeverEmptied'
  BY <1>1 DEF AdminInv, UsedIds, NeverEmptied, Empty
<1>3. RequestsInv'
  BY DEF AdminInv, RequestsInv, NoSelfRemoval, SetupOnEmpty, TypeOK, Go
<1>4. SetupIsForTheFirst'
  BY DEF AdminInv, SetupIsForTheFirst
<1> QED
  BY <1>2, <1>3, <1>4 DEF AdminInv

LEMMA CommitUpdateInv ==
  ASSUME TypeOK, AdminInv, NEW w \in Workers, CommitUpdate(w)
  PROVE  AdminInv'
<1> DEFINE q == req[w]
           a == q.user
           new == Flush(users[a], q.writes, DOMAIN q.writes)
<1>1. /\ a \in Ids /\ q.requester \in Ids /\ q.writes \in PartsOf(Updates)
      /\ users[a] \in Rows /\ new \in Rows
  BY RequestFields, RowFields, UpdatedRow DEF CommitUpdate, TypeOK
<1>2. /\ users' = [users EXCEPT ![a] = new] /\ users'[a] = new
      /\ \A b \in Ids \ {a} : users'[b] = users[b]
  BY <1>1 DEF CommitUpdate, TypeOK
<1>3. AdministratorRemains'
  <2> SUFFICES ASSUME founders # {}, ~abdicated', ~overtaken'
               PROVE  \E b \in Ids : IsAdmin(b)'
    BY DEF AdministratorRemains, CommitUpdate
  <2>1. CASE a # q.requester
    <3>1. IsAdmin(q.requester)
      BY <2>1 DEF CommitUpdate, Overtaken
    <3> QED
      BY <1>1, <1>2, <2>1, <3>1 DEF IsAdmin, Exists
  <2>2. CASE a = q.requester
    <3>1. ~abdicated /\ ~overtaken /\ q.writes # [role |-> "other"]
      BY <2>2 DEF CommitUpdate, Overtaken
    <3>2. PICK b \in Ids : IsAdmin(b)
      BY <3>1 DEF AdminInv, AdministratorRemains
    <3>3. CASE b # a
      BY <1>2, <3>2, <3>3 DEF IsAdmin, Exists
    <3>4. CASE b = a
      <4>1. new.role = "admin"
        BY <1>1, <3>1, <3>2, <3>4, UpdatedRow, UpdateColumns, OneColumn DEF IsAdmin, Roles
      <4>2. new.is_active
        BY <1>1, <2>2, <3>2, <3>4, UpdatedRow
        DEF IsAdmin, AdminInv, RequestsInv, NoSelfRemoval, CommitUpdate
      <4> QED
        BY <1>1, <1>2, <4>1, <4>2, NoRowIsNoRow DEF IsAdmin, Exists
    <3> QED
      BY <3>3, <3>4
  <2> QED
    BY <2>1, <2>2
<1>4. overtaken => overtaken'
  BY DEF CommitUpdate, Overtaken
<1>5. Go(w, Idle) /\ NoSelfRemoval(Idle) /\ Idle.phase # "setup"
  BY DEF CommitUpdate, NoSelfRemoval, Idle
<1>6. Exists(a) /\ created' = created /\ founders' = founders /\ rushed' = rushed
  BY DEF CommitUpdate
<1> HIDE DEF a, new
<1> QED
  BY <1>1, <1>2, <1>3, <1>4, <1>5, <1>6, UpdateStep

LEMMA CommitDeleteInv ==
  ASSUME TypeOK, AdminInv, NEW w \in Workers, CommitDelete(w)
  PROVE  AdminInv'
<1> DEFINE q == req[w]
           a == q.user
<1>1. a \in Ids /\ q.requester \in Ids /\ a # q.requester
  BY RequestFields DEF CommitDelete, TypeOK, AdminInv, RequestsInv, NoSelfRemoval
<1> PICK r \in Ids : r = q.requester
  BY <1>1
<1>2. users'[a] = NoRow /\ \A b \in Ids \ {a} : users'[b] = users[b]
  BY <1>1 DEF CommitDelete, TypeOK
<1>3. ~overtaken' => ~overtaken /\ IsAdmin(r)
  BY <1>1 DEF CommitDelete, Overtaken
<1>4. ~overtaken' => IsAdmin(r)'
  BY <1>1, <1>2, <1>3 DEF IsAdmin, Exists
<1>5. UsedIds' /\ NeverEmptied'
  <2>1. \A b \in Ids : Exists(b)' => Exists(b)
    BY <1>2 DEF Exists
  <2>2. created' = created /\ founders' = founders
    BY DEF CommitDelete
  <2> QED
    BY <1>1, <1>4, <2>1, <2>2 DEF AdminInv, UsedIds, NeverEmptied, Empty, IsAdmin
<1>6. RequestsInv'
  <2> SUFFICES ASSUME NEW v \in Workers
               PROVE  NoSelfRemoval(req[v])' /\ SetupOnEmpty(req[v])'
    BY DEF RequestsInv
  <2>1. CASE v = w
    BY <2>1 DEF CommitDelete, Go, NoSelfRemoval, SetupOnEmpty, TypeOK, Idle
  <2>2. CASE v # w
    <3>1. req'[v] = req[v]
      BY <2>2 DEF CommitDelete, Go, TypeOK
    <3> QED
      BY <1>3, <3>1 DEF CommitDelete, AdminInv, RequestsInv, NoSelfRemoval, SetupOnEmpty
  <2> QED
    BY <2>1, <2>2
<1>7. AdministratorRemains'
  BY <1>1, <1>4 DEF AdministratorRemains
<1>8. SetupIsForTheFirst'
  BY <1>3 DEF CommitDelete, AdminInv, SetupIsForTheFirst
<1> QED
  BY <1>5, <1>6, <1>7, <1>8 DEF AdminInv

LEMMA CommitSignInAdminInv ==
  ASSUME TypeOK, AdminInv, NEW w \in Workers, CommitSignIn(w)
  PROVE  AdminInv'
<1> DEFINE q == req[w]
           a == q.user
           new == Flush(users[a], q.writes, DOMAIN q.writes)
<1>1. /\ a \in Ids /\ q.writes \in PartsOf([oidc_sub : Subjects])
      /\ users[a] \in Rows /\ new \in Rows
      /\ new.role = users[a].role /\ new.is_active = users[a].is_active
  BY RequestFields, RowFields, LinkedRow DEF CommitSignIn, TypeOK
<1>2. /\ users' = [users EXCEPT ![a] = new] /\ users'[a] = new
      /\ \A b \in Ids \ {a} : users'[b] = users[b]
  BY <1>1 DEF CommitSignIn, TypeOK
<1>3. \A b \in Ids : IsAdmin(b) => IsAdmin(b)'
  BY <1>1, <1>2, NoRowIsNoRow DEF IsAdmin, Exists
<1>4. AdministratorRemains'
  BY <1>3 DEF CommitSignIn, AdminInv, AdministratorRemains
<1> QED
  BY <1>1, <1>2, <1>4, UpdateStep DEF CommitSignIn, Enter, NoSelfRemoval

LEMMA AdminInit == Init => AdminInv
  BY DEF Init, AdminInv, UsedIds, NeverEmptied, RequestsInv, NoSelfRemoval, SetupOnEmpty,
         AdministratorRemains, SetupIsForTheFirst, Exists, Idle

LEMMA AdminNext == TypeOK /\ AdminInv /\ [Next]_vars => AdminInv'
<1> SUFFICES ASSUME TypeOK, AdminInv, [Next]_vars
             PROVE  AdminInv'
  OBVIOUS
<1>1. ASSUME NEW w \in Workers, CountUsers(w)
      PROVE  AdminInv'
  <2>1. Empty => overtaken \/ created = 0
    BY DEF AdminInv, NeverEmptied, TypeOK
  <2> QED
    BY <1>1, <2>1, QuietStep DEF CountUsers, history, NoSelfRemoval, SetupOnEmpty
<1>2. ASSUME NEW w \in Workers, NEW name \in Names, CommitSetup(w, name)
      PROVE  AdminInv'
  <2> DEFINE new == NewRow(name, "admin", NoAddress, NoSubject)
  <2>1. new \in Rows /\ new.role = "admin" /\ new.is_active
    BY DEF NewRow, Rows, Roles, UserNames
  <2> QED
    BY <1>2, <2>1, InsertStep DEF CommitSetup, NoSelfRemoval, Idle
<1>3. ASSUME NEW w \in Workers, NEW a \in Ids, Authenticate(w, a)
      PROVE  AdminInv'
  BY <1>3, QuietStep DEF Authenticate, history, NoSelfRemoval, SetupOnEmpty
<1>4. ASSUME NEW w \in Workers, NEW name \in Names, NEW role \in Roles,
             NEW email \in Mails, CreateUser(w, name, role, email)
      PROVE  AdminInv'
  <2>1. NewRow(name, role, email, NoSubject) \in Rows
    BY DirectoryAssumption DEF NewRow, Rows, UserNames
  <2> QED
    BY <1>4, <2>1, InsertStep DEF CreateUser, NoSelfRemoval, Idle
<1>5. ASSUME NEW w \in Workers, NEW a \in Ids, NEW update \in Updates, LoadForUpdate(w, a, update)
      PROVE  AdminInv'
  <2>1. PICK loaded : Go(w, [phase |-> "updating", requester |-> req[w].requester, user |-> a,
                             writes |-> Written(loaded, update)])
    BY <1>5 DEF LoadForUpdate
  <2>2. a = req[w].requester /\ "is_active" \in DOMAIN Written(loaded, update)
          => Written(loaded, update)["is_active"] = TRUE
    BY <1>5, NotDeactivated DEF LoadForUpdate, MayUpdate
  <2> QED
    BY <1>5, <2>1, <2>2, QuietStep DEF LoadForUpdate, history, NoSelfRemoval, SetupOnEmpty
<1>6. ASSUME NEW w \in Workers, CommitUpdate(w) \/ CommitDelete(w) \/ CommitSignIn(w)
      PROVE  AdminInv'
  BY <1>6, CommitUpdateInv, CommitDeleteInv, CommitSignInAdminInv
<1>7. ASSUME NEW w \in Workers, NEW a \in Ids, LoadForDelete(w, a)
      PROVE  AdminInv'
  BY <1>7, QuietStep DEF LoadForDelete, MayDelete, history, NoSelfRemoval, SetupOnEmpty
<1>8. ASSUME NEW w \in Workers, NEW s \in Subjects, LookUpSubject(w, s)
      PROVE  AdminInv'
  <2>1. PICK q : Go(w, q) /\ q.phase \in {"address", "found"}
    <3>1. \A a : Found(s, a).phase = "found"
      BY DEF Found
    <3> QED
      BY <1>8, <3>1 DEF LookUpSubject
  <2> QED
    BY <1>8, <2>1, QuietStep DEF LookUpSubject, Rest, NoSelfRemoval, SetupOnEmpty
<1>9. ASSUME NEW w \in Workers, LookUpAddress(w)
      PROVE  AdminInv'
  <2>1. PICK q : Go(w, q) /\ q.phase \in {"name", "found"}
    <3>1. \A a : Found(req[w].subject, a).phase = "found"
      BY DEF Found
    <3> QED
      BY <1>9, <3>1 DEF LookUpAddress
  <2> QED
    BY <1>9, <2>1, QuietStep DEF LookUpAddress, Rest, NoSelfRemoval, SetupOnEmpty
<1>10. ASSUME NEW w \in Workers, ChooseName(w)
       PROVE  AdminInv'
  <2>1. PICK q : Go(w, q) /\ q.phase = "insert"
    BY <1>10 DEF ChooseName
  <2> QED
    BY <1>10, <2>1, QuietStep DEF ChooseName, Rest, NoSelfRemoval, SetupOnEmpty
<1>11. ASSUME NEW w \in Workers, CommitProvision(w)
       PROVE  AdminInv'
  <2> DEFINE new == NewRow(req[w].name, DefaultRole, AddressOf[req[w].subject], req[w].subject)
  <2>1. req[w].subject \in Subjects /\ req[w].name \in UserNames
    BY <1>11, RequestFields DEF CommitProvision, TypeOK
  <2>2. new \in Rows
    BY <2>1, DirectoryAssumption DEF NewRow, Rows
  <2>3. PICK q : Go(w, q) /\ q.phase = "entered"
    BY <1>11 DEF CommitProvision, Enter
  <2> QED
    BY <1>11, <2>2, <2>3, InsertStep DEF CommitProvision, NoSelfRemoval
<1>12. ASSUME NEW w \in Workers, RecoverFromConflict(w)
       PROVE  AdminInv'
  <2>1. PICK q : Go(w, q) /\ q.phase = "entered"
    BY <1>12 DEF RecoverFromConflict, Enter
  <2> QED
    BY <1>12, <2>1, QuietStep DEF RecoverFromConflict, history, NoSelfRemoval, SetupOnEmpty
<1>13. ASSUME NEW w \in Workers, Finish(w) \/ Abandon(w)
       PROVE  AdminInv'
  BY <1>13, QuietStep DEF Finish, Abandon, history, NoSelfRemoval, SetupOnEmpty, Idle
<1>14. ASSUME UNCHANGED vars
       PROVE  AdminInv'
  BY <1>14 DEF vars, AdminInv, UsedIds, NeverEmptied, RequestsInv, NoSelfRemoval, SetupOnEmpty,
               AdministratorRemains, SetupIsForTheFirst, IsAdmin, Exists, Empty
<1> QED
  BY <1>1, <1>2, <1>3, <1>4, <1>5, <1>6, <1>7, <1>8, <1>9, <1>10, <1>11, <1>12, <1>13, <1>14
  DEF Next

\* The inductive invariant: ids are used once, nobody is about to remove himself,
\* the table is not emptied again, and a setup under way is a first one.
THEOREM DirectoryInvariant == Spec => []AdminInv
<1>1. Init => AdminInv
  BY AdminInit
<1>2. TypeOK /\ AdminInv /\ [Next]_vars => AdminInv'
  BY AdminNext
<1> QED
  BY <1>1, <1>2, TypeCorrect, PTL DEF Spec

\* delete_user and update_user leave an administrator, unless one takes his own
\* role away or acts on a right that has been taken from him (AdministratorRemains).
THEOREM AnAdministratorRemains == Spec => []AdministratorRemains
<1>1. AdminInv => AdministratorRemains
  BY DEF AdminInv
<1> QED
  BY <1>1, DirectoryInvariant, PTL

\* setup makes a second account only if another account was made while it was
\* under way, or two administrators have removed each other (SetupIsForTheFirst).
THEOREM SetupIsOnce == Spec => []SetupIsForTheFirst
<1>1. AdminInv => SetupIsForTheFirst
  BY DEF AdminInv
<1> QED
  BY <1>1, DirectoryInvariant, PTL

-----------------------------------------------------------------------------
(***************************************************************************)
(* Subjects and their accounts                                             *)
(***************************************************************************)

InPhase(q) == q.phase \in {"address", "name", "insert", "found"}

\* A callback that is going to link or insert a row has its subject to itself.
Pending(q) ==
  \/ q.phase \in {"address", "name", "insert"}
  \/ q.phase = "found" /\ "oidc_sub" \in DOMAIN q.writes

Waiting(q) == Pending(q) /\ q.subject \notin raced => OfSubject(q.subject) = {}

\* A row that was found is the subject's, will be, or has been given away.
Linked(q) ==
  q.phase = "found" =>
    /\ q.user <= created
    /\ "oidc_sub" \in DOMAIN q.writes => q.writes["oidc_sub"] = q.subject
    /\ \/ "oidc_sub" \in DOMAIN q.writes
       \/ q.subject \in displaced
       \/ ~Exists(q.user)
       \/ users[q.user].oidc_sub = q.subject

Entered(q) ==
  q.phase = "entered" =>
    \/ q.oidc_sub = q.subject
    \/ q.email = AddressOf[q.subject]
    \/ AddressOf[q.subject] = NoAddress
    \/ q.subject \in displaced

CallbacksAlone ==
  \A v, w \in Workers :
    v # w /\ InPhase(req[v]) /\ InPhase(req[w]) /\ req[v].subject = req[w].subject
      => req[w].subject \in raced

SubjectInv ==
  /\ CallbacksAlone
  /\ \A w \in Workers : Waiting(req[w]) /\ Linked(req[w]) /\ Entered(req[w])
  /\ OneAccountPerSubject

\* What a step of one worker may do to the subjects in the table without harm to
\* the requests of the others.
LEMMA OthersStep ==
  ASSUME TypeOK, SubjectInv, NEW w \in Workers, NEW q, Go(w, q),
         raced \subseteq raced', displaced \subseteq displaced', created <= created',
         created' \in Nat,
         \A t \in Subjects :
           \/ OfSubject(t)' \subseteq OfSubject(t)
           \/ InPhase(req[w]) /\ req[w].subject = t,
         \A b \in Ids :
           b <= created /\ Exists(b)' =>
             /\ Exists(b)
             /\ \/ users'[b].oidc_sub = users[b].oidc_sub
                \/ users[b].oidc_sub \in displaced' \cup {NoSubject},
         NEW v \in Workers, v # w
  PROVE  req'[v] = req[v] /\ (Waiting(req[v]) /\ Linked(req[v]) /\ Entered(req[v]))'
<1> DEFINE p == req[v]
<1>1. req'[v] = req[v]
  BY DEF Go, TypeOK
<1>2. Waiting(req[v])'
  <2> SUFFICES ASSUME Pending(p), p.subject \notin raced'
               PROVE  OfSubject(p.subject)' \subseteq OfSubject(p.subject)
    BY <1>1 DEF SubjectInv, Waiting, Pending, OfSubject
  <2>1. p.subject \in Subjects /\ InPhase(p)
    BY RequestFields DEF TypeOK, Pending, InPhase
  <2>2. ~(InPhase(req[w]) /\ req[w].subject = p.subject)
    BY <2>1 DEF SubjectInv, CallbacksAlone
  <2> QED
    BY <1>1, <2>1, <2>2 DEF OfSubject, Exists
<1>3. Linked(req[v])'
  <2> SUFFICES ASSUME p.phase = "found"
               PROVE  Linked(req[v])'
    BY <1>1 DEF Linked
  <2>1. p.user \in Ids /\ p.subject \in Subjects /\ p.subject # NoSubject /\ Linked(p)
    BY RequestFields, DirectoryAssumption DEF TypeOK, SubjectInv
  <2>2. p.user <= created /\ p.user <= created'
    BY <2>1 DEF Linked, Ids, TypeOK
  <2> QED
    BY <1>1, <2>1, <2>2 DEF Linked, Exists
<1>4. Entered(req[v])'
  BY <1>1 DEF SubjectInv, Entered
<1> QED
  BY <1>1, <1>2, <1>3, <1>4

\* A step whose worker goes on with the subject that it has, or with none.
LEMMA StillAlone ==
  ASSUME TypeOK, SubjectInv, NEW w \in Workers, NEW q, Go(w, q), raced \subseteq raced',
         InPhase(q) => \/ InPhase(req[w]) /\ req[w].subject = q.subject
                       \/ InCallback(q.subject) => q.subject \in raced'
  PROVE  CallbacksAlone'
<1>1. req'[w] = q /\ \A v \in Workers \ {w} : req'[v] = req[v]
  BY DEF Go, TypeOK
<1>2. ASSUME NEW v \in Workers \ {w}, InPhase(q), InPhase(req[v]), req[v].subject = q.subject
      PROVE  q.subject \in raced'
  BY <1>2 DEF SubjectInv, CallbacksAlone, InCallback, InPhase
<1> QED
  BY <1>1, <1>2 DEF SubjectInv, CallbacksAlone, InPhase

\* A step that leaves the table of users alone.
LEMMA QuietSubjects ==
  ASSUME TypeOK, SubjectInv, NEW w \in Workers, NEW q, Go(w, q),
         users' = users, created' = created, displaced' = displaced, raced \subseteq raced',
         InPhase(q) => \/ InPhase(req[w]) /\ req[w].subject = q.subject
                       \/ InCallback(q.subject) => q.subject \in raced',
         Pending(q) => OfSubject(q.subject) = {} \/ q.subject \in raced,
         Linked(q), Entered(q)
  PROVE  SubjectInv'
<1>1. CallbacksAlone'
  BY StillAlone
<1>2. /\ \A t \in Subjects : OfSubject(t)' \subseteq OfSubject(t)
      /\ \A b \in Ids : Exists(b)' => Exists(b)
      /\ created \in Nat
  BY DEF OfSubject, Exists, TypeOK
<1>3. ASSUME NEW v \in Workers, v # w
      PROVE  (Waiting(req[v]) /\ Linked(req[v]) /\ Entered(req[v]))'
  BY <1>2, <1>3, OthersStep
<1>4. (Waiting(req[w]) /\ Linked(req[w]) /\ Entered(req[w]))'
  <2>1. req'[w] = q
    BY DEF Go, TypeOK
  <2> QED
    BY <2>1 DEF Waiting, Pending, Linked, Entered, OfSubject, Exists
<1>5. OneAccountPerSubject'
  BY DEF SubjectInv, OneAccountPerSubject, Exists
<1> QED
  BY <1>1, <1>3, <1>4, <1>5 DEF SubjectInv

\* An insertion, with no subject or by a callback for its own.
LEMMA InsertSubjects ==
  ASSUME TypeOK, UsedIds, SubjectInv, NEW w \in Workers, NEW q, Go(w, q),
         NEW new \in Rows, Insert(new), UNCHANGED <<raced, displaced>>,
         ~InPhase(q), Entered(q),
         \/ new.oidc_sub = NoSubject
         \/ req[w].phase = "insert" /\ new.oidc_sub = req[w].subject
  PROVE  SubjectInv'
<1> DEFINE n == created + 1
<1>1. /\ n \in Ids /\ created \in Nat /\ created' = created + 1
      /\ users'[n] = new /\ \A b \in Ids \ {n} : users'[b] = users[b]
  <2>1. created \in Nat /\ n \in Ids
    BY TypeInsert DEF TypeOK
  <2> QED
    BY <2>1 DEF Insert, TypeOK
<1>2. \A b \in Ids : Exists(b) => b # n
  BY <1>1 DEF UsedIds, Ids
<1>3. \A b \in Ids : b <= created /\ Exists(b)' => Exists(b) /\ users'[b] = users[b]
  BY <1>1 DEF Exists, Ids
<1>4. ASSUME NEW t \in Subjects, new.oidc_sub # t
      PROVE  OfSubject(t)' \subseteq OfSubject(t)
  BY <1>1, <1>4 DEF OfSubject, Exists
<1>5. \A t \in Subjects : \/ OfSubject(t)' \subseteq OfSubject(t)
                          \/ InPhase(req[w]) /\ req[w].subject = t
  BY <1>4, DirectoryAssumption DEF InPhase
<1>6. ASSUME NEW v \in Workers, v # w
      PROVE  (Waiting(req[v]) /\ Linked(req[v]) /\ Entered(req[v]))'
  BY <1>1, <1>3, <1>5, <1>6, OthersStep
<1>7. (Waiting(req[w]) /\ Linked(req[w]) /\ Entered(req[w]))'
  <2>1. req'[w] = q
    BY DEF Go, TypeOK
  <2> QED
    BY <2>1 DEF Waiting, Pending, Linked, Entered, InPhase
<1>8. CallbacksAlone'
  BY StillAlone
<1>9. OneAccountPerSubject'
  <2>1. CASE new.oidc_sub = NoSubject
    BY <1>1, <2>1 DEF SubjectInv, OneAccountPerSubject, Exists
  <2>2. CASE req[w].phase = "insert" /\ new.oidc_sub = req[w].subject
    <3>1. OfSubject(new.oidc_sub) = {} \/ new.oidc_sub \in raced
      BY <2>2 DEF SubjectInv, Waiting, Pending
    <3> QED
      BY <1>1, <3>1 DEF SubjectInv, OneAccountPerSubject, OfSubject, Exists
  <2> QED
    BY <2>1, <2>2
<1> QED
  BY <1>6, <1>7, <1>8, <1>9 DEF SubjectInv

\* An update or a deletion by an administrator.
LEMMA AdminSubjects ==
  ASSUME TypeOK, SubjectInv, NEW w \in Workers, Go(w, Idle), NEW a \in Ids,
         \A b \in Ids \ {a} : users'[b] = users[b],
         Exists(a)' => Exists(a) /\ users'[a].oidc_sub = users[a].oidc_sub,
         UNCHANGED <<created, raced, displaced>>
  PROVE  SubjectInv'
<1>1. \A b \in Ids : Exists(b)' => Exists(b) /\ users'[b].oidc_sub = users[b].oidc_sub
  BY DEF Exists
<1>2. created \in Nat /\ \A t \in Subjects : OfSubject(t)' \subseteq OfSubject(t)
  BY <1>1 DEF OfSubject, TypeOK
<1>3. ASSUME NEW v \in Workers, v # w
      PROVE  (Waiting(req[v]) /\ Linked(req[v]) /\ Entered(req[v]))'
  BY <1>1, <1>2, <1>3, OthersStep
<1>4. (Waiting(req[w]) /\ Linked(req[w]) /\ Entered(req[w]))'
  <2>1. req'[w] = Idle
    BY DEF Go, TypeOK
  <2> QED
    BY <2>1 DEF Waiting, Pending, Linked, Entered, Idle
<1>5. CallbacksAlone'
  BY StillAlone DEF InPhase, Idle
<1>6. OneAccountPerSubject'
  BY <1>1 DEF SubjectInv, OneAccountPerSubject
<1> QED
  BY <1>3, <1>4, <1>5, <1>6 DEF SubjectInv

\* The commit of a callback that has found a row.
LEMMA SignInSubjects ==
  ASSUME TypeOK, SubjectInv, NEW w \in Workers, CommitSignIn(w)
  PROVE  SubjectInv'
<1> DEFINE q == req[w]
           a == q.user
           s == q.subject
           new == Flush(users[a], q.writes, DOMAIN q.writes)
           old == users[a].oidc_sub
<1>1. /\ a \in Ids /\ s \in Subjects /\ q.writes \in PartsOf([oidc_sub : Subjects])
      /\ users[a] \in Rows /\ Exists(a)
      /\ "oidc_sub" \notin DOMAIN q.writes => new.oidc_sub = old
      /\ "oidc_sub" \in DOMAIN q.writes => new.oidc_sub = s
  <2>1. /\ a \in Ids /\ s \in Subjects /\ q.writes \in PartsOf([oidc_sub : Subjects])
        /\ users[a] \in Rows /\ Exists(a)
    BY RequestFields, RowFields DEF CommitSignIn, TypeOK
  <2>2. "oidc_sub" \in DOMAIN q.writes => q.writes["oidc_sub"] = s
    BY DEF CommitSignIn, SubjectInv, Linked
  <2> QED
    BY <2>1, <2>2, LinkedRow
<1>2. /\ users'[a] = new /\ \A b \in Ids \ {a} : users'[b] = users[b]
      /\ created' = created /\ created \in Nat /\ raced' = raced
      /\ displaced' = displaced \cup ({old} \ {NoSubject, new.oidc_sub})
  BY <1>1 DEF CommitSignIn, TypeOK
<1> PICK e : e = [phase |-> "entered", subject |-> s, oidc_sub |-> new.oidc_sub, email |-> new.email]
  OBVIOUS
<1>3. Go(w, e) /\ req'[w] = e
  BY <1>2 DEF CommitSignIn, Enter, Go, TypeOK
<1> HIDE DEF new
<1>4. \A t \in Subjects : \/ OfSubject(t)' \subseteq OfSubject(t)
                          \/ InPhase(req[w]) /\ req[w].subject = t
  BY <1>1, <1>2 DEF CommitSignIn, OfSubject, Exists, InPhase
<1>5. \A b \in Ids :
        b <= created /\ Exists(b)' =>
          /\ Exists(b)
          /\ users'[b].oidc_sub = users[b].oidc_sub \/ users[b].oidc_sub \in displaced' \cup {NoSubject}
  BY <1>1, <1>2 DEF Exists
<1>6. ASSUME NEW v \in Workers, v # w
      PROVE  (Waiting(req[v]) /\ Linked(req[v]) /\ Entered(req[v]))'
  BY <1>2, <1>3, <1>4, <1>5, <1>6, OthersStep
<1>7. (Waiting(req[w]) /\ Linked(req[w]) /\ Entered(req[w]))'
  <2>1. new.oidc_sub = s \/ s \in displaced
    BY <1>1 DEF SubjectInv, Linked, CommitSignIn
  <2> QED
    BY <1>2, <1>3, <2>1 DEF Waiting, Pending, Linked, Entered
<1>8. CallbacksAlone'
  BY <1>2, <1>3, StillAlone DEF InPhase
<1>9. OneAccountPerSubject'
  <2>1. CASE new.oidc_sub = old
    BY <1>1, <1>2, <2>1 DEF SubjectInv, OneAccountPerSubject, Exists
  <2>2. CASE "oidc_sub" \in DOMAIN q.writes
    <3>1. OfSubject(s) = {} \/ s \in raced
      BY <2>2 DEF SubjectInv, Waiting, Pending, CommitSignIn
    <3> QED
      BY <1>1, <1>2, <2>2, <3>1 DEF SubjectInv, OneAccountPerSubject, OfSubject, Exists
  <2> QED
    BY <1>1, <2>1, <2>2
<1> QED
  BY <1>6, <1>7, <1>8, <1>9 DEF SubjectInv

\* Nothing or the subject is left to write to a row that was found.
LEMMA FoundWrites ==
  ASSUME NEW s, NEW a
  PROVE  /\ Found(s, a).phase = "found" /\ Found(s, a).subject = s /\ Found(s, a).user = a
         /\ "oidc_sub" \in DOMAIN Found(s, a).writes <=> users[a].oidc_sub # s
         /\ "oidc_sub" \in DOMAIN Found(s, a).writes => Found(s, a).writes["oidc_sub"] = s
  BY DEF Found, Written

LEMMA SubjectInit == Init => SubjectInv
  BY DEF Init, SubjectInv, CallbacksAlone, InPhase, Waiting, Pending, Linked, Entered,
         OneAccountPerSubject, Exists, Idle

LEMMA SubjectNext == TypeOK /\ AdminInv /\ SubjectInv /\ [Next]_vars => SubjectInv'
<1> SUFFICES ASSUME TypeOK, UsedIds, SubjectInv, [Next]_vars
             PROVE  SubjectInv'
  BY DEF AdminInv
<1>1. ASSUME NEW w \in Workers, CountUsers(w)
      PROVE  SubjectInv'
  BY <1>1, QuietSubjects DEF CountUsers, history, InPhase, Pending, Linked, Entered
<1>2. ASSUME NEW w \in Workers, NEW name \in Names, CommitSetup(w, name)
      PROVE  SubjectInv'
  <2> DEFINE new == NewRow(name, "admin", NoAddress, NoSubject)
  <2>1. new \in Rows /\ new.oidc_sub = NoSubject
    BY DEF NewRow, Rows, Roles, UserNames
  <2> QED
    BY <1>2, <2>1, InsertSubjects DEF CommitSetup, InPhase, Entered, Idle
<1>3. ASSUME NEW w \in Workers, NEW a \in Ids, Authenticate(w, a)
      PROVE  SubjectInv'
  BY <1>3, QuietSubjects DEF Authenticate, history, InPhase, Pending, Linked, Entered
<1>4. ASSUME NEW w \in Workers, NEW name \in Names, NEW role \in Roles,
             NEW email \in Mails, CreateUser(w, name, role, email)
      PROVE  SubjectInv'
  <2> DEFINE new == NewRow(name, role, email, NoSubject)
  <2>1. new \in Rows /\ new.oidc_sub = NoSubject
    BY DirectoryAssumption DEF NewRow, Rows, UserNames
  <2> QED
    BY <1>4, <2>1, InsertSubjects DEF CreateUser, InPhase, Entered, Idle
<1>5. ASSUME NEW w \in Workers, NEW a \in Ids, NEW update \in Updates, LoadForUpdate(w, a, update)
      PROVE  SubjectInv'
  <2>1. PICK q : Go(w, q) /\ q.phase = "updating"
    BY <1>5 DEF LoadForUpdate
  <2> QED
    BY <1>5, <2>1, QuietSubjects DEF LoadForUpdate, history, InPhase, Pending, Linked, Entered
<1>6. ASSUME NEW w \in Workers, CommitUpdate(w)
      PROVE  SubjectInv'
  <2>1. PICK a \in Ids : a = req[w].user /\ Exists(a)
    BY <1>6, RequestFields DEF CommitUpdate, TypeOK
  <2>2. req[w].writes \in PartsOf(Updates)
    BY <1>6, RequestFields DEF CommitUpdate, TypeOK
  <2>3. Flush(users[a], req[w].writes, DOMAIN req[w].writes).oidc_sub = users[a].oidc_sub
    BY <2>1, <2>2, RowFields, UpdatedRow
  <2>4. users'[a].oidc_sub = users[a].oidc_sub /\ \A b \in Ids \ {a} : users'[b] = users[b]
    BY <1>6, <2>1, <2>3 DEF CommitUpdate, TypeOK
  <2> QED
    BY <1>6, <2>1, <2>4, AdminSubjects DEF CommitUpdate
<1>7. ASSUME NEW w \in Workers, NEW a \in Ids, LoadForDelete(w, a)
      PROVE  SubjectInv'
  BY <1>7, QuietSubjects DEF LoadForDelete, history, InPhase, Pending, Linked, Entered
<1>8. ASSUME NEW w \in Workers, CommitDelete(w)
      PROVE  SubjectInv'
  <2>1. PICK a \in Ids : a = req[w].user
    BY <1>8, RequestFields DEF CommitDelete, TypeOK
  <2>2. users'[a] = NoRow /\ \A b \in Ids \ {a} : users'[b] = users[b]
    BY <1>8, <2>1 DEF CommitDelete, TypeOK
  <2> QED
    BY <1>8, <2>1, <2>2, AdminSubjects DEF CommitDelete, Exists
<1>9. ASSUME NEW w \in Workers, NEW s \in Subjects, LookUpSubject(w, s)
      PROVE  SubjectInv'
  <2>1. raced \subseteq raced' /\ (InCallback(s) => s \in raced')
    BY <1>9 DEF LookUpSubject, Seen
  <2>2. CASE OfSubject(s) = {}
    BY <1>9, <2>1, <2>2, QuietSubjects
    DEF LookUpSubject, Rest, InPhase, Pending, Linked, Entered
  <2>3. CASE OfSubject(s) # {}
    <3>1. PICK a \in Ids : Exists(a) /\ users[a].oidc_sub = s /\ Go(w, Found(s, a))
      BY <1>9, <2>3 DEF LookUpSubject, OfSubject
    <3>2. /\ Linked(Found(s, a)) /\ Entered(Found(s, a)) /\ ~Pending(Found(s, a))
          /\ Found(s, a).subject = s
      BY <3>1, FoundWrites DEF Linked, Entered, Pending, UsedIds
    <3> QED
      BY <1>9, <2>1, <3>1, <3>2, QuietSubjects DEF LookUpSubject, Rest
  <2> QED
    BY <2>2, <2>3
<1>10. ASSUME NEW w \in Workers, LookUpAddress(w)
       PROVE  SubjectInv'
  <2> DEFINE s == req[w].subject
  <2>1. /\ InPhase(req[w]) /\ raced' = raced
        /\ OfSubject(s) = {} \/ s \in raced
    BY <1>10 DEF LookUpAddress, SubjectInv, InPhase, Waiting, Pending
  <2>2. CASE AddressOf[s] = NoAddress \/ OfAddress(AddressOf[s]) = {}
    BY <1>10, <2>1, <2>2, QuietSubjects
    DEF LookUpAddress, Rest, InPhase, Pending, Linked, Entered
  <2>3. CASE ~(AddressOf[s] = NoAddress \/ OfAddress(AddressOf[s]) = {})
    <3>1. PICK a \in Ids : Exists(a) /\ Go(w, Found(s, a))
      BY <1>10, <2>3 DEF LookUpAddress, OfAddress
    <3>2. Linked(Found(s, a)) /\ Entered(Found(s, a)) /\ Found(s, a).subject = s
      BY <3>1, FoundWrites DEF Linked, Entered, UsedIds
    <3> QED
      BY <1>10, <2>1, <3>1, <3>2, QuietSubjects DEF LookUpAddress, Rest
  <2> QED
    BY <2>2, <2>3
<1>11. ASSUME NEW w \in Workers, ChooseName(w)
       PROVE  SubjectInv'
  <2>1. PICK q : Go(w, q) /\ q.phase = "insert" /\ q.subject = req[w].subject
    BY <1>11 DEF ChooseName
  <2>2. /\ InPhase(req[w]) /\ raced' = raced
        /\ OfSubject(req[w].subject) = {} \/ req[w].subject \in raced
    BY <1>11 DEF ChooseName, SubjectInv, InPhase, Waiting, Pending
  <2> QED
    BY <1>11, <2>1, <2>2, QuietSubjects DEF ChooseName, Rest, InPhase, Pending, Linked, Entered
<1>12. ASSUME NEW w \in Workers, CommitSignIn(w)
       PROVE  SubjectInv'
  BY <1>12, SignInSubjects
<1>13. ASSUME NEW w \in Workers, CommitProvision(w)
       PROVE  SubjectInv'
  <2> DEFINE new == NewRow(req[w].name, DefaultRole, AddressOf[req[w].subject], req[w].subject)
  <2>1. req[w].subject \in Subjects /\ req[w].name \in UserNames
    BY <1>13, RequestFields DEF CommitProvision, TypeOK
  <2>2. new \in Rows /\ new.oidc_sub = req[w].subject
    BY <2>1, DirectoryAssumption DEF NewRow, Rows
  <2>3. PICK q : Go(w, q) /\ q.phase = "entered" /\ q.subject = req[w].subject
                 /\ q.oidc_sub = req[w].subject
    BY <1>13, <2>2 DEF CommitProvision, Enter
  <2> QED
    BY <1>13, <2>2, <2>3, InsertSubjects DEF CommitProvision, InPhase, Entered
<1>14. ASSUME NEW w \in Workers, RecoverFromConflict(w)
       PROVE  SubjectInv'
  <2>1. PICK a \in Winners(req[w].subject, req[w].name) : Enter(w, users[a])
    BY <1>14 DEF RecoverFromConflict
  <2>2. users[a].oidc_sub = req[w].subject \/ users[a].email = AddressOf[req[w].subject]
    BY <2>1 DEF Winners, OfSubject, OfAddress
  <2>3. PICK q : Go(w, q) /\ q.phase = "entered" /\ q.subject = req[w].subject
                 /\ q.oidc_sub = users[a].oidc_sub /\ q.email = users[a].email
    BY <2>1 DEF Enter
  <2> QED
    BY <1>14, <2>2, <2>3, QuietSubjects
    DEF RecoverFromConflict, history, InPhase, Pending, Linked, Entered
<1>15. ASSUME NEW w \in Workers, Finish(w) \/ Abandon(w)
       PROVE  SubjectInv'
  BY <1>15, QuietSubjects DEF Finish, Abandon, history, InPhase, Pending, Linked, Entered, Idle
<1>16. ASSUME UNCHANGED vars
       PROVE  SubjectInv'
  BY <1>16 DEF vars, SubjectInv, CallbacksAlone, InPhase, Waiting, Pending, Linked, Entered,
               OneAccountPerSubject, OfSubject, Exists
<1> QED
  BY <1>1, <1>2, <1>3, <1>4, <1>5, <1>6, <1>7, <1>8, <1>9, <1>10, <1>11, <1>12, <1>13, <1>14,
     <1>15, <1>16 DEF Next

\* The inductive invariant: a callback that will link or insert a row is the only
\* one of its subject, which has no row yet, and a row that was found stays the
\* subject's until it is given to another.
THEOREM SubjectInvariant == Spec => []SubjectInv
<1>1. Init => SubjectInv
  BY SubjectInit
<1>2. TypeOK /\ AdminInv /\ SubjectInv /\ [Next]_vars => SubjectInv'
  BY SubjectNext
<1> QED
  BY <1>1, <1>2, TypeCorrect, DirectoryInvariant, PTL DEF Spec

\* oidc_callback puts a subject into two rows only when two of its callbacks run
\* at once (OneAccountPerSubject).
THEOREM SubjectsHaveOneAccount == Spec => []OneAccountPerSubject
<1>1. SubjectInv => OneAccountPerSubject
  BY DEF SubjectInv
<1> QED
  BY <1>1, SubjectInvariant, PTL

\* However callbacks collide, oidc_callback signs a subject in to a row of its own
\* or of its address, if it has one (SignedInAsOneself).
THEOREM SubjectsEnterTheirOwn == Spec => []SignedInAsOneself
<1>1. SubjectInv => SignedInAsOneself
  BY DEF SubjectInv, Entered, SignedInAsOneself
<1> QED
  BY <1>1, SubjectInvariant, PTL

-----------------------------------------------------------------------------
(***************************************************************************)
(* MfaEnrollment (F): the second factor of one account.                    *)
(***************************************************************************)

\* The secret of the row, and those that requests work with, have been drawn
\* and shown as far as the request has come; a setup began on an account
\* without a factor.
FactorRequests ==
  /\ factor.totp_secret # F!Null => factor.totp_secret \in shown
  /\ \A w \in FactorWorkers :
       /\ factorReq[w].phase = "setup" =>
            factorReq[w].secret \in drawn /\ ~ factorReq[w].loaded.mfa_enabled
       /\ factorReq[w].phase = "confirm" => factorReq[w].loaded.totp_secret \in shown

FactorInv ==
  /\ F!TypeOK
  /\ FactorRequests
  /\ EnabledSecretIsProven

\* The phase of a request tells which fields it has.
LEMMA FactorRequestFields ==
  ASSUME NEW r \in F!Requests \cup {F!Idle}
  PROVE  /\ r.phase \in {"setup", "confirm", "disable", "reset"} => r.loaded \in F!Rows
         /\ r.phase = "setup" => r.secret \in Secrets
  BY DEF F!Requests, F!Idle

\* Confirming writes the flag and never the secret.
LEMMA ConfirmedRow ==
  ASSUME NEW row \in F!Rows, NEW loaded \in F!Rows,
         NEW new, new = [loaded EXCEPT !.mfa_enabled = TRUE],
         NEW flushed, flushed = F!Flush(row, new, F!Changed(loaded, new))
  PROVE  flushed \in F!Rows /\ flushed.totp_secret = row.totp_secret
<1>1. new \in F!Rows /\ new.totp_secret = loaded.totp_secret
  BY DEF F!Rows
<1>2. DOMAIN row = {"totp_secret", "mfa_enabled"}
  BY DEF F!Rows
<1>3. "totp_secret" \notin F!Changed(loaded, new)
  BY <1>1 DEF F!Changed
<1> DEFINE flag == IF "mfa_enabled" \in F!Changed(loaded, new)
                   THEN new.mfa_enabled ELSE row.mfa_enabled
<1>4. flushed = [totp_secret |-> row.totp_secret, mfa_enabled |-> flag]
  BY <1>2, <1>3 DEF F!Flush
<1>5. flag \in BOOLEAN
  <2>1. new.mfa_enabled \in BOOLEAN /\ row.mfa_enabled \in BOOLEAN
    BY <1>1 DEF F!Rows
  <2> QED
    BY <2>1, Zenon
<1> HIDE DEF flag
<1> QED
  BY <1>4, <1>5 DEF F!Rows

\* Disabling and resetting remove the secret, or leave the one that is there;
\* on the row that was loaded nothing of the factor is left.
LEMMA RemovedRow ==
  ASSUME NEW row \in F!Rows, NEW loaded \in F!Rows,
         NEW flushed, flushed = F!Flush(row, F!NoMfa, F!Changed(loaded, F!NoMfa))
  PROVE  /\ flushed \in F!Rows
         /\ flushed.totp_secret \in {F!Null, row.totp_secret}
         /\ row = loaded => ~ flushed.mfa_enabled
<1> DEFINE columns == F!Changed(loaded, F!NoMfa)
<1>1. F!NoMfa \in F!Rows /\ F!NoMfa.totp_secret = F!Null /\ F!NoMfa.mfa_enabled = FALSE
  BY DEF F!NoMfa, F!Rows
<1>2. DOMAIN row = {"totp_secret", "mfa_enabled"}
  BY DEF F!Rows
<1>3. "mfa_enabled" \in columns <=> loaded.mfa_enabled # FALSE
  BY DEF F!Changed, F!NoMfa
<1> HIDE DEF columns
<1> DEFINE secret == IF "totp_secret" \in columns
                     THEN F!NoMfa.totp_secret ELSE row.totp_secret
           flag == IF "mfa_enabled" \in columns
                   THEN F!NoMfa.mfa_enabled ELSE row.mfa_enabled
<1>4. flushed = [totp_secret |-> secret, mfa_enabled |-> flag]
  BY <1>2 DEF F!Flush, columns
<1>5. secret \in {F!Null, row.totp_secret}
  BY <1>1
<1>6. flag \in BOOLEAN /\ (row = loaded => flag = FALSE)
  <2>1. row.mfa_enabled \in BOOLEAN
    BY DEF F!Rows
  <2>2. CASE "mfa_enabled" \in columns
    BY <1>1, <2>2, Zenon
  <2>3. CASE "mfa_enabled" \notin columns
    BY <1>3, <2>1, <2>3, Zenon
  <2> QED
    BY <2>2, <2>3
<1> HIDE DEF secret, flag
<1>7. row.totp_secret \in Secrets \cup {F!Null}
  BY DEF F!Rows
<1>8. secret \in Secrets \cup {F!Null}
  BY <1>5, <1>7
<1>9. flushed \in F!Rows
  BY <1>4, <1>6, <1>8 DEF F!Rows
<1>10. flushed.totp_secret = secret /\ flushed.mfa_enabled = flag
  BY <1>4
<1>11. flushed.totp_secret \in {F!Null, row.totp_secret}
  BY <1>5, <1>10
<1>12. ASSUME row = loaded
       PROVE  ~ flushed.mfa_enabled
  <2>1. flushed.mfa_enabled = FALSE
    BY <1>6, <1>10, <1>12
  <2> QED
    BY <2>1, Zenon
<1> QED
  BY <1>9, <1>11, <1>12

LEMMA FactorInit == F!Init => FactorInv
<1> SUFFICES ASSUME F!Init
             PROVE  FactorInv
  OBVIOUS
<1>1. /\ factor \in F!Rows
      /\ factor.totp_secret = F!Null
      /\ factor.mfa_enabled = FALSE
  BY DEF F!Init, F!NoMfa, F!Rows
<1>2. F!TypeOK
  BY <1>1 DEF F!Init, F!TypeOK
<1>3. FactorRequests
  BY <1>1 DEF F!Init, FactorRequests, F!Idle
<1>4. EnabledSecretIsProven
  BY <1>1, Zenon DEF EnabledSecretIsProven, F!EnabledSecretIsProven
<1> QED
  BY <1>2, <1>3, <1>4 DEF FactorInv

\* A request begins, or is given up.
LEMMA FactorRequestStep ==
  ASSUME FactorInv, NEW w \in FactorWorkers, NEW r \in F!Requests \cup {F!Idle},
         factorReq' = [factorReq EXCEPT ![w] = r],
         drawn \subseteq drawn', drawn' \subseteq Secrets,
         r.phase = "setup" => r.secret \in drawn' /\ ~ r.loaded.mfa_enabled,
         r.phase = "confirm" => r.loaded.totp_secret \in shown,
         UNCHANGED <<factor, shown, proven, stale>>
  PROVE  FactorInv'
<1>1. F!TypeOK'
  BY DEF FactorInv, F!TypeOK
<1>2. FactorRequests'
  BY DEF FactorInv, F!TypeOK, FactorRequests
<1>3. EnabledSecretIsProven'
  BY DEF FactorInv, EnabledSecretIsProven, F!EnabledSecretIsProven
<1> QED
  BY <1>1, <1>2, <1>3 DEF FactorInv

\* A request ends and leaves the row as it says.
LEMMA FactorCommitStep ==
  ASSUME FactorInv, NEW w \in FactorWorkers, F!Ends(w), factor' \in F!Rows,
         factor'.totp_secret # F!Null => factor'.totp_secret \in shown',
         factor = factorReq[w].loaded /\ factor'.mfa_enabled =>
           factor'.totp_secret \in proven',
         shown \subseteq shown', shown' \subseteq drawn,
         proven \subseteq proven', proven' \subseteq shown',
         drawn' = drawn
  PROVE  FactorInv'
<1>1. /\ factorReq' = [factorReq EXCEPT ![w] = F!Idle]
      /\ stale' = (stale \/ factor # factorReq[w].loaded)
  BY DEF F!Ends
<1>2. F!TypeOK'
  <2>1. stale' \in BOOLEAN
    BY <1>1
  <2>2. factorReq' \in [FactorWorkers -> F!Requests \cup {F!Idle}]
    BY <1>1 DEF FactorInv, F!TypeOK
  <2> QED
    BY <2>1, <2>2 DEF FactorInv, F!TypeOK
<1>3. FactorRequests'
  BY <1>1 DEF FactorInv, F!TypeOK, FactorRequests, F!Idle
<1>4. EnabledSecretIsProven'
  BY <1>1 DEF EnabledSecretIsProven, F!EnabledSecretIsProven
<1> QED
  BY <1>2, <1>3, <1>4 DEF FactorInv

LEMMA FactorNext == FactorInv /\ [F!Next]_factorVars => FactorInv'
<1> SUFFICES ASSUME FactorInv, [F!Next]_factorVars
             PROVE  FactorInv'
  OBVIOUS
<1>0. /\ factor \in F!Rows
      /\ \A w \in FactorWorkers : factorReq[w] \in F!Requests \cup {F!Idle}
      /\ drawn \subseteq Secrets /\ shown \subseteq drawn /\ proven \subseteq shown
      /\ factor.totp_secret # F!Null => factor.totp_secret \in shown
  BY DEF FactorInv, F!TypeOK, FactorRequests
<1>1. ASSUME F!SetupAgain
      PROVE  FactorInv'
  BY <1>0, <1>1 DEF F!SetupAgain, FactorInv, F!TypeOK, FactorRequests,
                    EnabledSecretIsProven, F!EnabledSecretIsProven
<1>2. ASSUME NEW w \in FactorWorkers, F!BeginSetup(w)
      PROVE  FactorInv'
  <2> PICK s \in Secrets \ drawn :
        /\ drawn' = drawn \cup {s}
        /\ factorReq' = [factorReq EXCEPT ![w] =
                           [phase |-> "setup", loaded |-> factor, secret |-> s]]
    BY <1>2 DEF F!BeginSetup
  <2>1. [phase |-> "setup", loaded |-> factor, secret |-> s] \in F!Requests
    BY <1>0 DEF F!Requests
  <2> QED
    BY <1>0, <1>2, <2>1, FactorRequestStep DEF F!BeginSetup
<1>3. ASSUME NEW w \in FactorWorkers, F!CommitSetup(w)
      PROVE  FactorInv'
  <2> DEFINE r == factorReq[w]
  <2>1. /\ r.loaded \in F!Rows
        /\ r.secret \in Secrets
        /\ r.secret \in drawn
        /\ ~ r.loaded.mfa_enabled
    BY <1>0, <1>3, FactorRequestFields DEF F!CommitSetup, FactorInv, FactorRequests
  <2>2. /\ factor' \in F!Rows
        /\ factor'.totp_secret = r.secret
        /\ factor'.mfa_enabled = factor.mfa_enabled
    BY <1>0, <1>3, <2>1 DEF F!CommitSetup, F!Rows
  <2>3. /\ shown' = shown \cup {r.secret}
        /\ drawn' = drawn /\ proven' = proven
        /\ F!Ends(w)
    BY <1>3 DEF F!CommitSetup
  <2>4. factor = r.loaded => ~ factor'.mfa_enabled
    BY <2>1, <2>2
  <2> QED
    BY <1>0, <2>1, <2>2, <2>3, <2>4, FactorCommitStep
<1>4. ASSUME NEW w \in FactorWorkers, F!VerifyConfirm(w)
      PROVE  FactorInv'
  <2>1. [phase |-> "confirm", loaded |-> factor] \in F!Requests
    BY <1>0 DEF F!Requests
  <2> QED
    BY <1>0, <1>4, <2>1, FactorRequestStep DEF F!VerifyConfirm
<1>5. ASSUME NEW w \in FactorWorkers, F!CommitConfirm(w)
      PROVE  FactorInv'
  <2> DEFINE r == factorReq[w]
             new == [r.loaded EXCEPT !.mfa_enabled = TRUE]
  <2>1. r.loaded \in F!Rows /\ r.loaded.totp_secret \in shown
    BY <1>0, <1>5, FactorRequestFields DEF F!CommitConfirm, FactorInv, FactorRequests
  <2>2. /\ factor' = F!Flush(factor, new, F!Changed(r.loaded, new))
        /\ proven' = proven \cup {r.loaded.totp_secret}
        /\ drawn' = drawn /\ shown' = shown
        /\ F!Ends(w)
    BY <1>5 DEF F!CommitConfirm
  <2>3. factor' \in F!Rows /\ factor'.totp_secret = factor.totp_secret
    BY <1>0, <2>1, <2>2, ConfirmedRow
  <2> QED
    BY <1>0, <2>1, <2>2, <2>3, FactorCommitStep
<1>6. ASSUME NEW w \in FactorWorkers, F!VerifyDisable(w)
      PROVE  FactorInv'
  <2>1. [phase |-> "disable", loaded |-> factor] \in F!Requests
    BY <1>0 DEF F!Requests
  <2> QED
    BY <1>0, <1>6, <2>1, FactorRequestStep DEF F!VerifyDisable
<1>7. ASSUME NEW w \in FactorWorkers, F!CommitDisable(w) \/ F!CommitReset(w)
      PROVE  FactorInv'
  <2> DEFINE r == factorReq[w]
  <2>1. /\ factor' = F!Flush(factor, F!NoMfa, F!Changed(r.loaded, F!NoMfa))
        /\ drawn' = drawn /\ shown' = shown /\ proven' = proven
        /\ F!Ends(w)
        /\ r.phase \in {"disable", "reset"}
    BY <1>7 DEF F!CommitDisable, F!CommitReset
  <2>2. r.loaded \in F!Rows
    BY <1>0, <2>1, FactorRequestFields
  <2>3. /\ factor' \in F!Rows
        /\ factor'.totp_secret \in {F!Null, factor.totp_secret}
        /\ factor = r.loaded => ~ factor'.mfa_enabled
    BY <1>0, <2>1, <2>2, RemovedRow
  <2> QED
    BY <1>0, <2>1, <2>3, FactorCommitStep
<1>8. ASSUME NEW w \in FactorWorkers, F!LoadForReset(w)
      PROVE  FactorInv'
  <2>1. [phase |-> "reset", loaded |-> factor] \in F!Requests
    BY <1>0 DEF F!Requests
  <2> QED
    BY <1>0, <1>8, <2>1, FactorRequestStep DEF F!LoadForReset
<1>9. ASSUME NEW w \in FactorWorkers, F!Abandon(w)
      PROVE  FactorInv'
  BY <1>0, <1>9, FactorRequestStep DEF F!Abandon, F!Idle
<1>10. CASE UNCHANGED factorVars
  BY <1>10 DEF factorVars, FactorInv, F!TypeOK, FactorRequests,
               EnabledSecretIsProven, F!EnabledSecretIsProven
<1> QED
  BY <1>1, <1>2, <1>3, <1>4, <1>5, <1>6, <1>7, <1>8, <1>9, <1>10 DEF F!Next

\* Flag, secret and requests of the second factor keep their types, and no
\* secret counts as verified or is stored that the user was not shown.
THEOREM FactorCorrect == MCSpec => []FactorInv
<1>1. MCInit => FactorInv
  BY FactorInit DEF MCInit
<1>2. FactorInv /\ [MCNext]_<<vars, factorVars, at>> => FactorInv'
  BY FactorNext DEF MCNext
<1> QED
  BY <1>1, <1>2, PTL DEF MCSpec

\* An enabled factor has a secret that a confirmation has verified, unless a
\* commit fell on a row that had changed since its request loaded it.
THEOREM EnabledIsConfirmed == MCSpec => []EnabledSecretIsProven
<1>1. FactorInv => EnabledSecretIsProven
  BY DEF FactorInv
<1> QED
  BY <1>1, FactorCorrect, PTL
=============================================================================
