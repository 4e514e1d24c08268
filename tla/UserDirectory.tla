---------------------------- MODULE UserDirectory ----------------------------
(***************************************************************************)
(* The table of users: who creates accounts (the first-run setup, an        *)
(* administrator, the callback of the identity provider), who changes and   *)
(* removes them, and which account a subject of the provider is signed in   *)
(* to.  An invitation is an account that is created and then deactivated;    *)
(* its token is in AccessGrants.                                            *)
(*                                                                         *)
(* Only the user name is unique.  Whether the table is empty, whether a      *)
(* subject or an address has an account, and whether the requester may      *)
(* remove others is looked up first and relied upon at a later commit.      *)
(***************************************************************************)
EXTENDS OrmRow, Naturals

CONSTANTS
  Workers,
  Subjects,     \* sub of the identity provider
  Addresses,
  AddressOf,    \* the address that the provider tells of a subject, if any
  Names,        \* user names as given by administrators
  Mails,        \* addresses as given by administrators
  NamesOf,      \* the names derived for a subject, in the order of trial
  DefaultRole,  \* oidc_default_role
  MaxAccounts   \* bound: accounts created

NoAddress == ""
NoSubject == "null"
Roles == {"admin", "other"}

ASSUME DirectoryAssumption ==
  /\ MaxAccounts \in Nat
  /\ DefaultRole \in Roles
  /\ NoAddress \notin Addresses
  /\ NoSubject \notin Subjects
  /\ AddressOf \in [Subjects -> Addresses \cup {NoAddress}]
  /\ Mails \subseteq Addresses \cup {NoAddress}

VARIABLES
  users,     \* the rows, by id
  created,   \* ids drawn so far
  req,
  founders,  \* history: the accounts that setup has made
  rushed,    \* history: an account was created while a setup was under way
  abdicated, \* history: an administrator has taken his own role away
  overtaken, \* history: one who was no administrator any more removed or
             \* changed another account
  raced,     \* history: subjects with two callbacks at once
  displaced  \* history: subjects whose row another subject has been linked to

vars == <<users, created, req, founders, rushed, abdicated, overtaken, raced, displaced>>
history == <<founders, rushed, abdicated, overtaken, raced, displaced>>

-----------------------------------------------------------------------------
Ids == 1..MaxAccounts
UserNames == Names \cup UNION {{NamesOf[s][i] : i \in DOMAIN NamesOf[s]} : s \in Subjects}

Rows ==
  [username : UserNames, role : Roles, is_active : BOOLEAN,
   email : Addresses \cup {NoAddress}, oidc_sub : Subjects \cup {NoSubject}]

NoRow == [username |-> "none"]

NewRow(name, role, email, sub) ==
  [username |-> name, role |-> role, is_active |-> TRUE, email |-> email, oidc_sub |-> sub]

Exists(a) == users[a] # NoRow
Taken(name) == \E a \in Ids : Exists(a) /\ users[a].username = name
IsAdmin(a) == Exists(a) /\ users[a].role = "admin" /\ users[a].is_active
Empty == \A a \in Ids : ~Exists(a)

\* One column at a time: an update of several is as good as one after the other.
Updates == [role : Roles] \cup [is_active : BOOLEAN] \cup [email : Mails]

\* What may be left of one of these updates when the columns that keep their
\* value are taken away.
PartsOf(U) == UNION {{[c \in D |-> u[c]] : D \in SUBSET DOMAIN u} : u \in U}

Idle == [phase |-> "idle"]

Requests ==
  [phase : {"setup"}]
    \cup [phase : {"admin"}, requester : Ids, loaded : Rows]
    \cup [phase : {"updating"}, requester : Ids, user : Ids, writes : PartsOf(Updates)]
    \cup [phase : {"deleting"}, requester : Ids, user : Ids]
    \cup [phase : {"address", "name"}, subject : Subjects]
    \cup [phase : {"insert"}, subject : Subjects, name : UserNames]
    \cup [phase : {"found"}, subject : Subjects, user : Ids, writes : PartsOf([oidc_sub : Subjects])]
    \cup [phase : {"entered"}, subject : Subjects, oidc_sub : Subjects \cup {NoSubject},
          email : Addresses \cup {NoAddress}]

TypeOK ==
  /\ users \in [Ids -> Rows \cup {NoRow}]
  /\ created \in 0..MaxAccounts
  /\ req \in [Workers -> Requests \cup {Idle}]
  /\ founders \subseteq Ids
  /\ {rushed, abdicated, overtaken} \subseteq BOOLEAN
  /\ raced \subseteq Subjects
  /\ displaced \subseteq Subjects

Init ==
  /\ users = [a \in Ids |-> NoRow]
  /\ created = 0
  /\ req = [w \in Workers |-> Idle]
  /\ founders = {}
  /\ rushed = FALSE
  /\ abdicated = FALSE
  /\ overtaken = FALSE
  /\ raced = {}
  /\ displaced = {}

-----------------------------------------------------------------------------
Go(w, q) == req' = [req EXCEPT ![w] = q]

\* An insertion, refused if the user name is taken.
Insert(new) ==
  /\ created < MaxAccounts
  /\ ~Taken(new.username)
  /\ created' = created + 1
  /\ users' = [users EXCEPT ![created + 1] = new]
  /\ rushed' = (rushed \/ \E w \in Workers : req[w].phase = "setup" /\ req'[w].phase = "setup")

\* Fault: setup does not look whether there are users.
CountUsers_Unchecked(w) ==
  /\ req[w] = Idle
  /\ Go(w, [phase |-> "setup"])
  /\ UNCHANGED <<users, created, history>>

\* setup, the count of users.
CountUsers(w) ==
  /\ req[w] = Idle
  /\ Empty
  /\ Go(w, [phase |-> "setup"])
  /\ UNCHANGED <<users, created, history>>

\* setup, its commit.
CommitSetup(w, name) ==
  /\ req[w].phase = "setup"
  /\ Go(w, Idle)
  /\ Insert(NewRow(name, "admin", NoAddress, NoSubject))
  /\ founders' = founders \cup {created + 1}
  /\ UNCHANGED <<abdicated, overtaken, raced, displaced>>

-----------------------------------------------------------------------------
\* require_admin.  The session of the request keeps the row as it is loaded here.
Authenticate(w, a) ==
  /\ req[w] = Idle
  /\ IsAdmin(a)
  /\ Go(w, [phase |-> "admin", requester |-> a, loaded |-> users[a]])
  /\ UNCHANGED <<users, created, history>>

\* create_user.
CreateUser(w, name, role, email) ==
  /\ req[w].phase = "admin"
  /\ Go(w, Idle)
  /\ Insert(NewRow(name, role, email, NoSubject))
  /\ UNCHANGED <<founders, abdicated, overtaken, raced, displaced>>

\* Fault: one may deactivate oneself.
MayUpdateAnybody(q, a, update) == TRUE

MayUpdate(q, a, update) ==
  a = q.requester => update # [is_active |-> FALSE]

\* The part of an update that differs from the row as it was loaded.
Written(loaded, update) ==
  [c \in {d \in DOMAIN update : update[d] # loaded[d]} |-> update[c]]

\* update_user, the row of the user to be changed.
LoadForUpdate(w, a, update) ==
  /\ req[w].phase = "admin"
  /\ Exists(a)
  /\ MayUpdate(req[w], a, update)
  /\ Go(w, [phase |-> "updating", requester |-> req[w].requester, user |-> a,
            writes |-> Written(IF a = req[w].requester THEN req[w].loaded ELSE users[a], update)])
  /\ UNCHANGED <<users, created, history>>

Overtaken(q) == overtaken \/ (q.user # q.requester /\ ~IsAdmin(q.requester))

\* An update of a row that is gone fails.
CommitUpdate(w) ==
  LET q == req[w]
  IN /\ q.phase = "updating"
     /\ Exists(q.user)
     /\ users' = [users EXCEPT ![q.user] = Flush(@, q.writes, DOMAIN q.writes)]
     /\ abdicated' = (abdicated \/ (q.user = q.requester /\ q.writes = [role |-> "other"]))
     /\ overtaken' = Overtaken(q)
     /\ Go(w, Idle)
     /\ UNCHANGED <<created, founders, rushed, raced, displaced>>

\* Fault: one may delete oneself.
MayDeleteAnybody(q, a) == TRUE

MayDelete(q, a) == a # q.requester

\* delete_user.
LoadForDelete(w, a) ==
  /\ req[w].phase = "admin"
  /\ Exists(a)
  /\ MayDelete(req[w], a)
  /\ Go(w, [phase |-> "deleting", requester |-> req[w].requester, user |-> a])
  /\ UNCHANGED <<users, created, history>>

CommitDelete(w) ==
  LET q == req[w]
  IN /\ q.phase = "deleting"
     /\ Exists(q.user)
     /\ users' = [users EXCEPT ![q.user] = NoRow]
     /\ overtaken' = Overtaken(q)
     /\ Go(w, Idle)
     /\ UNCHANGED <<created, founders, rushed, abdicated, raced, displaced>>

-----------------------------------------------------------------------------
(***************************************************************************)
(* oidc_callback, once the provider has told subject and address            *)
(***************************************************************************)
\* Fault: only accounts that may sign in are looked for.
OfSubject_Active(s) == {a \in Ids : Exists(a) /\ users[a].oidc_sub = s /\ users[a].is_active}

OfSubject(s) == {a \in Ids : Exists(a) /\ users[a].oidc_sub = s}

OfAddress(e) == {a \in Ids : Exists(a) /\ users[a].email = e}

InCallback(s) ==
  \E w \in Workers : req[w].phase \in {"address", "name", "insert", "found"} /\ req[w].subject = s

Seen(s) == raced' = IF InCallback(s) THEN raced \cup {s} ELSE raced

\* A row found for the subject, and what will be written to it: the subject,
\* unless the row has it already.
Found(s, a) ==
  [phase |-> "found", subject |-> s, user |-> a,
   writes |-> Written(users[a], [oidc_sub |-> s])]

Rest == <<users, created, founders, rushed, abdicated, overtaken, displaced>>

\* The account of the subject; without one the address is next.  The user of a
\* disabled account is turned away.
LookUpSubject(w, s) ==
  /\ req[w] = Idle
  /\ Seen(s)
  /\ IF OfSubject(s) = {}
       THEN Go(w, [phase |-> "address", subject |-> s])
       ELSE \E a \in OfSubject(s) :
              users[a].is_active /\ Go(w, Found(s, a))
  /\ UNCHANGED Rest

\* The account of the address, which will be linked to the subject.
LookUpAddress(w) ==
  LET s == req[w].subject
  IN /\ req[w].phase = "address"
     /\ IF AddressOf[s] = NoAddress \/ OfAddress(AddressOf[s]) = {}
          THEN Go(w, [phase |-> "name", subject |-> s])
          ELSE \E a \in OfAddress(AddressOf[s]) :
                 users[a].is_active /\ Go(w, Found(s, a))
     /\ UNCHANGED <<Rest, raced>>

FreeNames(s) ==
  {i \in DOMAIN NamesOf[s] : ~Taken(NamesOf[s][i]) /\ \A j \in 1..(i - 1) : Taken(NamesOf[s][j])}

\* The first of the derived names that is free.
ChooseName(w) ==
  /\ req[w].phase = "name"
  /\ \E i \in FreeNames(req[w].subject) :
       Go(w, [phase |-> "insert", subject |-> req[w].subject,
              name |-> NamesOf[req[w].subject][i]])
  /\ UNCHANGED <<Rest, raced>>

\* The row that the subject is signed in to.
Enter(w, row) ==
  Go(w, [phase |-> "entered", subject |-> req[w].subject,
         oidc_sub |-> row.oidc_sub, email |-> row.email])

\* The row is linked, if it was not, and its user signed in.
CommitSignIn(w) ==
  LET q == req[w]
  IN /\ q.phase = "found"
     /\ Exists(q.user)
     /\ users' = [users EXCEPT ![q.user] = Flush(@, q.writes, DOMAIN q.writes)]
     /\ Enter(w, users'[q.user])
     /\ displaced' = displaced \cup ({users[q.user].oidc_sub} \ {NoSubject, users'[q.user].oidc_sub})
     /\ UNCHANGED <<created, founders, rushed, abdicated, overtaken, raced>>

CommitProvision(w) ==
  LET q == req[w]
      new == NewRow(q.name, DefaultRole, AddressOf[q.subject], q.subject)
  IN /\ q.phase = "insert"
     /\ Enter(w, new)
     /\ Insert(new)
     /\ UNCHANGED <<founders, abdicated, overtaken, raced, displaced>>

\* log_event, and the session.
Finish(w) ==
  /\ req[w].phase = "entered"
  /\ Go(w, Idle)
  /\ UNCHANGED <<users, created, history>>

\* Fault: whoever has the name now is taken for the subject's own account.
Winners_ByName(s, name) == {a \in Ids : Exists(a) /\ users[a].username = name}

\* The account that is taken for the one which another callback has created:
\* that of the subject, and failing this that of the address, even of none.
Winners(s, name) ==
  IF OfSubject(s) # {} THEN OfSubject(s) ELSE OfAddress(AddressOf[s])

\* The name has been taken since.  Without a winner the callback fails (Abandon).
RecoverFromConflict(w) ==
  LET q == req[w]
  IN /\ q.phase = "insert"
     /\ Taken(q.name)
     /\ \E a \in Winners(q.subject, q.name) : Enter(w, users[a])
     /\ UNCHANGED <<users, created, history>>

-----------------------------------------------------------------------------
\* A killed process, a lost connection, a refused commit or request.
Abandon(w) ==
  /\ req[w] # Idle
  /\ Go(w, Idle)
  /\ UNCHANGED <<users, created, history>>

Next ==
  \E w \in Workers :
    \/ CountUsers(w)
    \/ \E name \in Names : CommitSetup(w, name)
    \/ \E a \in Ids : Authenticate(w, a)
    \/ \E name \in Names, role \in Roles, email \in Mails :
         CreateUser(w, name, role, email)
    \/ \E a \in Ids, update \in Updates : LoadForUpdate(w, a, update)
    \/ CommitUpdate(w)
    \/ \E a \in Ids : LoadForDelete(w, a)
    \/ CommitDelete(w)
    \/ \E s \in Subjects : LookUpSubject(w, s)
    \/ LookUpAddress(w)
    \/ ChooseName(w)
    \/ CommitSignIn(w)
    \/ CommitProvision(w)
    \/ RecoverFromConflict(w)
    \/ Finish(w)
    \/ Abandon(w)

Spec == Init /\ [][Next]_vars

-----------------------------------------------------------------------------
(***************************************************************************)
(* Properties                                                              *)
(***************************************************************************)

\* The checks against removing oneself are there to keep an administrator.  One
\* is left as long as nobody takes the role away from himself, and nobody acts
\* on a right that another request has taken from him since it was checked.
AdministratorRemains ==
  founders # {} => abdicated \/ overtaken \/ \E a \in Ids : IsAdmin(a)

\* "Setup already completed": a second account comes of setup only if another
\* account was created during one, or if the table was emptied again, which
\* takes two who remove each other.
SetupIsForTheFirst ==
  \A a, b \in founders : a # b => rushed \/ overtaken

\* A subject is in two rows only if two of its callbacks ran at once: nothing
\* but the look-up keeps a second account from being made.
OneAccountPerSubject ==
  \A a, b \in Ids :
    Exists(a) /\ Exists(b) /\ a # b /\ users[a].oidc_sub = users[b].oidc_sub
      => users[a].oidc_sub \in raced \cup {NoSubject}

\* However callbacks collide, a subject is signed in to a row that is linked to
\* it or has its address.  The exceptions are a subject of which the provider
\* tells no address, and one whose row has been given to another subject.
SignedInAsOneself ==
  \A w \in Workers :
    req[w].phase = "entered" =>
      \/ req[w].oidc_sub = req[w].subject
      \/ req[w].email = AddressOf[req[w].subject]
      \/ AddressOf[req[w].subject] = NoAddress
      \/ req[w].subject \in displaced
=============================================================================
