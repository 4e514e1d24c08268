------------------------ MODULE AccountSessionsProofs ------------------------
(***************************************************************************)
(* Proofs about AccountSessions, for any numbers of administrators,        *)
(* logins, sessions, passwords, versions and accounts.                     *)
(***************************************************************************)
EXTENDS AccountSessions, TLAPS

-----------------------------------------------------------------------------
(***************************************************************************)
(* What one update does to a row                                           *)
(***************************************************************************)

\* The columns that CommitUpdate writes.
Columns(loaded, change) ==
  Changed(loaded, Updated(loaded, change)) \cup
    ({"hashed_password"} \cap DOMAIN change)

\* What a request may assign, column by column.
LEMMA GivenColumns ==
  ASSUME NEW change \in Changes
  PROVE  /\ DOMAIN change \subseteq {"hashed_password", "is_active", "mfa_enabled"}
         /\ "hashed_password" \in DOMAIN change => change["hashed_password"] \in Passwords
         /\ "is_active" \in DOMAIN change => change["is_active"] \in BOOLEAN
         /\ "mfa_enabled" \in DOMAIN change => change["mfa_enabled"] \in BOOLEAN
<1>1. CASE change = [mfa_enabled |-> FALSE]
  BY <1>1
<1>2. CASE \E D \in SUBSET {"hashed_password", "is_active"} :
             \E g \in [hashed_password : Passwords, is_active : BOOLEAN] :
               change = [c \in D |-> g[c]]
  BY <1>2
<1> QED
  BY <1>1, <1>2 DEF Changes

\* What Updated leaves in each column.
LEMMA UpdatedColumns ==
  ASSUME NEW loaded \in Rows, NEW change \in Changes
  PROVE  LET u == Updated(loaded, change)
         IN /\ DOMAIN u = {"id", "hashed_password", "is_active", "mfa_enabled", "token_version"}
            /\ u.id = loaded.id
            /\ u.hashed_password \in Hashes
            /\ u.is_active \in BOOLEAN /\ u.mfa_enabled \in BOOLEAN
            /\ u.token_version =
                 IF Revokes(change) THEN loaded.token_version + 1 ELSE loaded.token_version
<1>1. DOMAIN loaded = {"id", "hashed_password", "is_active", "mfa_enabled", "token_version"}
  BY DEF Rows
<1>2. loaded.hashed_password \in Hashes /\ loaded.is_active \in BOOLEAN
        /\ loaded.mfa_enabled \in BOOLEAN
  BY DEF Rows
<1> QED
  BY <1>1, <1>2, GivenColumns DEF Updated, Hashes

\* What update_user assigns fits the columns, when a bump has room.
LEMMA UpdatedIsRow ==
  ASSUME NEW loaded \in Rows, NEW change \in Changes,
         Revokes(change) => loaded.token_version < MaxVersion
  PROVE  Updated(loaded, change) \in Rows
<1> DEFINE u == Updated(loaded, change)
<1>1. u = [id |-> u.id, hashed_password |-> u.hashed_password,
           is_active |-> u.is_active, mfa_enabled |-> u.mfa_enabled,
           token_version |-> u.token_version]
  <2>1. DOMAIN u = {"id", "hashed_password", "is_active", "mfa_enabled", "token_version"}
    BY UpdatedColumns
  <2>2. u = [c \in DOMAIN u |-> u[c]]
    BY DEF Updated
  <2> HIDE DEF u
  <2> QED
    BY <2>1, <2>2
<1>2. u.id \in Accounts
  BY UpdatedColumns DEF Rows
<1>3. u.hashed_password \in Hashes /\ u.is_active \in BOOLEAN /\ u.mfa_enabled \in BOOLEAN
  BY UpdatedColumns
<1>4. u.token_version \in Versions
  <2>1. loaded.token_version \in Versions
    BY DEF Rows
  <2>2. u.token_version =
          IF Revokes(change) THEN loaded.token_version + 1 ELSE loaded.token_version
    BY UpdatedColumns
  <2> QED
    BY <2>1, <2>2, BoundsAssumption DEF Versions
<1> HIDE DEF u
<1>5. u \in Rows
  BY <1>1, <1>2, <1>3, <1>4 DEF Rows
<1> QED
  BY <1>5 DEF u

\* An UPDATE leaves the key alone, writes the bumped version, and writes no
\* version when nothing is revoked.
LEMMA FlushedRow ==
  ASSUME NEW r \in Rows, NEW loaded \in Rows, NEW change \in Changes,
         Revokes(change) => loaded.token_version < MaxVersion,
         NEW new, new = Flush(r, Updated(loaded, change), Columns(loaded, change))
  PROVE  /\ new \in Rows
         /\ new.id = r.id
         /\ Revokes(change) => new.token_version = loaded.token_version + 1
         /\ ~ Revokes(change) => new.token_version = r.token_version
<1> DEFINE u == Updated(loaded, change)
<1>1. u \in Rows
  BY UpdatedIsRow
<1>2. u.id = loaded.id
  BY UpdatedColumns
<1>3. Revokes(change) => u.token_version = loaded.token_version + 1
  BY UpdatedColumns
<1>4. ~ Revokes(change) => u.token_version = loaded.token_version
  BY UpdatedColumns
<1>5. /\ DOMAIN r = {"id", "hashed_password", "is_active", "mfa_enabled", "token_version"}
      /\ DOMAIN u = {"id", "hashed_password", "is_active", "mfa_enabled", "token_version"}
  BY <1>1 DEF Rows
<1> HIDE DEF u
<1>6. new = [c \in {"id", "hashed_password", "is_active", "mfa_enabled", "token_version"} |->
               IF c \in Columns(loaded, change) THEN u[c] ELSE r[c]]
  BY <1>5 DEF Flush, u
<1>7. /\ "id" \notin Columns(loaded, change)
      /\ Revokes(change) => "token_version" \in Columns(loaded, change)
      /\ ~ Revokes(change) => "token_version" \notin Columns(loaded, change)
  <2>1. loaded.token_version \in Nat
    BY BoundsAssumption DEF Rows, Versions
  <2> QED
    BY <1>2, <1>3, <1>4, <1>5, <2>1 DEF Columns, Changed, u
<1>8. new.id = r.id /\ new.hashed_password \in Hashes /\ new.is_active \in BOOLEAN
        /\ new.mfa_enabled \in BOOLEAN /\ new.token_version \in Versions
  BY <1>1, <1>6, <1>7 DEF Rows
<1>9. new = [id |-> new.id, hashed_password |-> new.hashed_password,
             is_active |-> new.is_active, mfa_enabled |-> new.mfa_enabled,
             token_version |-> new.token_version]
  BY <1>6
<1>10. new \in Rows
  BY <1>8, <1>9 DEF Rows
<1> QED
  BY <1>3, <1>6, <1>7, <1>8, <1>10

\* What a request that is in the middle of an update carries.
LEMMA UpdatingRequest ==
  ASSUME TypeOK, NEW w \in Admins \cup Clients, req[w].phase = "updating"
  PROVE  req[w].loaded \in Rows /\ req[w].change \in Changes
BY DEF TypeOK, Requests, Idle

\* What CommitUpdate leaves in the row.
LEMMA CommittedRow ==
  ASSUME TypeOK, PendingBumpsFit, NEW w \in Admins \cup Clients, CommitUpdate(w)
  PROVE  /\ row \in Rows /\ row' \in Rows
         /\ row'.id = row.id
         /\ Revokes(req[w].change) => row'.token_version = req[w].loaded.token_version + 1
         /\ ~ Revokes(req[w].change) => row'.token_version = row.token_version
<1>1. req[w].phase = "updating" /\ row.id = req[w].loaded.id
  BY DEF CommitUpdate
<1>2. req[w].loaded \in Rows /\ req[w].change \in Changes
  BY <1>1, UpdatingRequest
<1>3. row \in Rows
  BY <1>1, <1>2 DEF TypeOK, NoRow, Rows, Accounts
<1>4. Revokes(req[w].change) => req[w].loaded.token_version < MaxVersion
  BY <1>1 DEF PendingBumpsFit
<1>5. row' = Flush(row, Updated(req[w].loaded, req[w].change),
                   Columns(req[w].loaded, req[w].change))
  BY DEF CommitUpdate, Columns
<1>6. \A r, loaded \in Rows, change \in Changes :
        (Revokes(change) => loaded.token_version < MaxVersion) =>
          LET new == Flush(r, Updated(loaded, change), Columns(loaded, change))
          IN /\ new \in Rows
             /\ new.id = r.id
             /\ Revokes(change) => new.token_version = loaded.token_version + 1
             /\ ~ Revokes(change) => new.token_version = r.token_version
  BY FlushedRow
<1> QED
  BY <1>2, <1>3, <1>4, <1>5, <1>6

-----------------------------------------------------------------------------
(***************************************************************************)
(* Type correctness                                                        *)
(***************************************************************************)
LEMMA InitTypeOK == Init => TypeOK
BY BoundsAssumption
   DEF Init, TypeOK, NewRow, Rows, Hashes, Versions, Accounts

\* PendingBumpsFit is needed where a bump is written.
LEMMA StepTypeOK ==
  ASSUME TypeOK, PendingBumpsFit, Next
  PROVE  TypeOK'
<1> USE DEF TypeOK, history
<1>1. ASSUME NEW w \in Clients, NEW p \in Passwords, VerifyPassword(w, p)
      PROVE  TypeOK'
  <2>1. row.id \in Accounts
    BY <1>1 DEF VerifyPassword, Rows
  <2>2. [phase |-> "verified", account |-> row.id] \in Requests
    BY <2>1 DEF Requests
  <2> QED
    BY <1>1, <2>2 DEF VerifyPassword
<1>2. ASSUME NEW w \in Clients, IssueSession(w)
      PROVE  TypeOK'
  <2>1. req[w].account \in Accounts
    BY <1>2 DEF IssueSession, Requests, Idle
  <2>2. issued' \in [Sessions -> Grants \cup {NoSession}]
    <3>1. CASE row.id = req[w].account
      <4>1. row \in Rows
        BY <2>1, <3>1 DEF NoRow, Accounts, Rows
      <4>2. [token_version |-> row.token_version, account |-> row.id] \in Grants
        BY <4>1 DEF Grants, Rows
      <4> QED
        BY <1>2, <3>1, <4>2 DEF IssueSession, Issue
    <3>2. CASE row.id # req[w].account
      BY <1>2, <3>2 DEF IssueSession
    <3> QED
      BY <3>1, <3>2
  <2> QED
    BY <1>2, <2>2 DEF IssueSession
<1>3. ASSUME NEW s \in Sessions, Refresh(s)
      PROVE  TypeOK'
  <2>1. row \in Rows
    BY <1>3 DEF Refresh, Accepts
  <2>2. [token_version |-> row.token_version, account |-> row.id] \in Grants
    BY <2>1 DEF Grants, Rows
  <2>3. issued' \in [Sessions -> Grants \cup {NoSession}]
    BY <1>3, <2>2 DEF Refresh, Issue
  <2> QED
    BY <1>3, <2>3 DEF Refresh
<1>4. ASSUME NEW w \in Admins, NEW change \in Changes, LoadForUpdate(w, change)
      PROVE  TypeOK'
  <2>1. [phase |-> "updating", loaded |-> row, change |-> change] \in Requests
    BY <1>4 DEF LoadForUpdate, Requests
  <2> QED
    BY <1>4, <2>1 DEF LoadForUpdate
<1>5. ASSUME NEW w \in Admins, CommitUpdate(w)
      PROVE  TypeOK'
  <2>1. row \in Rows /\ row' \in Rows
    BY <1>5, CommittedRow
  <2>2. lost' \subseteq Accounts
    BY <1>5, <2>1 DEF CommitUpdate, Rows
  <2> QED
    BY <1>5, <2>1, <2>2 DEF CommitUpdate
<1>6. ASSUME NEW w \in Admins, LoadForDelete(w)
      PROVE  TypeOK'
  <2>1. [phase |-> "deleting", account |-> row.id] \in Requests
    BY <1>6 DEF LoadForDelete, Requests, Rows
  <2> QED
    BY <1>6, <2>1 DEF LoadForDelete
<1>7. ASSUME NEW w \in Admins, CommitDelete(w)
      PROVE  TypeOK'
  BY <1>7 DEF CommitDelete
<1>8. ASSUME NEW p \in Passwords, CreateUser(p)
      PROVE  TypeOK'
  <2>1. created' \in Accounts
    BY <1>8, BoundsAssumption DEF CreateUser, Accounts
  <2>2. NewRow(created', p) \in Rows
    BY <2>1, BoundsAssumption DEF NewRow, Rows, Hashes, Versions
  <2> QED
    BY <1>8, <2>1, <2>2, BoundsAssumption DEF CreateUser, Accounts
<1>9. ASSUME NEW w \in Admins \cup Clients, Abandon(w)
      PROVE  TypeOK'
  BY <1>9 DEF Abandon
<1>10. ASSUME NEW w \in Clients, VerifyCode(w) \/ VerifySubject(w)
       PROVE  TypeOK'
  <2>1. [phase |-> "verified", account |-> row.id] \in Requests
    BY <1>10 DEF VerifyCode, VerifySubject, Rows, Requests
  <2> QED
    BY <1>10, <2>1 DEF VerifyCode, VerifySubject
<1>11. ASSUME NEW w \in Clients, BeginProvision(w)
       PROVE  TypeOK'
  <2>1. [phase |-> "provisioning"] \in Requests
    BY DEF Requests
  <2> QED
    BY <1>11, <2>1 DEF BeginProvision
<1>12. ASSUME NEW w \in Clients, CommitProvision(w)
       PROVE  TypeOK'
  <2>1. CASE row = NoRow /\ created < MaxAccounts /\ created' = created + 1
               /\ row' = NewRow(created', OidcOnly)
               /\ req' = [req EXCEPT ![w] = [phase |-> "verified", account |-> created']]
    <3>1. created' \in Accounts /\ created' \in 0 .. MaxAccounts
      BY <2>1, BoundsAssumption DEF Accounts
    <3>2. NewRow(created', OidcOnly) \in Rows
      BY <3>1, BoundsAssumption DEF NewRow, Rows, Hashes, Versions
    <3>3. [phase |-> "verified", account |-> created'] \in Requests
      BY <3>1 DEF Requests
    <3> QED
      BY <1>12, <2>1, <3>1, <3>2, <3>3 DEF CommitProvision
  <2>2. CASE row # NoRow /\ UNCHANGED <<row, created>>
               /\ req' = [req EXCEPT ![w] = [phase |-> "verified", account |-> row.id]]
    <3>1. [phase |-> "verified", account |-> row.id] \in Requests
      BY <2>2 DEF Rows, Requests
    <3> QED
      BY <1>12, <2>2, <3>1 DEF CommitProvision
  <2> QED
    BY <1>12, <2>1, <2>2 DEF CommitProvision
<1>13. ASSUME NEW p \in Passwords, GrantMfaToken(p)
       PROVE  TypeOK'
  <2>1. row.id \in Accounts
    BY <1>13 DEF GrantMfaToken, Rows
  <2> QED
    BY <1>13, <2>1 DEF GrantMfaToken
<1>14. ASSUME NEW account \in Accounts, ExpireMfaToken(account)
       PROVE  TypeOK'
  BY <1>14 DEF ExpireMfaToken
<1>15. ASSUME NEW enabled \in BOOLEAN, SetMfa(enabled)
       PROVE  TypeOK'
  <2>1. row \in Rows /\ row' = [row EXCEPT !.mfa_enabled = enabled]
    BY <1>15 DEF SetMfa
  <2>2. row' \in Rows
    BY <2>1 DEF Rows
  <2> QED
    BY <1>15, <2>2 DEF SetMfa
<1> QED
  BY <1>1, <1>2, <1>3, <1>4, <1>5, <1>6, <1>7, <1>8, <1>9, <1>10, <1>11, <1>12,
     <1>13, <1>14, <1>15 DEF Next

-----------------------------------------------------------------------------
(***************************************************************************)
(* The invariant of the sessions                                           *)
(***************************************************************************)
LEMMA InitSessionsInv == Init => SessionsInv
BY BoundsAssumption
   DEF Init, SessionsInv, PendingBumpsFit, AccountsAreCreated, IsIssued, IsCurrent,
       NewRow, Idle

\* A new session that has the version of its account, which exists, keeps the
\* invariant.
LEMMA IssueKeepsInv ==
  ASSUME TypeOK, SessionsInv, row # NoRow,
         NEW grant \in Grants, grant.token_version = row.token_version,
         grant.account = row.id, Issue(grant),
         UNCHANGED <<row, created, history>>,
         PendingBumpsFit'
  PROVE  SessionsInv'
<1>1. PICK n \in Sessions : ~ IsIssued(n) /\ issued' = [issued EXCEPT ![n] = grant]
  BY DEF Issue
<1>2. \A s \in Sessions : s # n => issued'[s] = issued[s]
  BY <1>1 DEF TypeOK
<1>3. issued'[n] = grant /\ n \notin dead
  BY <1>1 DEF TypeOK, SessionsInv
<1>4. row.id <= created /\ row.token_version \in Int
  BY BoundsAssumption DEF TypeOK, SessionsInv, AccountsAreCreated, Rows, Versions
<1>5. AccountsAreCreated'
  BY <1>2, <1>3, <1>4 DEF SessionsInv, AccountsAreCreated, IsIssued
<1>6. (\A s \in dead : IsIssued(s))'
  BY <1>2, <1>3 DEF SessionsInv, IsIssued, history, TypeOK
<1>7. (\A s \in Sessions : IsCurrent(s) => issued[s].token_version <= row.token_version)'
  BY <1>2, <1>3, <1>4 DEF SessionsInv, IsIssued, IsCurrent, history
<1>8. (\A s \in dead : IsCurrent(s) => issued[s].token_version < row.token_version)'
  BY <1>2, <1>3 DEF SessionsInv, IsIssued, IsCurrent, history, TypeOK
<1> QED
  BY <1>5, <1>6, <1>7, <1>8 DEF SessionsInv

\* A step that changes requests only keeps the invariant if the bumps fit.
LEMMA RequestsKeepInv ==
  ASSUME SessionsInv, UNCHANGED <<row, created, issued, history>>, PendingBumpsFit'
  PROVE  SessionsInv'
BY DEF SessionsInv, AccountsAreCreated, IsIssued, IsCurrent, history

\* Any request but an update that bumps leaves the bumps that are pending.
LEMMA BumpsStillFit ==
  ASSUME TypeOK, PendingBumpsFit, NEW w \in Admins \cup Clients, NEW r,
         req' = [req EXCEPT ![w] = r],
         r.phase = "updating" /\ Revokes(r.change) =>
           r.loaded.token_version < MaxVersion
  PROVE  PendingBumpsFit'
BY DEF TypeOK, PendingBumpsFit

\* No session has been granted for an account that is new.
LEMMA CreationKeepsInv ==
  ASSUME TypeOK, SessionsInv, created' = created + 1, row'.id = created',
         UNCHANGED <<issued, history>>, PendingBumpsFit'
  PROVE  SessionsInv'
<1>1. created \in Nat
  BY BoundsAssumption DEF TypeOK
<1>2. \A s \in Sessions : IsIssued(s) => issued[s].account \in Nat
                                        /\ issued[s].account <= created
  BY BoundsAssumption DEF TypeOK, SessionsInv, AccountsAreCreated, IsIssued, Grants,
     Accounts
<1>3. \A s \in Sessions : ~ IsCurrent(s)'
  BY <1>1, <1>2 DEF IsCurrent, IsIssued
<1>4. AccountsAreCreated'
  BY <1>1, <1>2 DEF AccountsAreCreated, IsIssued
<1>5. (\A s \in dead : IsIssued(s))' /\ dead' \subseteq Sessions
  BY DEF SessionsInv, IsIssued, history, TypeOK
<1> QED
  BY <1>3, <1>4, <1>5 DEF SessionsInv

LEMMA StepSessionsInv ==
  ASSUME TypeOK, SessionsInv, Next
  PROVE  SessionsInv'
<1>0. PendingBumpsFit
  BY DEF SessionsInv
<1>1. ASSUME NEW w \in Clients, NEW p \in Passwords, VerifyPassword(w, p)
      PROVE  SessionsInv'
  <2>1. PendingBumpsFit'
    BY <1>0, <1>1, BumpsStillFit DEF VerifyPassword
  <2> QED
    BY <1>1, <2>1, RequestsKeepInv DEF VerifyPassword
<1>2. ASSUME NEW w \in Clients, IssueSession(w)
      PROVE  SessionsInv'
  <2>1. PendingBumpsFit'
    BY <1>0, <1>2, BumpsStillFit DEF IssueSession, Idle
  <2>2. req[w].account \in Accounts
    BY <1>2 DEF IssueSession, TypeOK, Requests, Idle
  <2>3. CASE row.id = req[w].account
    <3>1. row # NoRow /\ row \in Rows
      BY <2>2, <2>3 DEF TypeOK, NoRow, Accounts
    <3> DEFINE grant == [token_version |-> row.token_version, account |-> row.id]
    <3>2. grant \in Grants
      BY <2>2, <3>1 DEF Grants, Rows
    <3>3. Issue(grant) /\ UNCHANGED <<row, created, history>>
      BY <1>2, <2>3 DEF IssueSession
    <3>4. grant.token_version = row.token_version /\ grant.account = row.id
      OBVIOUS
    <3> HIDE DEF grant
    <3> QED
      BY <2>1, <3>1, <3>2, <3>3, <3>4, IssueKeepsInv
  <2>4. CASE row.id # req[w].account
    BY <1>2, <2>1, <2>4, RequestsKeepInv DEF IssueSession
  <2> QED
    BY <2>3, <2>4
<1>3. ASSUME NEW s \in Sessions, Refresh(s)
      PROVE  SessionsInv'
  <2>1. row # NoRow /\ row \in Rows
    BY <1>3 DEF Refresh, Accepts, TypeOK
  <2> DEFINE grant == [token_version |-> row.token_version, account |-> row.id]
  <2>2. grant \in Grants /\ grant.token_version = row.token_version
          /\ grant.account = row.id
    BY <2>1 DEF Grants, Rows
  <2>3. Issue(grant) /\ UNCHANGED <<row, created, history>> /\ req' = req
    BY <1>3 DEF Refresh
  <2>4. PendingBumpsFit'
    BY <1>0, <2>3 DEF PendingBumpsFit
  <2> HIDE DEF grant
  <2> QED
    BY <2>1, <2>2, <2>3, <2>4, IssueKeepsInv
<1>4. ASSUME NEW w \in Admins, NEW change \in Changes, LoadForUpdate(w, change)
      PROVE  SessionsInv'
  <2>1. PendingBumpsFit'
    BY <1>0, <1>4, BumpsStillFit DEF LoadForUpdate
  <2> QED
    BY <1>4, <2>1, RequestsKeepInv DEF LoadForUpdate
<1>5. ASSUME NEW w \in Admins, CommitUpdate(w)
      PROVE  SessionsInv'
  <2>1. PendingBumpsFit'
    BY <1>0, <1>5, BumpsStillFit DEF CommitUpdate, Idle
  <2>2. /\ row \in Rows /\ row' \in Rows
        /\ row'.id = row.id
        /\ Revokes(req[w].change) => row'.token_version = req[w].loaded.token_version + 1
        /\ ~ Revokes(req[w].change) => row'.token_version = row.token_version
    BY <1>0, <1>5, CommittedRow
  <2>3. row # NoRow /\ row' # NoRow
    BY <2>2 DEF Rows, NoRow, Accounts
  <2>4. UNCHANGED <<created, issued>>
    BY <1>5 DEF CommitUpdate
  <2>5. dead' = dead \cup {s \in Sessions : IsIssued(s) /\ Revokes(req[w].change)}
    BY <1>5 DEF CommitUpdate
  <2>6. row.id \notin lost' =>
          /\ row.id \notin lost
          /\ Revokes(req[w].change) => row'.token_version = row.token_version + 1
    BY <1>5, <2>2 DEF CommitUpdate
  <2>7. row.token_version \in Int
    BY <2>2, BoundsAssumption DEF Rows, Versions
  <2>8. \A s \in Sessions : IsIssued(s) => issued[s].token_version \in Int
    BY BoundsAssumption DEF TypeOK, IsIssued, Grants, Versions
  <2>9. \A s \in Sessions : IsCurrent(s)' =>
          /\ IsCurrent(s)
          /\ Revokes(req[w].change) => row'.token_version = row.token_version + 1
    BY <2>2, <2>3, <2>4, <2>6 DEF IsCurrent, IsIssued
  <2>10. AccountsAreCreated'
    BY <2>2, <2>3, <2>4 DEF SessionsInv, AccountsAreCreated, IsIssued
  <2>11. (\A s \in dead : IsIssued(s))'
    BY <2>4, <2>5 DEF SessionsInv, IsIssued
  <2>12. ASSUME NEW s \in Sessions, IsCurrent(s)'
         PROVE  issued'[s].token_version <= row'.token_version
    BY <2>2, <2>4, <2>7, <2>8, <2>9, <2>12 DEF SessionsInv, IsCurrent
  <2>13. ASSUME NEW s \in dead', IsCurrent(s)'
         PROVE  issued'[s].token_version < row'.token_version
    <3>1. s \in Sessions
      BY <2>5 DEF TypeOK
    <3>2. IsCurrent(s) /\ issued[s].token_version <= row.token_version
      BY <2>9, <2>13, <3>1 DEF SessionsInv
    <3>3. CASE Revokes(req[w].change)
      BY <2>4, <2>7, <2>8, <2>9, <2>13, <3>1, <3>2, <3>3 DEF IsCurrent
    <3>4. CASE ~ Revokes(req[w].change)
      BY <2>2, <2>4, <2>5, <3>2, <3>4 DEF SessionsInv
    <3> QED
      BY <3>3, <3>4
  <2> QED
    BY <2>1, <2>10, <2>11, <2>12, <2>13 DEF SessionsInv
<1>6. ASSUME NEW w \in Admins, LoadForDelete(w)
      PROVE  SessionsInv'
  <2>1. PendingBumpsFit'
    BY <1>0, <1>6, BumpsStillFit DEF LoadForDelete
  <2> QED
    BY <1>6, <2>1, RequestsKeepInv DEF LoadForDelete
<1>7. ASSUME NEW w \in Admins, CommitDelete(w)
      PROVE  SessionsInv'
  <2>1. PendingBumpsFit'
    BY <1>0, <1>7, BumpsStillFit DEF CommitDelete, Idle
  <2>2. row' = NoRow \/ row' = row
    BY <1>7 DEF CommitDelete
  <2>3. UNCHANGED <<created, issued, history>>
    BY <1>7 DEF CommitDelete
  <2> QED
    BY <2>1, <2>2, <2>3 DEF SessionsInv, AccountsAreCreated, IsIssued, IsCurrent, history
<1>8. ASSUME NEW p \in Passwords, CreateUser(p)
      PROVE  SessionsInv'
  <2>1. PendingBumpsFit'
    BY <1>0, <1>8 DEF CreateUser, PendingBumpsFit
  <2> QED
    BY <1>8, <2>1, CreationKeepsInv DEF CreateUser, NewRow
<1>9. ASSUME NEW w \in Admins \cup Clients, Abandon(w)
      PROVE  SessionsInv'
  <2>1. PendingBumpsFit'
    BY <1>0, <1>9, BumpsStillFit DEF Abandon, Idle
  <2> QED
    BY <1>9, <2>1, RequestsKeepInv DEF Abandon
<1>10. ASSUME NEW w \in Clients, VerifyCode(w) \/ VerifySubject(w) \/ BeginProvision(w)
       PROVE  SessionsInv'
  <2>1. PendingBumpsFit'
    BY <1>0, <1>10, BumpsStillFit DEF VerifyCode, VerifySubject, BeginProvision
  <2> QED
    BY <1>10, <2>1, RequestsKeepInv DEF VerifyCode, VerifySubject, BeginProvision
<1>11. ASSUME NEW w \in Clients, CommitProvision(w)
       PROVE  SessionsInv'
  <2>1. PendingBumpsFit'
    BY <1>0, <1>11, BumpsStillFit DEF CommitProvision
  <2>2. UNCHANGED <<issued, history>>
    BY <1>11 DEF CommitProvision
  <2>3. CASE created' = created + 1 /\ row' = NewRow(created', OidcOnly)
    BY <2>1, <2>2, <2>3, CreationKeepsInv DEF NewRow
  <2>4. CASE UNCHANGED <<row, created>>
    BY <2>1, <2>2, <2>4, RequestsKeepInv
  <2> QED
    BY <1>11, <2>3, <2>4 DEF CommitProvision
<1>12. ASSUME NEW p \in Passwords, GrantMfaToken(p)
       PROVE  SessionsInv'
  <2>1. PendingBumpsFit'
    BY <1>0, <1>12 DEF GrantMfaToken, PendingBumpsFit
  <2> QED
    BY <1>12, <2>1, RequestsKeepInv DEF GrantMfaToken
<1>13. ASSUME NEW enabled \in BOOLEAN, SetMfa(enabled)
       PROVE  SessionsInv'
  <2>1. row # NoRow /\ row \in Rows /\ row' = [row EXCEPT !.mfa_enabled = enabled]
    BY <1>13 DEF SetMfa, TypeOK
  <2>2. row' # NoRow /\ row'.id = row.id /\ row'.token_version = row.token_version
    BY <2>1 DEF Rows, NoRow
  <2>3. UNCHANGED <<created, issued, history>> /\ req' = req
    BY <1>13 DEF SetMfa
  <2>4. PendingBumpsFit'
    BY <1>0, <2>3 DEF PendingBumpsFit
  <2> QED
    BY <2>1, <2>2, <2>3, <2>4
    DEF SessionsInv, AccountsAreCreated, IsIssued, IsCurrent, history
<1>14. ASSUME NEW account \in Accounts, ExpireMfaToken(account)
       PROVE  SessionsInv'
  <2>1. PendingBumpsFit'
    BY <1>0, <1>14 DEF ExpireMfaToken, PendingBumpsFit
  <2> QED
    BY <1>14, <2>1, RequestsKeepInv DEF ExpireMfaToken
<1> QED
  BY <1>1, <1>2, <1>3, <1>4, <1>5, <1>6, <1>7, <1>8, <1>9, <1>10, <1>11, <1>12,
     <1>13, <1>14 DEF Next

-----------------------------------------------------------------------------
(***************************************************************************)
(* The theorems                                                            *)
(***************************************************************************)

\* No session is ahead of the version of its account, and a dead one is
\* behind it.
THEOREM SessionsInvariant == Spec => [](TypeOK /\ SessionsInv)
<1>1. Init => TypeOK /\ SessionsInv
  BY InitTypeOK, InitSessionsInv
<1>2. TypeOK /\ SessionsInv /\ [Next]_vars => (TypeOK /\ SessionsInv)'
  <2> SUFFICES ASSUME TypeOK, SessionsInv, [Next]_vars
               PROVE  TypeOK' /\ SessionsInv'
    OBVIOUS
  <2>1. CASE Next
    BY <2>1, StepTypeOK, StepSessionsInv DEF SessionsInv
  <2>2. CASE UNCHANGED vars
    BY <2>2 DEF vars, TypeOK, SessionsInv, PendingBumpsFit, AccountsAreCreated,
       IsIssued, IsCurrent
  <2> QED
    BY <2>1, <2>2
<1> QED
  BY <1>1, <1>2, PTL DEF Spec

\* The columns, the requests and the sessions keep their types.
THEOREM TypeCorrect == Spec => []TypeOK
BY SessionsInvariant, PTL

\* auth.py, _resolve_user: a session that was there when token_version was
\* bumped is refused ever after, unless two bumps of one version raced or the
\* user name has gone to another account.
THEOREM RevocationHolds == Spec => []BumpedSessionsRefused
<1>1. TypeOK /\ SessionsInv => BumpedSessionsRefused
  <2> SUFFICES ASSUME TypeOK, SessionsInv, NEW s \in dead,
                      row # NoRow, issued[s].account = row.id, row.id \notin lost
               PROVE  ~ Accepts(s)
    BY DEF BumpedSessionsRefused
  <2>1. IsCurrent(s)
    BY DEF SessionsInv, IsCurrent
  <2>2. row.token_version \in Int /\ issued[s].token_version < row.token_version
    BY <2>1, BoundsAssumption DEF SessionsInv, TypeOK, Rows, Versions
  <2> QED
    BY <2>2 DEF Accepts
<1> QED
  BY <1>1, SessionsInvariant, PTL
=============================================================================
