--------------------------- MODULE AccountSessions ---------------------------
(***************************************************************************)
(* Sessions of one user name and their revocation.                         *)
(*                                                                         *)
(* A session is a pair of signed tokens that carry the user name and the   *)
(* token_version of the row at the time; it is accepted as long as the row *)
(* of that name is active and has the same version.  Revoking sessions is  *)
(* adding one to the version that the administrator's request has loaded.  *)
(***************************************************************************)
EXTENDS OrmRow, Integers

CONSTANTS
  Admins,       \* workers that serve administrators
  Clients,      \* workers that serve logins
  Sessions,     \* names for the sessions issued
  Passwords,
  OidcOnly,     \* what a provisioned account has in place of a password's hash
  MaxVersion,   \* bound of token_version
  MaxAccounts   \* bound of the accounts created under the user name

ASSUME BoundsAssumption == MaxVersion \in Nat /\ MaxAccounts \in Nat \ {0}

\* verify_password is false of "oidc-only", which is not a hash.
ASSUME OidcOnlyAssumption == OidcOnly \notin Passwords

VARIABLES
  row,      \* the row of users, if any
  created,  \* accounts created so far
  pending,  \* accounts that hold an mfa_pending token
  issued,   \* sessions
  req,      \* the request that each worker is serving
  dead,     \* history: sessions that were there when a revocation was committed
  lost      \* history: accounts of which a revocation has been committed on a
            \* version other than the one it had loaded

vars == <<row, created, pending, issued, req, dead, lost>>
history == <<dead, lost>>

-----------------------------------------------------------------------------
Versions == 0 .. MaxVersion
Accounts == 1 .. MaxAccounts

Hashes == Passwords \cup {OidcOnly}

Rows == [id : Accounts, hashed_password : Hashes, is_active : BOOLEAN,
         mfa_enabled : BOOLEAN, token_version : Versions]

NoRow == [id |-> 0]

NewRow(id, hash) ==
  [id |-> id, hashed_password |-> hash, is_active |-> TRUE, mfa_enabled |-> FALSE,
   token_version |-> 0]

\* Of a session the version counts; the account it was granted for is history.
NoSession == [token_version |-> -1]
Grants == [token_version : Versions, account : Accounts]

Idle == [phase |-> "idle"]

\* What a request changes: update_user any part of these columns, or none of
\* them when it is about the profile, and admin_reset_mfa the second factor.
Changes ==
  LET given == [hashed_password : Passwords, is_active : BOOLEAN]
  IN {[mfa_enabled |-> FALSE]} \cup
       (UNION {{[c \in D |-> g[c]] : g \in given} :
                 D \in SUBSET {"hashed_password", "is_active"}})

Requests ==
       [phase : {"verified"}, account : Accounts]
  \cup [phase : {"provisioning"}]
  \cup [phase : {"updating"}, loaded : Rows, change : Changes]
  \cup [phase : {"deleting"}, account : Accounts]

TypeOK ==
  /\ row \in Rows \cup {NoRow}
  /\ created \in 0 .. MaxAccounts
  /\ pending \subseteq Accounts
  /\ issued \in [Sessions -> Grants \cup {NoSession}]
  /\ req \in [Admins \cup Clients -> Requests \cup {Idle}]
  /\ dead \subseteq Sessions
  /\ lost \subseteq Accounts

Init ==
  /\ \E p \in Passwords : row = NewRow(1, p)
  /\ created = 1
  /\ pending = {}
  /\ issued = [s \in Sessions |-> NoSession]
  /\ req = [w \in Admins \cup Clients |-> Idle]
  /\ dead = {}
  /\ lost = {}

-----------------------------------------------------------------------------
IsIssued(s) == issued[s] # NoSession

\* Fault: any version up to the current one will do.
Accepts_OlderVersion(s) ==
  /\ IsIssued(s)
  /\ row # NoRow
  /\ row.is_active
  /\ issued[s].token_version <= row.token_version

\* _resolve_user, and refresh: the row is found by the user name.
Accepts(s) ==
  /\ IsIssued(s)
  /\ row # NoRow
  /\ row.is_active
  /\ issued[s].token_version = row.token_version

Issue(grant) ==
  \E s \in Sessions : ~ IsIssued(s) /\ issued' = [issued EXCEPT ![s] = grant]

-----------------------------------------------------------------------------
\* login, up to log_event: the password is verified against the loaded row.
VerifyPassword(w, p) ==
  /\ req[w] = Idle
  /\ row # NoRow
  /\ row.hashed_password = p
  /\ row.is_active
  /\ ~ row.mfa_enabled
  /\ req' = [req EXCEPT ![w] = [phase |-> "verified", account |-> row.id]]
  /\ UNCHANGED <<row, created, pending, issued, history>>

\* login of an account with a second factor: a token that names the account
\* and no version.
GrantMfaToken(p) ==
  /\ row # NoRow
  /\ row.hashed_password = p
  /\ row.is_active
  /\ row.mfa_enabled
  /\ pending' = pending \cup {row.id}
  /\ UNCHANGED <<row, created, issued, req, history>>

\* mfa_verify_login, up to log_event, with the right code.
VerifyCode(w) ==
  /\ req[w] = Idle
  /\ row # NoRow
  /\ row.id \in pending
  /\ row.is_active
  /\ row.mfa_enabled
  /\ req' = [req EXCEPT ![w] = [phase |-> "verified", account |-> row.id]]
  /\ UNCHANGED <<row, created, pending, issued, history>>

\* The exp of create_mfa_token.
ExpireMfaToken(account) ==
  /\ account \in pending
  /\ pending' = pending \ {account}
  /\ UNCHANGED <<row, created, issued, req, history>>

\* oidc_callback, up to log_event, of a subject whose account has the user
\* name: it is found by the subject, or by the address and linked.
VerifySubject(w) ==
  /\ req[w] = Idle
  /\ row # NoRow
  /\ row.is_active
  /\ req' = [req EXCEPT ![w] = [phase |-> "verified", account |-> row.id]]
  /\ UNCHANGED <<row, created, pending, issued, history>>

\* oidc_callback of a subject without account, while the user name that is
\* derived for it is free.
BeginProvision(w) ==
  /\ req[w] = Idle
  /\ row = NoRow
  /\ req' = [req EXCEPT ![w] = [phase |-> "provisioning"]]
  /\ UNCHANGED <<row, created, pending, issued, history>>

\* Its commit.  If the name has been taken, the unique constraint refuses the
\* insertion, and the account that took it is used, disabled or not, provided
\* it has the subject or the address.
CommitProvision(w) ==
  /\ req[w].phase = "provisioning"
  /\ \/ /\ row = NoRow
        /\ created < MaxAccounts
        /\ created' = created + 1
        /\ row' = NewRow(created', OidcOnly)
        /\ req' = [req EXCEPT ![w] = [phase |-> "verified", account |-> created']]
     \/ /\ row # NoRow
        /\ req' = [req EXCEPT ![w] = [phase |-> "verified", account |-> row.id]]
        /\ UNCHANGED <<row, created>>
  /\ UNCHANGED <<pending, issued, history>>

\* login, mfa_verify_login and oidc_callback, after log_event: its commit has
\* expired the row, and the version is read again.  An account deleted in
\* between ends the request.
IssueSession(w) ==
  /\ req[w].phase = "verified"
  /\ IF row.id = req[w].account
     THEN Issue([token_version |-> row.token_version, account |-> row.id])
     ELSE UNCHANGED issued
  /\ req' = [req EXCEPT ![w] = Idle]
  /\ UNCHANGED <<row, created, pending, history>>

\* refresh: one read decides and gives the version of the new session.
Refresh(s) ==
  /\ Accepts(s)
  /\ Issue([token_version |-> row.token_version, account |-> row.id])
  /\ UNCHANGED <<row, created, pending, req, history>>

-----------------------------------------------------------------------------
\* mfa_confirm and mfa_disable, of which MfaEnrollment has the detail, write
\* one column that counts here.
SetMfa(enabled) ==
  /\ row # NoRow
  /\ row' = [row EXCEPT !.mfa_enabled = enabled]
  /\ UNCHANGED <<created, pending, issued, req, history>>

Revokes(change) ==
  \/ "hashed_password" \in DOMAIN change
  \/ "is_active" \in DOMAIN change /\ ~ change.is_active
  \/ "mfa_enabled" \in DOMAIN change

\* update_user and admin_reset_mfa: the row is loaded, and so is the version that is added to.
LoadForUpdate(w, change) ==
  /\ req[w] = Idle
  /\ row # NoRow
  /\ Revokes(change) => row.token_version < MaxVersion
  /\ req' = [req EXCEPT ![w] = [phase |-> "updating", loaded |-> row,
                                change |-> change]]
  /\ UNCHANGED <<row, created, pending, issued, history>>

\* However much it changes, a request bumps the version once.
Updated(loaded, change) ==
  [c \in DOMAIN loaded |->
     IF c \in DOMAIN change THEN change[c]
     ELSE IF c = "token_version" /\ Revokes(change) THEN loaded[c] + 1
     ELSE loaded[c]]

\* A new password is a new hash, so that its column is always written.
CommitUpdate(w) ==
  LET r == req[w]
      new == Updated(r.loaded, r.change)
      columns == Changed(r.loaded, new) \cup
                   ({"hashed_password"} \cap DOMAIN r.change)
  IN /\ r.phase = "updating"
     /\ row.id = r.loaded.id
     /\ row' = Flush(row, new, columns)
     /\ dead' = dead \cup {s \in Sessions : IsIssued(s) /\ Revokes(r.change)}
     /\ lost' = lost \cup {id \in {row.id} : Revokes(r.change)
                             /\ row.token_version # r.loaded.token_version}
     /\ req' = [req EXCEPT ![w] = Idle]
     /\ UNCHANGED <<created, pending, issued>>

\* delete_user
LoadForDelete(w) ==
  /\ req[w] = Idle
  /\ row # NoRow
  /\ req' = [req EXCEPT ![w] = [phase |-> "deleting", account |-> row.id]]
  /\ UNCHANGED <<row, created, pending, issued, history>>

\* An mfa_pending token of an account that is gone opens nothing.
CommitDelete(w) ==
  /\ req[w].phase = "deleting"
  /\ row' = IF row.id = req[w].account THEN NoRow ELSE row
  /\ pending' = pending \ {req[w].account}
  /\ req' = [req EXCEPT ![w] = Idle]
  /\ UNCHANGED <<created, issued, history>>

\* create_user: the name is free, and so the unique constraint agrees.
CreateUser(p) ==
  /\ row = NoRow
  /\ created < MaxAccounts
  /\ created' = created + 1
  /\ row' = NewRow(created', p)
  /\ UNCHANGED <<pending, issued, req, history>>

\* A refused commit, a closed connection or a killed process.
Abandon(w) ==
  /\ req[w] # Idle
  /\ req' = [req EXCEPT ![w] = Idle]
  /\ UNCHANGED <<row, created, pending, issued, history>>

Next ==
  \/ \E w \in Clients :
       \/ \E p \in Passwords : VerifyPassword(w, p)
       \/ VerifyCode(w)
       \/ VerifySubject(w)
       \/ BeginProvision(w)
       \/ CommitProvision(w)
       \/ IssueSession(w)
  \/ \E p \in Passwords : GrantMfaToken(p)
  \/ \E account \in Accounts : ExpireMfaToken(account)
  \/ \E enabled \in BOOLEAN : SetMfa(enabled)
  \/ \E s \in Sessions : Refresh(s)
  \/ \E w \in Admins :
       \/ \E change \in Changes : LoadForUpdate(w, change)
       \/ CommitUpdate(w)
       \/ LoadForDelete(w)
       \/ CommitDelete(w)
  \/ \E p \in Passwords : CreateUser(p)
  \/ \E w \in Admins \cup Clients : Abandon(w)

Spec == Init /\ [][Next]_vars

-----------------------------------------------------------------------------
(***************************************************************************)
(* Properties                                                              *)
(***************************************************************************)

\* auth.py, _resolve_user: once token_version is bumped all prior tokens are
\* rejected, and stay rejected, with two exceptions: two administrators who
\* bumped the same version, and another account under the same user name.
BumpedSessionsRefused ==
  \A s \in dead :
    row # NoRow /\ issued[s].account = row.id /\ row.id \notin lost => ~ Accepts(s)

(***************************************************************************)
(* The inductive invariant behind it.                                      *)
(***************************************************************************)

\* A session of the account that has the user name now, whose version has only
\* been raised so far.
IsCurrent(s) ==
  /\ IsIssued(s)
  /\ row # NoRow
  /\ issued[s].account = row.id
  /\ row.id \notin lost

\* A bump that is pending has room for the new version.
PendingBumpsFit ==
  \A w \in Admins \cup Clients :
    req[w].phase = "updating" /\ Revokes(req[w].change) =>
      req[w].loaded.token_version < MaxVersion

\* Accounts are numbered as they are created.
AccountsAreCreated ==
  /\ row # NoRow => row.id <= created
  /\ \A s \in Sessions : IsIssued(s) => issued[s].account <= created

\* What every step preserves: no session is ahead of the version of its
\* account, and a dead one is behind it.
SessionsInv ==
  /\ PendingBumpsFit
  /\ AccountsAreCreated
  /\ \A s \in dead : IsIssued(s)
  /\ \A s \in Sessions : IsCurrent(s) => issued[s].token_version <= row.token_version
  /\ \A s \in dead : IsCurrent(s) => issued[s].token_version < row.token_version
=============================================================================
