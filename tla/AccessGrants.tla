---------------------------- MODULE AccessGrants ----------------------------
(***************************************************************************)
(* Secrets handed out for later use: auditor shares, which open one        *)
(* assessment to somebody without an account, API tokens, which stand for  *)
(* the user who created them, and invitations, which let a new user choose *)
(* a password.                                                             *)
(*                                                                         *)
(* Each is a row found by the hash of the secret.  A request loads the     *)
(* row, looks at its flag and its expiry, and commits a note of the visit, *)
(* and only then does what it came for; meanwhile the row can be revoked,  *)
(* expire or disappear with its owner.                                     *)
(***************************************************************************)
EXTENDS OrmRow, Integers, FiniteSets

CONSTANTS
  Shares,
  Tokens,
  Invites,
  Workers,    \* threads of all server processes
  Assessment, \* the assessment that the shares open
  Holder,     \* the user who creates the API tokens
  Null,       \* SQL NULL
  MaxNow,     \* bound of the clock
  InviteTime, \* how long an invitation is valid
  MaxGrants,  \* bound of the grants that are given
  MaxUses     \* bound of the visits to a share and of the uses of any grant

Grants == Shares \cup Tokens \cup Invites

ASSUME KindsAssumption ==
  /\ Shares \cap Tokens = {} /\ Shares \cap Invites = {} /\ Tokens \cap Invites = {}
  /\ Assessment \notin Grants /\ Holder \notin Grants /\ Assessment # Holder
ASSUME TimeAssumption == MaxNow \in Nat /\ InviteTime \in Nat /\ Null \notin Nat
ASSUME BoundsAssumption == MaxGrants \in Nat /\ MaxUses \in Nat

VARIABLES
  now,
  owner,   \* the assessment, the holder, and the user that each invitation is for
  grant,   \* rows of auditor_shares, api_tokens and invite_tokens
  uses,    \* comments of a share, requests of a token, acceptances of an invitation
  req,     \* the request that each worker is serving
  visits,  \* history: visits to a share that were committed
  limit    \* history: the uses that a grant could still reach when it was shut,
            \* Null while it is open

vars == <<now, owner, grant, uses, req, visits, limit>>

-----------------------------------------------------------------------------
Times == 0 .. MaxNow

\* used_at, of an invitation, is is_active = FALSE here, and its time is last.
Rows == [is_active : BOOLEAN, expires_at : Times \cup {Null},
         access_count : Nat, last : Times \cup {Null}]

Unissued == [state |-> "unissued"]
Deleted == [state |-> "deleted"]

Owners == {Assessment, Holder} \cup Invites
OwnerOf(g) == IF g \in Shares THEN Assessment ELSE IF g \in Tokens THEN Holder ELSE g

Idle == [phase |-> "idle"]

Requests ==
       [phase : {"loaded"}, grant : Grants, loaded : Rows, at : Times,
        owner : {"absent", "inactive", "active"}]
  \cup [phase : {"resolved"}, grant : Shares \cup Tokens]
  \cup [phase : {"deleting"}, comments : SUBSET (Shares \X (0 .. MaxUses))]

TypeOK ==
  /\ now \in Times
  /\ owner \in [Owners -> {"absent", "inactive", "active"}]
  /\ grant \in [Grants -> Rows \cup {Unissued, Deleted}]
  /\ uses \in [Grants -> 0 .. MaxUses]
  /\ req \in [Workers -> Requests \cup {Idle}]
  /\ visits \in [Shares -> 0 .. MaxUses]
  /\ limit \in [Grants -> Nat \cup {Null}]

Init ==
  /\ now = 0
  /\ owner = [o \in Owners |-> IF o \in Invites THEN "absent" ELSE "active"]
  /\ grant = [g \in Grants |-> Unissued]
  /\ uses = [g \in Grants |-> 0]
  /\ req = [w \in Workers |-> Idle]
  /\ visits = [g \in Shares |-> 0]
  /\ limit = [g \in Grants |-> Null]

-----------------------------------------------------------------------------
CanIssue(g) ==
  /\ grant[g] = Unissued
  /\ Cardinality({h \in Grants : grant[h] # Unissued}) < MaxGrants

Stored(g) == grant[g] \notin {Unissued, Deleted}

\* expires_at < now: the last moment still counts.
Expired(g) == grant[g].expires_at # Null /\ grant[g].expires_at < now

\* A grant that was given and opens nothing any more.
Shut(g) ==
  /\ grant[g] # Unissued
  /\ grant[g] # Deleted => ~ grant[g].is_active \/ Expired(g)

NewRow(expiry) ==
  [is_active |-> TRUE, expires_at |-> expiry, access_count |-> 0, last |-> Null]

\* create_share.  Nothing keeps expires_at from being past.
CreateShare(g) ==
  /\ g \in Shares
  /\ CanIssue(g)
  /\ owner[Assessment] = "active"
  /\ \E expiry \in Times \cup {Null} :
       grant' = [grant EXCEPT ![g] = NewRow(expiry)]
  /\ UNCHANGED <<now, owner, uses, req, visits>>

\* create_token, by the user whom it will stand for.
CreateToken(g) ==
  /\ g \in Tokens
  /\ CanIssue(g)
  /\ owner[Holder] = "active"
  /\ \E expiry \in Times \cup {Null} :
       grant' = [grant EXCEPT ![g] = NewRow(expiry)]
  /\ UNCHANGED <<now, owner, uses, req, visits>>

\* invite_user: the account and its invitation in one transaction.
InviteUser(g) ==
  /\ g \in Invites
  /\ CanIssue(g)
  /\ now + InviteTime <= MaxNow
  /\ grant' = [grant EXCEPT ![g] = NewRow(now + InviteTime)]
  /\ owner' = [owner EXCEPT ![g] = "inactive"]
  /\ UNCHANGED <<now, uses, req, visits>>

-----------------------------------------------------------------------------
\* _resolve_share
ShareOpens(g) == g \in Shares /\ Stored(g) /\ ~ Shut(g)

\* Fault: a revoked token is found as well.
TokenOpens_AnyRow(g) == g \in Tokens /\ Stored(g) /\ ~ Expired(g)

\* _resolve_user: the owner is looked at after the commit.
TokenOpens(g) == g \in Tokens /\ Stored(g) /\ ~ Shut(g)

\* accept_invite
InviteOpens(g) ==
  /\ g \in Invites
  /\ Stored(g)
  /\ ~ Shut(g)
  /\ owner[g] # "absent"

Resolve(w, g) ==
  /\ req[w] = Idle
  /\ ShareOpens(g) \/ TokenOpens(g) \/ InviteOpens(g)
  /\ req' = [req EXCEPT ![w] = [phase |-> "loaded", grant |-> g, at |-> now,
                                loaded |-> grant[g], owner |-> owner[OwnerOf(g)]]]
  /\ UNCHANGED <<now, owner, grant, uses, visits>>

\* Fault: the visit is not counted.
Visited_NotCounted(g, loaded, at) ==
  [loaded EXCEPT !.last = at, !.is_active = @ /\ g \notin Invites]

Visited(g, loaded, at) ==
  [loaded EXCEPT !.last = at,
                 !.access_count = IF g \in Shares THEN @ + 1 ELSE @,
                 !.is_active = @ /\ g \notin Invites]

\* Fault: the row is written as it was loaded, the flag with it.
CommitVisit_WholeRow(w) ==
  LET r == req[w]
      g == r.grant
  IN /\ r.phase = "loaded"
     /\ g \notin Invites
     /\ Stored(g)
     /\ g \in Shares => visits[g] < MaxUses
     /\ grant' = [grant EXCEPT ![g] = Visited(g, r.loaded, r.at)]
     /\ req' = [req EXCEPT ![w] = [phase |-> "resolved", grant |-> g]]
     /\ visits' = [s \in Shares |-> IF s = g THEN visits[s] + 1 ELSE visits[s]]
     /\ UNCHANGED <<now, owner, uses>>

\* The commit of a visit to a share or by a token.  The UPDATE of a row that
\* is gone fails.
CommitVisit(w) ==
  LET r == req[w]
      g == r.grant
      new == Visited(g, r.loaded, r.at)
  IN /\ r.phase = "loaded"
     /\ g \notin Invites
     /\ Stored(g)
     /\ g \in Shares => visits[g] < MaxUses
     /\ grant' = [grant EXCEPT ![g] = Flush(@, new, Changed(r.loaded, new))]
     /\ req' = [req EXCEPT ![w] = [phase |-> "resolved", grant |-> g]]
     /\ visits' = [s \in Shares |-> IF s = g THEN visits[s] + 1 ELSE visits[s]]
     /\ UNCHANGED <<now, owner, uses>>

\* accept_invite: the password, the active flag of the user, if the request
\* has not found it set, and used_at, in one transaction.
CommitAcceptance(w) ==
  LET r == req[w]
      g == r.grant
      new == Visited(g, r.loaded, r.at)
  IN /\ r.phase = "loaded"
     /\ g \in Invites
     /\ Stored(g)
     /\ uses[g] < MaxUses
     /\ grant' = [grant EXCEPT ![g] = Flush(@, new, Changed(r.loaded, new))]
     /\ owner' = [owner EXCEPT ![g] = IF r.owner = "inactive" THEN "active" ELSE @]
     /\ uses' = [uses EXCEPT ![g] = @ + 1]
     /\ req' = [req EXCEPT ![w] = Idle]
     /\ UNCHANGED <<now, visits>>

-----------------------------------------------------------------------------
\* What the visitor came for, after the commit has expired the row.
Use(w) ==
  /\ uses[req[w].grant] < MaxUses
  /\ uses' = [uses EXCEPT ![req[w].grant] = @ + 1]
  /\ req' = [req EXCEPT ![w] = Idle]
  /\ UNCHANGED <<now, owner, grant, visits>>

\* add_external_comment: the comment refers to the share and the assessment.
AddExternalComment(w) ==
  /\ req[w].phase = "resolved"
  /\ req[w].grant \in Shares
  /\ Stored(req[w].grant)
  /\ Use(w)

\* _resolve_user, the last checks: the request runs as the owner of the token.
RunAsHolder(w) ==
  /\ req[w].phase = "resolved"
  /\ req[w].grant \in Tokens
  /\ Stored(req[w].grant)
  /\ owner[Holder] = "active"
  /\ Use(w)

\* auditor_view: the share and the assessment are read again, with all that
\* the share allows to see, and nothing more is written.
ViewAssessment(w) ==
  /\ req[w].phase = "resolved"
  /\ req[w].grant \in Shares
  /\ Stored(req[w].grant)
  /\ owner[Assessment] = "active"
  /\ req' = [req EXCEPT ![w] = Idle]
  /\ UNCHANGED <<now, owner, grant, uses, visits>>

\* A request that is refused, closed or killed.
Finish(w) ==
  /\ req[w] # Idle
  /\ req' = [req EXCEPT ![w] = Idle]
  /\ UNCHANGED <<now, owner, grant, uses, visits>>

-----------------------------------------------------------------------------
\* Whatever the request has loaded, the flag is written.
Revoke(g) ==
  /\ Stored(g)
  /\ grant' = [grant EXCEPT ![g].is_active = FALSE]
  /\ UNCHANGED <<now, owner, uses, req, visits>>

RevokeShare(g) == g \in Shares /\ Revoke(g)

RevokeToken(g) == g \in Tokens /\ Revoke(g)

\* update_user, is_active
SetActive(u, state) ==
  /\ u # Assessment
  /\ owner[u] # "absent"
  /\ owner' = [owner EXCEPT ![u] = state]
  /\ UNCHANGED <<now, grant, uses, req, visits>>

Gone(o) == [g \in Grants |-> IF OwnerOf(g) = o /\ Stored(g) THEN Deleted ELSE grant[g]]

\* delete_user: tokens and invitations go by the foreign keys.
DeleteUser(u) ==
  /\ u # Assessment
  /\ owner[u] # "absent"
  /\ owner' = [owner EXCEPT ![u] = "absent"]
  /\ grant' = Gone(u)
  /\ UNCHANGED <<now, uses, req, visits>>

\* delete_assessment: the ORM deletes the comments and the shares that it has
\* loaded, comments first.
LoadForDelete(w) ==
  /\ req[w] = Idle
  /\ owner[Assessment] # "absent"
  /\ req' = [req EXCEPT ![w] =
       [phase |-> "deleting",
        comments |-> {<<g, uses[g]>> : g \in {s \in Shares : Stored(s)}}]]
  /\ UNCHANGED <<now, owner, grant, uses, visits>>

\* The foreign key from comments to shares refuses the DELETE of a share that
\* has been commented on since.
CommitDelete(w) ==
  /\ req[w].phase = "deleting"
  /\ \A c \in req[w].comments : uses[c[1]] = c[2]
  /\ owner' = [owner EXCEPT ![Assessment] = "absent"]
  /\ grant' = Gone(Assessment)
  /\ req' = [req EXCEPT ![w] = Idle]
  /\ UNCHANGED <<now, uses, visits>>

Tick ==
  /\ now < MaxNow
  /\ now' = now + 1
  /\ UNCHANGED <<owner, grant, uses, req, visits>>

-----------------------------------------------------------------------------
Step ==
  \/ \E g \in Grants :
       \/ CreateShare(g)
       \/ CreateToken(g)
       \/ InviteUser(g)
       \/ RevokeShare(g)
       \/ RevokeToken(g)
  \/ \E w \in Workers :
       \/ \E g \in Grants : Resolve(w, g)
       \/ CommitVisit(w)
       \/ CommitAcceptance(w)
       \/ AddExternalComment(w)
       \/ ViewAssessment(w)
       \/ RunAsHolder(w)
       \/ Finish(w)
       \/ LoadForDelete(w)
       \/ CommitDelete(w)
  \/ \E u \in Owners :
       \/ \E state \in {"active", "inactive"} : SetActive(u, state)
       \/ DeleteUser(u)
  \/ Tick

Serving(g) == {w \in Workers : req[w].phase \in {"loaded", "resolved"} /\ req[w].grant = g}

\* History: what is under way when a grant is shut.
NoteShut ==
  limit' = [g \in Grants |->
              IF limit[g] = Null /\ Shut(g)'
              THEN uses'[g] + Cardinality(Serving(g)')
              ELSE limit[g]]

Next == Step /\ NoteShut

Spec == Init /\ [][Next]_vars

-----------------------------------------------------------------------------
(***************************************************************************)
(* Properties                                                              *)
(***************************************************************************)

\* A grant that was revoked, has been used up, has expired or went with its
\* owner falls silent: all it is ever used for again are the requests that had
\* been let in before.
ShutGrantsFallSilent ==
  \A g \in Grants : Shut(g) => limit[g] # Null /\ uses[g] <= limit[g]

\* _resolve_share and _resolve_user write to the row that revoke_share,
\* revoke_token and accept_invite mark: what is marked stays marked, whatever
\* the requests had loaded.
RevocationIsFinal ==
  [][\A g \in Grants :
       /\ Stored(g) /\ ~ grant[g].is_active => Shut(g)'
       /\ grant[g] = Deleted => grant'[g] = Deleted]_vars

\* No use without a trace: a share that was commented on counts at least one
\* visit and never more than there were, although counting visits is a
\* read-modify-write; a token that was used and an invitation that was
\* accepted carry the time.
UsesLeaveTraces ==
  \A g \in Grants : Stored(g) /\ uses[g] > 0 =>
    /\ grant[g].last # Null
    /\ g \in Shares => grant[g].access_count \in 1 .. visits[g]
    /\ g \in Invites => ~ grant[g].is_active
=============================================================================
