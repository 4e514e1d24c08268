------------------------- MODULE AccessGrantsProofs -------------------------
(***************************************************************************)
(* Proofs about AccessGrants, for any number of shares, tokens,            *)
(* invitations and workers, and for any bounds.                            *)
(***************************************************************************)
EXTENDS AccessGrants, FiniteSetTheorems, TLAPS

-----------------------------------------------------------------------------
(***************************************************************************)
(* Rows and requests                                                       *)
(***************************************************************************)

\* A row is neither of the two ways in which there is none.
LEMMA RowsAreStored ==
  ASSUME NEW row \in Rows
  PROVE  row # Unissued /\ row # Deleted
<1>1. "state" \notin DOMAIN row
  BY DEF Rows
<1>2. "state" \in DOMAIN Unissued /\ "state" \in DOMAIN Deleted
  BY DEF Unissued, Deleted
<1> QED
  BY <1>1, <1>2

LEMMA NotIssuedIsNotDeleted == Unissued # Deleted
<1>1. Unissued["state"] # Deleted["state"]
  BY DEF Unissued, Deleted
<1> QED
  BY <1>1

\* The phase of a request tells which fields it has.
LEMMA RequestFields ==
  ASSUME NEW q \in Requests \cup {Idle}
  PROVE  /\ q.phase = "loaded" =>
              q.grant \in Grants /\ q.loaded \in Rows /\ q.at \in Times
              /\ q.owner \in {"absent", "inactive", "active"}
         /\ q.phase = "resolved" => q.grant \in Shares \cup Tokens
         /\ q.phase = "idle" <=> q = Idle
  BY DEF Requests, Idle

-----------------------------------------------------------------------------
(***************************************************************************)
(* Type correctness                                                        *)
(***************************************************************************)

\* What a step does to the requests that serve a grant and to its uses: nothing;
\* it lets one more in, if the grant is open; or one of them leaves and may have
\* used the grant as it did.
LEMMA ServingSteps ==
  ASSUME TypeOK, Step, NEW g \in Grants
  PROVE  \/ Serving(g)' = Serving(g) /\ uses'[g] = uses[g]
         \/ \E w \in Workers :
              /\ Stored(g) /\ ~ Shut(g)
              /\ Serving(g)' = Serving(g) \cup {w}
              /\ uses'[g] = uses[g]
         \/ \E w \in Serving(g) :
              /\ Serving(g)' = Serving(g) \ {w}
              /\ \/ uses'[g] = uses[g]
                 \/ grant[g] # Deleted /\ uses[g] < MaxUses /\ uses'[g] = uses[g] + 1
<1> DEFINE Same == Serving(g)' = Serving(g) /\ uses'[g] = uses[g]
<1>1. \A w \in Workers : req[w] \in Requests \cup {Idle}
  BY DEF TypeOK
<1>2. \A w \in Workers : w \in Serving(g) <=>
        req[w].phase \in {"loaded", "resolved"} /\ req[w].grant = g
  BY DEF Serving
<1>3. uses \in [Grants -> 0 .. MaxUses] /\ DOMAIN req = Workers
  BY DEF TypeOK
\* A worker that gives its request up.
<1>4. ASSUME NEW w \in Workers, req' = [req EXCEPT ![w] = Idle]
      PROVE  Serving(g)' = Serving(g) \ {w}
  BY <1>3, <1>4 DEF Serving, Idle
<1>5. CASE \E h \in Grants : CreateShare(h) \/ CreateToken(h) \/ InviteUser(h)
                               \/ RevokeShare(h) \/ RevokeToken(h)
  <2>1. Same
    BY <1>5 DEF CreateShare, CreateToken, InviteUser, RevokeShare, RevokeToken, Revoke, Serving
  <2> QED
    BY <2>1
<1>6. CASE \E w \in Workers, h \in Grants : Resolve(w, h)
  <2>1. PICK w \in Workers, h \in Grants : Resolve(w, h)
    BY <1>6
  <2>2. /\ req[w] = Idle
        /\ Stored(h) /\ ~ Shut(h)
        /\ UNCHANGED uses
        /\ req'[w].phase = "loaded" /\ req'[w].grant = h
        /\ \A v \in Workers \ {w} : req'[v] = req[v]
    <3>1. ShareOpens(h) \/ TokenOpens(h) \/ InviteOpens(h)
      BY <2>1 DEF Resolve
    <3>2. Stored(h) /\ ~ Shut(h)
      BY <3>1 DEF ShareOpens, TokenOpens, InviteOpens
    <3> QED
      BY <2>1, <3>2, <1>3 DEF Resolve
  <2>3. CASE h = g
    BY <2>2, <2>3 DEF Serving
  <2>4. CASE h # g
    BY <2>2, <2>4 DEF Serving, Idle
  <2> QED
    BY <2>3, <2>4
<1>7. CASE \E w \in Workers : CommitVisit(w)
  <2>1. PICK w \in Workers : CommitVisit(w)
    BY <1>7
  <2>2. /\ req[w].phase = "loaded"
        /\ UNCHANGED uses
        /\ req'[w] = [phase |-> "resolved", grant |-> req[w].grant]
        /\ \A v \in Workers \ {w} : req'[v] = req[v]
    BY <2>1, <1>3 DEF CommitVisit
  <2> QED
    BY <2>2 DEF Serving
<1>8. CASE \E w \in Workers : CommitAcceptance(w)
  <2>1. PICK w \in Workers : CommitAcceptance(w)
    BY <1>8
  <2>2. /\ req[w].phase = "loaded" /\ Stored(req[w].grant) /\ uses[req[w].grant] < MaxUses
        /\ uses' = [uses EXCEPT ![req[w].grant] = @ + 1]
        /\ req' = [req EXCEPT ![w] = Idle]
    BY <2>1 DEF CommitAcceptance
  <2>3. Serving(g)' = Serving(g) \ {w}
    BY <2>2, <1>4
  <2>4. CASE req[w].grant = g
    BY <2>2, <2>3, <2>4, <1>2, <1>3 DEF Stored
  <2>5. CASE req[w].grant # g
    BY <2>2, <2>3, <2>5, <1>2, <1>3
  <2> QED
    BY <2>4, <2>5
<1>9. CASE \E w \in Workers : AddExternalComment(w) \/ RunAsHolder(w)
  <2>1. PICK w \in Workers : AddExternalComment(w) \/ RunAsHolder(w)
    BY <1>9
  <2>2. /\ req[w].phase = "resolved" /\ Stored(req[w].grant) /\ uses[req[w].grant] < MaxUses
        /\ uses' = [uses EXCEPT ![req[w].grant] = @ + 1]
        /\ req' = [req EXCEPT ![w] = Idle]
    BY <2>1 DEF AddExternalComment, RunAsHolder, Use
  <2>3. Serving(g)' = Serving(g) \ {w}
    BY <2>2, <1>4
  <2>4. CASE req[w].grant = g
    BY <2>2, <2>3, <2>4, <1>2, <1>3 DEF Stored
  <2>5. CASE req[w].grant # g
    BY <2>2, <2>3, <2>5, <1>2, <1>3
  <2> QED
    BY <2>4, <2>5
<1>10. CASE \E w \in Workers : ViewAssessment(w) \/ Finish(w) \/ CommitDelete(w)
  <2>1. PICK w \in Workers : ViewAssessment(w) \/ Finish(w) \/ CommitDelete(w)
    BY <1>10
  <2>2. UNCHANGED uses /\ req' = [req EXCEPT ![w] = Idle]
    BY <2>1 DEF ViewAssessment, Finish, CommitDelete
  <2>3. Serving(g)' = Serving(g) \ {w}
    BY <2>2, <1>4
  <2>4. CASE w \in Serving(g)
    BY <2>2, <2>3, <2>4
  <2>5. CASE w \notin Serving(g)
    BY <2>2, <2>3, <2>5
  <2> QED
    BY <2>4, <2>5
<1>11. CASE \E w \in Workers : LoadForDelete(w)
  <2>1. PICK w \in Workers : LoadForDelete(w)
    BY <1>11
  <2>2. /\ req[w] = Idle /\ UNCHANGED uses
        /\ req'[w].phase = "deleting"
        /\ \A v \in Workers \ {w} : req'[v] = req[v]
    BY <2>1, <1>3 DEF LoadForDelete
  <2> QED
    BY <2>2 DEF Serving, Idle
<1>12. CASE \E u \in Owners : \/ \E state \in {"active", "inactive"} : SetActive(u, state)
                              \/ DeleteUser(u)
  <2>1. Same
    BY <1>12 DEF SetActive, DeleteUser, Serving
  <2> QED
    BY <2>1
<1>13. CASE Tick
  <2>1. Same
    BY <1>13 DEF Tick, Serving
  <2> QED
    BY <2>1
<1> QED
  BY <1>5, <1>6, <1>7, <1>8, <1>9, <1>10, <1>11, <1>12, <1>13 DEF Step

\* The request of w commits what it makes of the row of g.
Commits(w, g) ==
  LET new == Visited(g, req[w].loaded, req[w].at)
  IN /\ req[w].phase = "loaded" /\ req[w].grant = g
     /\ Stored(g)
     /\ grant'[g] = Flush(grant[g], new, Changed(req[w].loaded, new))
     /\ g \in Shares => visits'[g] = visits[g] + 1

\* What it leaves of the row: the flag and the expiry as they are in the
\* database, the count as the request computed it, and a time.
LEMMA CommittedRow ==
  ASSUME TypeOK, NEW g \in Grants, NEW w \in Workers, Commits(w, g)
  PROVE  /\ grant[g] \in Rows /\ grant'[g] \in Rows
         /\ req[w].loaded \in Rows /\ req[w].at \in Times
         /\ grant'[g].expires_at = grant[g].expires_at
         /\ grant'[g].last \in {req[w].at, grant[g].last}
         /\ grant'[g].last # req[w].at => req[w].loaded.last = req[w].at
         /\ g \in Shares => grant'[g].access_count = req[w].loaded.access_count + 1
         /\ g \notin Shares => grant'[g].access_count = grant[g].access_count
         /\ g \notin Invites => grant'[g].is_active = grant[g].is_active
         /\ grant'[g].is_active => grant[g].is_active
         /\ g \in Invites /\ req[w].loaded.is_active => ~ grant'[g].is_active
<1> DEFINE row == grant[g]
           loaded == req[w].loaded
           at == req[w].at
           flushed == grant'[g]
           new == Visited(g, loaded, at)
           columns == Changed(loaded, new)
<1>1. req[w] \in Requests \cup {Idle} /\ req[w].phase = "loaded" /\ Stored(g)
  BY DEF TypeOK, Commits
<1>2. row \in Rows /\ loaded \in Rows /\ at \in Times
  BY <1>1, RequestFields DEF TypeOK, Stored
<1> HIDE DEF row, loaded, at, flushed, new, columns
<1>3. /\ DOMAIN new = {"is_active", "expires_at", "access_count", "last"}
      /\ new.last = at
      /\ new.expires_at = loaded.expires_at
      /\ new.access_count = IF g \in Shares THEN loaded.access_count + 1 ELSE loaded.access_count
      /\ new.is_active = (loaded.is_active /\ g \notin Invites)
  BY <1>2 DEF Visited, Rows, new
<1>4. DOMAIN row = {"is_active", "expires_at", "access_count", "last"}
  BY <1>2 DEF Rows
<1>5. \A c \in DOMAIN row : c \in columns <=> new[c] # loaded[c]
  BY <1>3, <1>4 DEF Changed, columns
<1>6. flushed = [c \in DOMAIN row |-> IF c \in columns THEN new[c] ELSE row[c]]
  BY <1>1, <1>2 DEF Flush, Commits, row, loaded, at, flushed, new, columns
<1>7. /\ row.is_active \in BOOLEAN /\ loaded.is_active \in BOOLEAN
      /\ row.expires_at \in Times \cup {Null}
      /\ row.access_count \in Nat /\ loaded.access_count \in Nat
      /\ row.last \in Times \cup {Null} /\ loaded.last \in Times \cup {Null}
  BY <1>2 DEF Rows
<1>8. flushed.expires_at = row.expires_at
  BY <1>3, <1>4, <1>5, <1>6
<1>9. /\ flushed.last \in {at, row.last}
      /\ flushed.last # at => loaded.last = at
  BY <1>3, <1>4, <1>5, <1>6
<1>10. flushed.access_count = IF g \in Shares THEN loaded.access_count + 1 ELSE row.access_count
  BY <1>3, <1>4, <1>5, <1>6, <1>7
<1>11. /\ flushed.is_active \in BOOLEAN
       /\ g \notin Invites => flushed.is_active = row.is_active
       /\ g \in Invites => flushed.is_active = (row.is_active /\ ~ loaded.is_active)
  <2>1. CASE g \in Invites
    <3>1. new.is_active = FALSE
      BY <1>3, <2>1
    <3>2. CASE loaded.is_active = TRUE
      BY <1>4, <1>5, <1>6, <1>7, <2>1, <3>1, <3>2
    <3>3. CASE loaded.is_active = FALSE
      BY <1>4, <1>5, <1>6, <1>7, <2>1, <3>1, <3>3
    <3> QED
      BY <3>2, <3>3, <1>7
  <2>2. CASE g \notin Invites
    <3>1. new.is_active = loaded.is_active
      BY <1>3, <1>7, <2>2
    <3> QED
      BY <1>4, <1>5, <1>6, <1>7, <2>2, <3>1
  <2> QED
    BY <2>1, <2>2
<1>12. flushed \in Rows
  <2>1. /\ flushed.expires_at \in Times \cup {Null}
        /\ flushed.last \in Times \cup {Null}
    BY <1>2, <1>7, <1>8, <1>9
  <2>2. flushed.access_count \in Nat
    BY <1>7, <1>10
  <2>3. flushed = [c \in {"is_active", "expires_at", "access_count", "last"} |-> flushed[c]]
    BY <1>4, <1>6
  <2> QED
    BY <1>11, <2>1, <2>2, <2>3 DEF Rows
<1> QED
  BY <1>2, <1>7, <1>8, <1>9, <1>10, <1>11, <1>12 DEF row, loaded, at, flushed

\* A row changes in five ways: it is created where there was none, a visit or
\* an acceptance commits what it had loaded, the flag is cleared, or the row goes.
LEMMA RowSteps ==
  ASSUME TypeOK, Step, NEW g \in Grants
  PROVE  \/ grant'[g] = grant[g]
         \/ /\ grant[g] = Unissued
            /\ \E expiry \in Times \cup {Null} : grant'[g] = NewRow(expiry)
         \/ \E w \in Workers : Commits(w, g)
         \/ Stored(g) /\ grant'[g] = [grant[g] EXCEPT !.is_active = FALSE]
         \/ Stored(g) /\ grant'[g] = Deleted
<1>1. DOMAIN grant = Grants
  BY DEF TypeOK
<1>2. CASE \E h \in Grants : CreateShare(h) \/ CreateToken(h)
  BY <1>1, <1>2 DEF CreateShare, CreateToken, CanIssue
<1>3. CASE \E h \in Grants : InviteUser(h)
  <2>1. PICK h \in Grants : InviteUser(h)
    BY <1>3
  <2>2. now + InviteTime \in Times
    BY <2>1, TimeAssumption DEF InviteUser, TypeOK, Times
  <2> QED
    BY <1>1, <2>1, <2>2 DEF InviteUser, CanIssue
<1>4. CASE \E h \in Grants : RevokeShare(h) \/ RevokeToken(h)
  BY <1>1, <1>4 DEF RevokeShare, RevokeToken, Revoke
<1>5. CASE \E w \in Workers : CommitVisit(w)
  BY <1>1, <1>5 DEF CommitVisit, Commits
<1>6. CASE \E w \in Workers : CommitAcceptance(w)
  BY <1>1, <1>6, KindsAssumption DEF CommitAcceptance, Commits
<1>7. CASE \E w \in Workers : CommitDelete(w)
  BY <1>1, <1>7 DEF CommitDelete, Gone
<1>8. CASE \E u \in Owners : DeleteUser(u)
  BY <1>1, <1>8 DEF DeleteUser, Gone
<1>9. CASE UNCHANGED grant
  BY <1>9
<1>10. CASE \/ \E w \in Workers : \/ \E h \in Grants : Resolve(w, h)
                                  \/ AddExternalComment(w) \/ ViewAssessment(w)
                                  \/ RunAsHolder(w) \/ Finish(w) \/ LoadForDelete(w)
            \/ \E u \in Owners : \E state \in {"active", "inactive"} : SetActive(u, state)
            \/ Tick
  <2>1. UNCHANGED grant
    BY <1>10 DEF Resolve, AddExternalComment, ViewAssessment, RunAsHolder, Use, Finish,
                 LoadForDelete, SetActive, Tick
  <2> QED
    BY <2>1
<1> QED
  BY <1>2, <1>3, <1>4, <1>5, <1>6, <1>7, <1>8, <1>10 DEF Step

\* What a step writes is a row again.
LEMMA RowsStayRows ==
  ASSUME TypeOK, Step, NEW g \in Grants
  PROVE  grant'[g] \in Rows \cup {Unissued, Deleted}
<1>1. grant[g] \in Rows \cup {Unissued, Deleted}
  BY DEF TypeOK
<1>2. Stored(g) => grant[g] \in Rows
  BY <1>1 DEF Stored
<1>3. ASSUME NEW expiry \in Times \cup {Null}
      PROVE  NewRow(expiry) \in Rows
  BY <1>3 DEF NewRow, Rows
<1>4. (\E w \in Workers : Commits(w, g)) => grant'[g] \in Rows
  BY CommittedRow
<1>5. Stored(g) => [grant[g] EXCEPT !.is_active = FALSE] \in Rows
  BY <1>2 DEF Rows
<1> QED
  BY RowSteps, <1>1, <1>3, <1>4, <1>5

\* A grant that was given is never given again.
LEMMA GrantsAreGivenOnce ==
  ASSUME TypeOK, Step, NEW g \in Grants, grant'[g] = Unissued
  PROVE  grant[g] = Unissued
<1>1. grant[g] \in Rows \cup {Unissued, Deleted}
  BY DEF TypeOK
<1>2. \A w \in Workers : Commits(w, g) => grant'[g] # Unissued
  BY CommittedRow, RowsAreStored
<1>3. Stored(g) => [grant[g] EXCEPT !.is_active = FALSE] # Unissued
  <2>1. Stored(g) => [grant[g] EXCEPT !.is_active = FALSE] \in Rows
    BY <1>1 DEF Rows, Stored
  <2> QED
    BY <2>1, RowsAreStored
<1> QED
  BY <1>1, <1>2, <1>3, RowSteps, NotIssuedIsNotDeleted

\* Only finitely many requests serve a grant: the workers may be infinitely many.
ServingIsFinite == \A g \in Grants : IsFiniteSet(Serving(g))

LEMMA TypeHoldsInitially == Init => TypeOK /\ ServingIsFinite
<1> SUFFICES ASSUME Init PROVE TypeOK /\ ServingIsFinite
  OBVIOUS
<1>1. TypeOK
  BY TimeAssumption, BoundsAssumption DEF Init, TypeOK, Times, Idle
<1>2. \A g \in Grants : Serving(g) = {}
  BY DEF Init, Serving, Idle
<1> QED
  BY <1>1, <1>2, FS_EmptySet DEF ServingIsFinite

\* The requests that a step leaves behind have the fields of their phase.
LEMMA RequestsKeepType ==
  ASSUME TypeOK, Step
  PROVE  req' \in [Workers -> Requests \cup {Idle}]
<1>1. /\ req \in [Workers -> Requests \cup {Idle}]
      /\ uses \in [Grants -> 0 .. MaxUses]
      /\ now \in Times
  BY DEF TypeOK
<1>2. CASE UNCHANGED req
  BY <1>1, <1>2
<1>3. ASSUME NEW w \in Workers, req' = [req EXCEPT ![w] = Idle]
      PROVE  req' \in [Workers -> Requests \cup {Idle}]
  BY <1>1, <1>3
<1>4. CASE \E w \in Workers, g \in Grants : Resolve(w, g)
  <2>1. PICK w \in Workers, g \in Grants : Resolve(w, g)
    BY <1>4
  <2>2. /\ grant[g] \in Rows
        /\ owner[OwnerOf(g)] \in {"absent", "inactive", "active"}
    <3>1. Stored(g)
      BY <2>1 DEF Resolve, ShareOpens, TokenOpens, InviteOpens
    <3>2. OwnerOf(g) \in Owners
      BY DEF OwnerOf, Owners, Grants
    <3> QED
      BY <3>1, <3>2 DEF TypeOK, Stored
  <2>3. [phase |-> "loaded", grant |-> g, at |-> now, loaded |-> grant[g],
         owner |-> owner[OwnerOf(g)]] \in Requests
    BY <1>1, <2>2 DEF Requests
  <2> QED
    BY <1>1, <2>1, <2>3 DEF Resolve
<1>5. CASE \E w \in Workers : CommitVisit(w)
  <2>1. PICK w \in Workers : CommitVisit(w)
    BY <1>5
  <2>2. req[w].phase = "loaded" /\ req[w].grant \notin Invites
    BY <2>1 DEF CommitVisit
  <2>3. req[w].grant \in Shares \cup Tokens
    BY <1>1, <2>2, RequestFields DEF Grants
  <2>4. [phase |-> "resolved", grant |-> req[w].grant] \in Requests
    BY <2>3 DEF Requests
  <2> QED
    BY <1>1, <2>1, <2>4 DEF CommitVisit
<1>6. CASE \E w \in Workers : LoadForDelete(w)
  <2>1. PICK w \in Workers : LoadForDelete(w)
    BY <1>6
  <2>2. {<<g, uses[g]>> : g \in {s \in Shares : Stored(s)}} \in SUBSET (Shares \X (0 .. MaxUses))
    BY <1>1 DEF Grants
  <2>3. [phase |-> "deleting",
         comments |-> {<<g, uses[g]>> : g \in {s \in Shares : Stored(s)}}] \in Requests
    BY <2>2 DEF Requests
  <2> QED
    BY <1>1, <2>1, <2>3 DEF LoadForDelete
<1>7. CASE \E w \in Workers : CommitAcceptance(w) \/ AddExternalComment(w) \/ ViewAssessment(w)
                                \/ RunAsHolder(w) \/ Finish(w) \/ CommitDelete(w)
  BY <1>3, <1>7 DEF CommitAcceptance, AddExternalComment, ViewAssessment, RunAsHolder, Use,
                    Finish, CommitDelete
<1>8. CASE \/ \E g \in Grants : CreateShare(g) \/ CreateToken(g) \/ InviteUser(g)
                                  \/ RevokeShare(g) \/ RevokeToken(g)
           \/ \E u \in Owners : \/ \E state \in {"active", "inactive"} : SetActive(u, state)
                                \/ DeleteUser(u)
           \/ Tick
  BY <1>1, <1>8 DEF CreateShare, CreateToken, InviteUser, RevokeShare, RevokeToken, Revoke,
                    SetActive, DeleteUser, Tick
<1> QED
  BY <1>4, <1>5, <1>6, <1>7, <1>8 DEF Step

\* What a step does to the clock, the owners, the uses and the visits.
LEMMA CountersKeepType ==
  ASSUME TypeOK, Step
  PROVE  /\ now' \in Times /\ now' >= now
         /\ owner' \in [Owners -> {"absent", "inactive", "active"}]
         /\ uses' \in [Grants -> 0 .. MaxUses]
         /\ visits' \in [Shares -> 0 .. MaxUses]
         /\ \A s \in Shares : visits'[s] >= visits[s]
<1>1. /\ now \in Times /\ Times \subseteq Nat
      /\ owner \in [Owners -> {"absent", "inactive", "active"}]
      /\ uses \in [Grants -> 0 .. MaxUses]
      /\ visits \in [Shares -> 0 .. MaxUses]
      /\ \A w \in Workers : req[w] \in Requests \cup {Idle}
      /\ MaxUses \in Nat
  BY TimeAssumption, BoundsAssumption DEF TypeOK, Times
<1>2. ASSUME NEW w \in Workers, CommitVisit(w)
      PROVE  /\ visits' \in [Shares -> 0 .. MaxUses]
             /\ \A s \in Shares : visits'[s] >= visits[s]
  <2>1. /\ visits' = [s \in Shares |-> IF s = req[w].grant THEN visits[s] + 1 ELSE visits[s]]
        /\ req[w].grant \in Shares => visits[req[w].grant] < MaxUses
    BY <1>2 DEF CommitVisit
  <2> QED
    BY <1>1, <2>1
<1>3. ASSUME NEW g \in Grants, uses[g] < MaxUses, uses' = [uses EXCEPT ![g] = @ + 1]
      PROVE  uses' \in [Grants -> 0 .. MaxUses]
  BY <1>1, <1>3
<1>4. ASSUME NEW u \in Owners, NEW state \in {"absent", "inactive", "active"},
             owner' = [owner EXCEPT ![u] = state]
      PROVE  owner' \in [Owners -> {"absent", "inactive", "active"}]
  BY <1>1, <1>4
<1>5. CASE \E g \in Grants : CreateShare(g) \/ CreateToken(g) \/ RevokeShare(g) \/ RevokeToken(g)
  BY <1>1, <1>5 DEF CreateShare, CreateToken, RevokeShare, RevokeToken, Revoke
<1>6. CASE \E g \in Grants : InviteUser(g)
  BY <1>1, <1>6, <1>4 DEF InviteUser, Owners
<1>7. CASE \E w \in Workers : \/ \E g \in Grants : Resolve(w, g)
                              \/ ViewAssessment(w) \/ Finish(w) \/ LoadForDelete(w)
  BY <1>1, <1>7 DEF Resolve, ViewAssessment, Finish, LoadForDelete
<1>8. CASE \E w \in Workers : CommitVisit(w)
  BY <1>1, <1>2, <1>8 DEF CommitVisit
<1>9. CASE \E w \in Workers : CommitAcceptance(w)
  <2>1. PICK w \in Workers : CommitAcceptance(w)
    BY <1>9
  <2>2. req[w].phase = "loaded" /\ req[w].grant \in Invites /\ uses[req[w].grant] < MaxUses
    BY <2>1 DEF CommitAcceptance
  <2>3. req[w].grant \in Grants /\ req[w].grant \in Owners
    BY <2>2 DEF Grants, Owners
  <2>4. uses' \in [Grants -> 0 .. MaxUses]
    BY <2>1, <2>2, <2>3, <1>3 DEF CommitAcceptance
  <2>5. owner' \in [Owners -> {"absent", "inactive", "active"}]
    BY <2>1, <2>3, <1>1 DEF CommitAcceptance
  <2> QED
    BY <2>1, <2>4, <2>5, <1>1 DEF CommitAcceptance
<1>10. CASE \E w \in Workers : AddExternalComment(w) \/ RunAsHolder(w)
  <2>1. PICK w \in Workers : AddExternalComment(w) \/ RunAsHolder(w)
    BY <1>10
  <2>2. /\ req[w].grant \in Grants /\ uses[req[w].grant] < MaxUses
        /\ uses' = [uses EXCEPT ![req[w].grant] = @ + 1]
        /\ UNCHANGED <<now, owner, visits>>
    BY <2>1 DEF AddExternalComment, RunAsHolder, Use, Grants
  <2> QED
    BY <2>2, <1>1, <1>3
<1>11. CASE \E w \in Workers : CommitDelete(w)
  BY <1>1, <1>4, <1>11 DEF CommitDelete, Owners
<1>12. CASE \E u \in Owners : \/ \E state \in {"active", "inactive"} : SetActive(u, state)
                              \/ DeleteUser(u)
  BY <1>1, <1>4, <1>12 DEF SetActive, DeleteUser
<1>13. CASE Tick
  BY <1>1, <1>13, TimeAssumption DEF Tick, Times
<1> QED
  BY <1>5, <1>6, <1>7, <1>8, <1>9, <1>10, <1>11, <1>12, <1>13 DEF Step

LEMMA ServingStaysFinite ==
  ASSUME TypeOK, ServingIsFinite, Step
  PROVE  ServingIsFinite'
<1> SUFFICES ASSUME NEW g \in Grants PROVE IsFiniteSet(Serving(g)')
  BY DEF ServingIsFinite
<1>1. IsFiniteSet(Serving(g))
  BY DEF ServingIsFinite
<1>2. \A w : IsFiniteSet(Serving(g) \cup {w}) /\ IsFiniteSet(Serving(g) \ {w})
  BY <1>1, FS_AddElement, FS_RemoveElement
<1>3. \/ Serving(g)' = Serving(g)
      \/ \E w \in Workers : Serving(g)' = Serving(g) \cup {w}
      \/ \E w \in Serving(g) : Serving(g)' = Serving(g) \ {w}
  BY ServingSteps
<1> QED
  BY <1>1, <1>2, <1>3

LEMMA TypeStep ==
  ASSUME TypeOK, ServingIsFinite, [Next]_vars
  PROVE  TypeOK' /\ ServingIsFinite'
<1>1. CASE Next
  <2>1. Step /\ NoteShut
    BY <1>1 DEF Next
  <2>2. ServingIsFinite'
    BY <2>1, ServingStaysFinite
  <2>3. grant' \in [Grants -> Rows \cup {Unissued, Deleted}]
    <3>1. DOMAIN grant = Grants /\ grant = [g \in Grants |-> grant[g]]
      BY DEF TypeOK
    <3>2. grant' = [g \in Grants |-> grant'[g]]
      BY <2>1, <3>1 DEF Step, CreateShare, CreateToken, InviteUser, RevokeShare, RevokeToken,
           Revoke, Resolve, CommitVisit, CommitAcceptance, AddExternalComment, ViewAssessment,
           RunAsHolder, Use, Finish, LoadForDelete, CommitDelete, SetActive, DeleteUser, Gone, Tick
    <3> QED
      BY <2>1, <3>2, RowsStayRows
  <2>4. limit' \in [Grants -> Nat \cup {Null}]
    <3>1. \A g \in Grants : Cardinality(Serving(g)') \in Nat
      BY <2>2, FS_CardinalityType DEF ServingIsFinite
    <3>2. \A g \in Grants : uses'[g] \in Nat
      BY <2>1, CountersKeepType, BoundsAssumption
    <3>3. \A g \in Grants : limit[g] \in Nat \cup {Null}
      BY DEF TypeOK
    <3> QED
      BY <2>1, <3>1, <3>2, <3>3 DEF NoteShut
  <2> QED
    BY <2>1, <2>2, <2>3, <2>4, CountersKeepType, RequestsKeepType DEF TypeOK
<1>2. CASE UNCHANGED vars
  BY <1>2 DEF vars, TypeOK, ServingIsFinite, Serving
<1> QED
  BY <1>1, <1>2

\* The rows, the requests and the counters keep their types: what is read of a
\* request that holds a row of auditor_shares, api_tokens or invite_tokens is
\* there, and the requests that serve a grant can be counted.
THEOREM TypeCorrect == Spec => [](TypeOK /\ ServingIsFinite)
<1>1. Init => TypeOK /\ ServingIsFinite
  BY TypeHoldsInitially
<1>2. TypeOK /\ ServingIsFinite /\ [Next]_vars => (TypeOK /\ ServingIsFinite)'
  BY TypeStep
<1> QED
  BY <1>1, <1>2, PTL DEF Spec

-----------------------------------------------------------------------------
(***************************************************************************)
(* What is shut                                                            *)
(***************************************************************************)

\* A grant that opens nothing never opens anything again: no request writes
\* is_active back, none moves the expiry, and no row comes twice.
LEMMA ShutStays ==
  ASSUME TypeOK, Step, NEW g \in Grants, Shut(g)
  PROVE  Shut(g)'
<1>1. grant[g] \in Rows \cup {Unissued, Deleted} /\ grant[g] # Unissued
  BY DEF TypeOK, Shut
<1>2. now' \in Nat /\ now \in Nat /\ now' >= now
  BY CountersKeepType, TimeAssumption DEF Times, TypeOK
<1>3. ASSUME NEW row \in Rows, grant[g] \in Rows, grant'[g] = row,
             row.expires_at = grant[g].expires_at,
             row.is_active => grant[g].is_active
      PROVE  Shut(g)'
  <2>1. row # Unissued /\ grant[g] # Deleted
    BY <1>3, RowsAreStored
  <2>2. grant[g].expires_at \in Times \cup {Null}
    BY <1>3 DEF Rows
  <2>3. ~ grant[g].is_active \/ Expired(g)
    BY <2>1 DEF Shut
  <2>4. CASE ~ grant[g].is_active
    BY <1>3, <2>1, <2>4 DEF Shut
  <2>5. CASE Expired(g)
    BY <1>2, <1>3, <2>1, <2>2, <2>5, TimeAssumption DEF Shut, Expired, Times
  <2> QED
    BY <2>3, <2>4, <2>5
<1>4. CASE grant'[g] = grant[g]
  <2>1. CASE grant[g] \in Rows
    BY <1>3, <1>4, <2>1
  <2>2. CASE grant[g] = Deleted
    BY <1>4, <2>2, NotIssuedIsNotDeleted DEF Shut
  <2> QED
    BY <1>1, <2>1, <2>2
<1>5. CASE \E w \in Workers : Commits(w, g)
  BY <1>3, <1>5, CommittedRow
<1>6. CASE Stored(g) /\ grant'[g] = [grant[g] EXCEPT !.is_active = FALSE]
  <2>1. grant[g] \in Rows
    BY <1>1, <1>6 DEF Stored
  <2>2. /\ grant'[g] \in Rows
        /\ grant'[g].expires_at = grant[g].expires_at
        /\ ~ grant'[g].is_active
    BY <1>6, <2>1 DEF Rows
  <2> QED
    BY <1>3, <2>1, <2>2
<1>7. CASE Stored(g) /\ grant'[g] = Deleted
  BY <1>7, NotIssuedIsNotDeleted DEF Shut
<1> QED
  BY <1>1, <1>4, <1>5, <1>6, <1>7, RowSteps

\* What was noted when a grant was shut is never exceeded, the requests that are
\* still serving it counted as uses to come; nothing is noted of an open grant.
ShutIsBounded ==
  \A g \in Grants :
    /\ limit[g] # Null => Shut(g)
    /\ Shut(g) => /\ limit[g] # Null
                  /\ uses[g] + Cardinality(Serving(g)) <= limit[g]

LEMMA ShutIsBoundedStep ==
  ASSUME TypeOK, ServingIsFinite, ShutIsBounded, [Next]_vars
  PROVE  ShutIsBounded'
<1>1. CASE UNCHANGED vars
  BY <1>1 DEF vars, ShutIsBounded, Shut, Expired, Serving
<1>2. CASE Next
  <2> SUFFICES ASSUME NEW g \in Grants
               PROVE  /\ limit'[g] # Null => Shut(g)'
                      /\ Shut(g)' => /\ limit'[g] # Null
                                     /\ uses'[g] + Cardinality(Serving(g)') <= limit'[g]
    BY DEF ShutIsBounded
  <2>1. Step /\ NoteShut
    BY <1>2 DEF Next
  <2>2. /\ IsFiniteSet(Serving(g)) /\ IsFiniteSet(Serving(g)')
        /\ Cardinality(Serving(g)) \in Nat /\ Cardinality(Serving(g)') \in Nat
    BY <2>1, ServingStaysFinite, FS_CardinalityType DEF ServingIsFinite
  <2>3. /\ uses[g] \in Nat /\ uses'[g] \in Nat
        /\ limit[g] \in Nat \cup {Null}
    BY <2>1, CountersKeepType, BoundsAssumption DEF TypeOK
  <2>4. limit'[g] = IF limit[g] = Null /\ Shut(g)'
                    THEN uses'[g] + Cardinality(Serving(g)')
                    ELSE limit[g]
    BY <2>1 DEF NoteShut
  <2>5. CASE limit[g] = Null
    <3>1. CASE Shut(g)'
      BY <2>2, <2>3, <2>4, <2>5, <3>1, TimeAssumption
    <3>2. CASE ~ Shut(g)'
      BY <2>4, <2>5, <3>2
    <3> QED
      BY <3>1, <3>2
  <2>6. CASE limit[g] # Null
    <3>1. /\ Shut(g) /\ uses[g] + Cardinality(Serving(g)) <= limit[g]
          /\ limit'[g] = limit[g]
      BY <2>4, <2>6 DEF ShutIsBounded
    <3>2. Shut(g)'
      BY <2>1, <3>1, ShutStays
    <3>3. CASE Serving(g)' = Serving(g) /\ uses'[g] = uses[g]
      BY <3>1, <3>2, <3>3, <2>6
    <3>4. CASE \E w \in Serving(g) :
                 /\ Serving(g)' = Serving(g) \ {w}
                 /\ \/ uses'[g] = uses[g]
                    \/ grant[g] # Deleted /\ uses[g] < MaxUses /\ uses'[g] = uses[g] + 1
      <4>1. PICK w \in Serving(g) : Serving(g)' = Serving(g) \ {w}
        BY <3>4
      <4>2. Cardinality(Serving(g)') = Cardinality(Serving(g)) - 1
        BY <4>1, <2>2, FS_RemoveElement
      <4>3. uses'[g] <= uses[g] + 1
        BY <2>3, <3>4
      <4>4. uses'[g] + Cardinality(Serving(g)') <= limit[g]
        BY <2>2, <2>3, <2>6, <3>1, <4>2, <4>3
      <4> QED
        BY <2>6, <3>1, <3>2, <4>4
    <3> QED
      BY <2>1, <3>1, <3>3, <3>4, ServingSteps
  <2> QED
    BY <2>5, <2>6
<1> QED
  BY <1>1, <1>2

\* Once revoke_share, revoke_token, accept_invite, the clock or the end of the
\* owner has shut a grant, it is used at most by the requests that had been let
\* in before, whatever any number of workers do.
THEOREM RevokedGrantsFallSilent == Spec => []ShutGrantsFallSilent
<1>1. Init => ShutIsBounded
  BY DEF Init, ShutIsBounded, Shut
<1>2. TypeOK /\ ServingIsFinite /\ ShutIsBounded /\ [Next]_vars => ShutIsBounded'
  BY ShutIsBoundedStep
<1>3. TypeOK /\ ServingIsFinite /\ ShutIsBounded => ShutGrantsFallSilent
  <2> SUFFICES ASSUME TypeOK, ServingIsFinite, ShutIsBounded, NEW g \in Grants, Shut(g)
               PROVE  limit[g] # Null /\ uses[g] <= limit[g]
    BY DEF ShutGrantsFallSilent
  <2>1. /\ limit[g] # Null /\ limit[g] \in Nat \cup {Null}
        /\ uses[g] + Cardinality(Serving(g)) <= limit[g]
        /\ uses[g] \in Nat
    BY BoundsAssumption DEF ShutIsBounded, TypeOK
  <2>2. Cardinality(Serving(g)) \in Nat
    BY FS_CardinalityType DEF ServingIsFinite
  <2> QED
    BY <2>1, <2>2
<1> QED
  BY <1>1, <1>2, <1>3, TypeCorrect, PTL DEF Spec

\* revoke_share, revoke_token and accept_invite are final: no commit of a request
\* that had loaded the row before opens it again, and no row comes back.
THEOREM RevocationLasts == Spec => RevocationIsFinal
<1> DEFINE Final == \A g \in Grants :
                      /\ Stored(g) /\ ~ grant[g].is_active => Shut(g)'
                      /\ grant[g] = Deleted => grant'[g] = Deleted
<1>1. TypeOK /\ [Next]_vars => [Final]_vars
  <2> SUFFICES ASSUME TypeOK, Step, NEW g \in Grants
               PROVE  /\ Stored(g) /\ ~ grant[g].is_active => Shut(g)'
                      /\ grant[g] = Deleted => grant'[g] = Deleted
    BY DEF Next
  <2>1. ASSUME Stored(g), ~ grant[g].is_active
        PROVE  Shut(g)'
    <3>1. Shut(g)
      BY <2>1 DEF Stored, Shut
    <3> QED
      BY <3>1, ShutStays
  <2>2. ASSUME grant[g] = Deleted
        PROVE  grant'[g] = Deleted
    <3>1. ~ Stored(g) /\ grant[g] # Unissued
      BY <2>2, NotIssuedIsNotDeleted DEF Stored
    <3> QED
      BY <2>2, <3>1, RowSteps DEF Commits
  <2> QED
    BY <2>1, <2>2
<1>2. Spec => [][Final]_vars
  <2>1. Spec => []TypeOK
    BY TypeCorrect, PTL
  <2> QED
    BY <1>1, <2>1, PTL DEF Spec
<1> QED
  BY <1>2 DEF RevocationIsFinal

-----------------------------------------------------------------------------
(***************************************************************************)
(* Traces of use                                                           *)
(***************************************************************************)

\* The row of g shows that it has been used.
Traced(g) ==
  /\ grant[g].last # Null
  /\ g \in Shares => grant[g].access_count >= 1
  /\ g \in Invites => ~ grant[g].is_active

\* A request that has committed its visit has left a trace, and so has every
\* use; one that has not committed yet holds a row as it was earlier, with no
\* more visits than there were, the flag still set, and no time that the row
\* has lost since.
TracesAreKept ==
  /\ \A g \in Grants :
       /\ grant[g] = Unissued => uses[g] = 0
       /\ Stored(g) /\ uses[g] > 0 => Traced(g)
       /\ Stored(g) /\ g \in Shares => grant[g].access_count <= visits[g]
  /\ \A w \in Workers :
       /\ req[w].phase \in {"loaded", "resolved"} => grant[req[w].grant] # Unissued
       /\ req[w].phase = "resolved" /\ Stored(req[w].grant) => Traced(req[w].grant)
       /\ req[w].phase = "loaded" =>
            /\ req[w].loaded.is_active
            /\ req[w].grant \in Shares => req[w].loaded.access_count <= visits[req[w].grant]
            /\ Stored(req[w].grant) /\ req[w].loaded.last # Null
                 => grant[req[w].grant].last # Null

LEMMA TracesHoldInitially == Init => TracesAreKept
  BY RowsAreStored DEF Init, TracesAreKept, Stored, Idle

\* A row that shows use goes on showing it.
LEMMA TracesLast ==
  ASSUME TypeOK, TracesAreKept, Step, NEW g \in Grants,
         grant[g] # Unissued, Stored(g)'
  PROVE  /\ Stored(g)
         /\ Traced(g) => Traced(g)'
         /\ grant[g].last # Null => grant'[g].last # Null
         /\ g \in Shares => grant'[g].access_count <= visits'[g]
<1>1. Stored(g) /\ grant[g] \in Rows
  <2>1. grant[g] # Deleted
    BY RowSteps DEF Stored, Commits
  <2> QED
    BY <2>1 DEF Stored, TypeOK
<1>2. \A s \in Shares : visits[s] \in Nat /\ visits'[s] \in Nat /\ visits'[s] >= visits[s]
  BY CountersKeepType, BoundsAssumption DEF TypeOK
<1>3. g \in Shares => grant[g].access_count <= visits[g] /\ grant[g].access_count \in Nat
  BY <1>1 DEF TracesAreKept, Rows
<1>4. CASE grant'[g] = grant[g]
  BY <1>1, <1>2, <1>3, <1>4 DEF Traced
<1>5. CASE \E w \in Workers : Commits(w, g)
  <2>1. PICK w \in Workers : Commits(w, g)
    BY <1>5
  <2> DEFINE row == grant[g]
             flushed == grant'[g]
             loaded == req[w].loaded
             at == req[w].at
  <2>2. /\ row \in Rows /\ flushed \in Rows /\ loaded \in Rows /\ at \in Times
        /\ flushed.last \in {at, row.last}
        /\ flushed.last # at => loaded.last = at
        /\ g \in Shares => flushed.access_count = loaded.access_count + 1
        /\ flushed.is_active => row.is_active
    BY <2>1, CommittedRow
  <2>3. /\ loaded.last # Null => row.last # Null
        /\ g \in Shares => loaded.access_count <= visits[g]
    BY <2>1 DEF TracesAreKept, Commits
  <2>4. g \in Shares => visits'[g] = visits[g] + 1
    BY <2>1 DEF Commits
  <2> HIDE DEF row, flushed, loaded, at
  <2>5. row.last # Null => flushed.last # Null
    BY <2>2, TimeAssumption DEF Times
  <2>6. g \in Shares => /\ flushed.access_count >= 1
                        /\ flushed.access_count <= visits'[g]
    <3>1. loaded.access_count \in Nat
      BY <2>2 DEF Rows
    <3> QED
      BY <3>1, <2>2, <2>3, <2>4, <1>2
  <2>7. Traced(g) => Traced(g)'
    BY <2>2, <2>5, <2>6 DEF Traced, row, flushed
  <2> QED
    BY <1>1, <2>5, <2>6, <2>7 DEF row, flushed
<1>6. CASE grant'[g] = [grant[g] EXCEPT !.is_active = FALSE]
  <2>1. /\ grant'[g].last = grant[g].last
        /\ grant'[g].access_count = grant[g].access_count
        /\ ~ grant'[g].is_active
    BY <1>1, <1>6 DEF Rows
  <2> QED
    BY <1>1, <1>2, <1>3, <2>1 DEF Traced
<1>7. grant'[g] # Deleted
  BY DEF Stored
<1> QED
  BY <1>4, <1>5, <1>6, <1>7, RowSteps

\* A commit leaves a trace, whatever the row has become since it was loaded.
LEMMA CommitsLeaveTraces ==
  ASSUME TypeOK, TracesAreKept, NEW g \in Grants, NEW w \in Workers, Commits(w, g)
  PROVE  Traced(g)' /\ grant'[g] # Unissued
<1> DEFINE row == grant[g]
           flushed == grant'[g]
           loaded == req[w].loaded
           at == req[w].at
<1>1. /\ flushed \in Rows /\ loaded \in Rows /\ at \in Times
      /\ flushed.last \in {at, row.last}
      /\ flushed.last # at => loaded.last = at
      /\ g \in Shares => flushed.access_count = loaded.access_count + 1
      /\ g \in Invites /\ loaded.is_active => ~ flushed.is_active
  BY CommittedRow
<1>2. /\ loaded.is_active
      /\ loaded.last # Null => row.last # Null
  BY DEF TracesAreKept, Commits
<1> HIDE DEF row, flushed, loaded, at
<1>3. at # Null
  BY <1>1, TimeAssumption DEF Times
<1>4. flushed.last # Null
  BY <1>1, <1>2, <1>3
<1>5. g \in Shares => flushed.access_count >= 1
  <2>1. loaded.access_count \in Nat
    BY <1>1 DEF Rows
  <2> QED
    BY <1>1, <2>1
<1>6. flushed # Unissued
  BY <1>1, RowsAreStored
<1> QED
  BY <1>1, <1>2, <1>4, <1>5, <1>6 DEF Traced, flushed

\* Where a use comes from: a request that had committed its visit, or the
\* acceptance of an invitation, which commits with it.
LEMMA UsesComeFromRequests ==
  ASSUME TypeOK, Step, NEW g \in Grants, uses'[g] # uses[g]
  PROVE  \/ /\ grant'[g] = grant[g]
            /\ \E w \in Workers : req[w].phase = "resolved" /\ req[w].grant = g
         \/ \E w \in Workers : Commits(w, g)
<1>1. DOMAIN uses = Grants /\ DOMAIN grant = Grants
  BY DEF TypeOK
<1>2. CASE \E w \in Workers : CommitAcceptance(w)
  BY <1>1, <1>2, KindsAssumption DEF CommitAcceptance, Commits
<1>3. CASE \E w \in Workers : AddExternalComment(w) \/ RunAsHolder(w)
  BY <1>1, <1>3 DEF AddExternalComment, RunAsHolder, Use
<1>4. CASE UNCHANGED uses
  BY <1>4
<1>5. CASE \/ \E h \in Grants : CreateShare(h) \/ CreateToken(h) \/ InviteUser(h)
                                  \/ RevokeShare(h) \/ RevokeToken(h)
           \/ \E w \in Workers : \/ \E h \in Grants : Resolve(w, h)
                                 \/ CommitVisit(w) \/ ViewAssessment(w) \/ Finish(w)
                                 \/ LoadForDelete(w) \/ CommitDelete(w)
           \/ \E u \in Owners : \/ \E state \in {"active", "inactive"} : SetActive(u, state)
                                \/ DeleteUser(u)
           \/ Tick
  <2>1. UNCHANGED uses
    BY <1>5 DEF CreateShare, CreateToken, InviteUser, RevokeShare, RevokeToken, Revoke, Resolve,
                CommitVisit, ViewAssessment, Finish, LoadForDelete, CommitDelete, SetActive,
                DeleteUser, Tick
  <2> QED
    BY <2>1, <1>4
<1> QED
  BY <1>2, <1>3, <1>5 DEF Step

\* Where a request comes from: it was there before, it has just loaded the row of
\* an open grant, or it has just committed its visit.
LEMMA RequestsComeFrom ==
  ASSUME TypeOK, Step, NEW w \in Workers, req'[w].phase \in {"loaded", "resolved"}
  PROVE  \/ req'[w] = req[w]
         \/ \E g \in Grants :
              /\ Stored(g) /\ ~ Shut(g) /\ grant' = grant
              /\ req'[w].phase = "loaded" /\ req'[w].grant = g /\ req'[w].loaded = grant[g]
         \/ \E g \in Grants :
              /\ Commits(w, g)
              /\ req'[w].phase = "resolved" /\ req'[w].grant = g
<1>1. DOMAIN req = Workers /\ DOMAIN grant = Grants
  BY DEF TypeOK
<1>2. CASE \E v \in Workers, g \in Grants : Resolve(v, g)
  <2>1. PICK v \in Workers, g \in Grants : Resolve(v, g)
    BY <1>2
  <2>2. Stored(g) /\ ~ Shut(g)
    BY <2>1 DEF Resolve, ShareOpens, TokenOpens, InviteOpens
  <2>3. /\ grant' = grant
        /\ req' = [req EXCEPT ![v] = [phase |-> "loaded", grant |-> g, at |-> now,
                                      loaded |-> grant[g], owner |-> owner[OwnerOf(g)]]]
    BY <2>1 DEF Resolve
  <2>4. CASE v = w
    <3>1. /\ req'[w].phase = "loaded" /\ req'[w].grant = g
          /\ req'[w].loaded = grant[g]
      BY <2>3, <2>4, <1>1
    <3> QED
      BY <2>2, <2>3, <3>1
  <2>5. CASE v # w
    BY <2>3, <2>5, <1>1
  <2> QED
    BY <2>4, <2>5
<1>3. CASE \E v \in Workers : CommitVisit(v)
  <2>1. PICK v \in Workers : CommitVisit(v)
    BY <1>3
  <2>2. req[v] \in Requests \cup {Idle} /\ req[v].phase = "loaded"
    BY <2>1 DEF CommitVisit, TypeOK
  <2>3. req[v].grant \in Grants
    BY <2>2, RequestFields
  <2>4. CASE v = w
    <3>1. Commits(w, req[w].grant)
      BY <2>1, <2>3, <2>4, <1>1 DEF CommitVisit, Commits
    <3>2. req'[w].phase = "resolved" /\ req'[w].grant = req[w].grant
      BY <2>1, <2>4, <1>1 DEF CommitVisit
    <3> QED
      BY <2>3, <2>4, <3>1, <3>2
  <2>5. CASE v # w
    BY <2>1, <2>5, <1>1 DEF CommitVisit
  <2> QED
    BY <2>4, <2>5
<1>4. ASSUME NEW v \in Workers, req' = [req EXCEPT ![v] = Idle]
      PROVE  req'[w] = req[w]
  BY <1>1, <1>4 DEF Idle
<1>5. CASE \E v \in Workers : CommitAcceptance(v) \/ AddExternalComment(v) \/ ViewAssessment(v)
                                \/ RunAsHolder(v) \/ Finish(v) \/ CommitDelete(v)
  BY <1>4, <1>5 DEF CommitAcceptance, AddExternalComment, ViewAssessment, RunAsHolder, Use,
                    Finish, CommitDelete
<1>6. CASE \E v \in Workers : LoadForDelete(v)
  BY <1>1, <1>6 DEF LoadForDelete
<1>7. CASE \/ \E g \in Grants : CreateShare(g) \/ CreateToken(g) \/ InviteUser(g)
                                  \/ RevokeShare(g) \/ RevokeToken(g)
           \/ \E u \in Owners : \/ \E state \in {"active", "inactive"} : SetActive(u, state)
                                \/ DeleteUser(u)
           \/ Tick
  BY <1>7 DEF CreateShare, CreateToken, InviteUser, RevokeShare, RevokeToken, Revoke,
              SetActive, DeleteUser, Tick
<1> QED
  BY <1>2, <1>3, <1>5, <1>6, <1>7 DEF Step

LEMMA TracesStep ==
  ASSUME TypeOK, TracesAreKept, [Next]_vars
  PROVE  TracesAreKept'
<1>1. CASE UNCHANGED vars
  BY <1>1 DEF vars, TracesAreKept, Stored, Traced
<1>2. CASE Step
  <2>1. ASSUME NEW g \in Grants
        PROVE  /\ grant'[g] = Unissued => uses'[g] = 0
               /\ Stored(g)' /\ uses'[g] > 0 => Traced(g)'
               /\ Stored(g)' /\ g \in Shares => grant'[g].access_count <= visits'[g]
    <3>1. CASE grant'[g] = Unissued
      <4>1. grant[g] = Unissued
        BY <3>1, <1>2, GrantsAreGivenOnce
      <4>2. uses[g] = 0
        BY <4>1 DEF TracesAreKept
      <4>3. uses'[g] = uses[g]
        <5>1. \A w \in Workers : req[w].phase = "resolved" => req[w].grant # g
          BY <4>1 DEF TracesAreKept
        <5>2. \A w \in Workers : ~ Commits(w, g)
          BY <4>1 DEF Commits, Stored
        <5> QED
          BY <5>1, <5>2, <1>2, UsesComeFromRequests
      <4> QED
        BY <3>1, <4>2, <4>3 DEF Stored
    <3>2. CASE grant[g] = Unissued /\ Stored(g)'
      <4>1. uses'[g] = 0
        <5>1. uses[g] = 0
          BY <3>2 DEF TracesAreKept
        <5>2. \A w \in Workers : req[w].phase = "resolved" => req[w].grant # g
          BY <3>2 DEF TracesAreKept
        <5>3. \A w \in Workers : ~ Commits(w, g)
          BY <3>2 DEF Commits, Stored
        <5> QED
          BY <5>1, <5>2, <5>3, <1>2, UsesComeFromRequests
      <4>2. PICK expiry \in Times \cup {Null} : grant'[g] = NewRow(expiry)
        BY <3>2, <1>2, RowSteps DEF Stored, Commits
      <4>3. grant'[g].access_count = 0
        BY <4>2 DEF NewRow
      <4>4. g \in Shares => visits'[g] \in Nat
        BY <1>2, CountersKeepType, BoundsAssumption
      <4> QED
        BY <3>2, <4>1, <4>3, <4>4 DEF Stored
    <3>3. CASE grant[g] # Unissued /\ Stored(g)'
      <4>1. /\ Stored(g)
            /\ Traced(g) => Traced(g)'
            /\ g \in Shares => grant'[g].access_count <= visits'[g]
        BY <3>3, <1>2, TracesLast
      <4>2. ASSUME uses'[g] > 0
            PROVE  Traced(g)'
        <5>1. CASE uses'[g] = uses[g]
          BY <4>1, <4>2, <5>1 DEF TracesAreKept
        <5>2. CASE uses'[g] # uses[g]
          <6>1. CASE \E w \in Workers : Commits(w, g)
            BY <6>1, CommitsLeaveTraces
          <6>2. CASE \E w \in Workers : req[w].phase = "resolved" /\ req[w].grant = g
            BY <4>1, <6>2 DEF TracesAreKept
          <6> QED
            BY <5>2, <6>1, <6>2, <1>2, UsesComeFromRequests
        <5> QED
          BY <5>1, <5>2
      <4> QED
        BY <3>3, <4>1, <4>2 DEF Stored
    <3>4. CASE grant'[g] = Deleted
      BY <3>4, NotIssuedIsNotDeleted DEF Stored
    <3> QED
      BY <3>1, <3>2, <3>3, <3>4 DEF Stored
  <2>2. ASSUME NEW w \in Workers, NEW g \in Grants,
               req'[w].phase \in {"loaded", "resolved"}, req'[w].grant = g
        PROVE  /\ grant'[g] # Unissued
               /\ req'[w].phase = "resolved" /\ Stored(g)' => Traced(g)'
               /\ req'[w].phase = "loaded" =>
                    /\ req'[w].loaded.is_active
                    /\ g \in Shares => req'[w].loaded.access_count <= visits'[g]
                    /\ Stored(g)' /\ req'[w].loaded.last # Null => grant'[g].last # Null
    <3>1. CASE req'[w] = req[w]
      <4>1. grant[g] # Unissued /\ g \in Grants
        BY <2>2, <3>1 DEF TracesAreKept
      <4>2. grant'[g] # Unissued
        BY <4>1, <1>2, GrantsAreGivenOnce
      <4>3. Stored(g)' => /\ Stored(g)
                          /\ Traced(g) => Traced(g)'
                          /\ grant[g].last # Null => grant'[g].last # Null
        BY <4>1, <1>2, TracesLast
      <4>4. CASE req[w].phase = "resolved"
        BY <2>2, <3>1, <4>2, <4>3, <4>4 DEF TracesAreKept
      <4>5. CASE req[w].phase = "loaded"
        <5>1. /\ req[w].loaded.is_active
              /\ g \in Shares => req[w].loaded.access_count <= visits[g]
              /\ Stored(g) /\ req[w].loaded.last # Null => grant[g].last # Null
          BY <2>2, <3>1, <4>5 DEF TracesAreKept
        <5>2. g \in Shares => req[w].loaded.access_count <= visits'[g]
          <6>1. req[w].loaded \in Rows
            BY <4>5, RequestFields DEF TypeOK
          <6>2. req[w].loaded.access_count \in Nat
            BY <6>1 DEF Rows
          <6>3. g \in Shares => visits[g] \in Nat /\ visits'[g] \in Nat /\ visits'[g] >= visits[g]
            BY <1>2, CountersKeepType, BoundsAssumption DEF TypeOK
          <6> QED
            BY <5>1, <6>2, <6>3
        <5> QED
          BY <3>1, <4>2, <4>3, <4>5, <5>1, <5>2
      <4> QED
        BY <2>2, <3>1, <4>4, <4>5
    <3>2. CASE /\ Stored(g) /\ ~ Shut(g) /\ grant' = grant
               /\ req'[w].phase = "loaded" /\ req'[w].loaded = grant[g]
      <4>1. grant[g] # Unissued /\ grant[g] # Deleted /\ grant[g] \in Rows
        BY <3>2 DEF Stored, TypeOK
      <4>2. grant[g].is_active
        BY <3>2, <4>1 DEF Shut
      <4>3. g \in Shares => grant[g].access_count <= visits'[g]
        <5>1. g \in Shares => grant[g].access_count <= visits[g]
          BY <3>2 DEF TracesAreKept
        <5>2. grant[g].access_count \in Nat
          BY <4>1 DEF Rows
        <5>3. g \in Shares => visits[g] \in Nat /\ visits'[g] \in Nat /\ visits'[g] >= visits[g]
          BY <1>2, CountersKeepType, BoundsAssumption DEF TypeOK
        <5> QED
          BY <5>1, <5>2, <5>3
      <4> QED
        BY <3>2, <4>1, <4>2, <4>3
    <3>3. CASE Commits(w, g) /\ req'[w].phase = "resolved"
      BY <3>3, CommitsLeaveTraces
    <3> QED
      BY <2>2, <3>1, <3>2, <3>3, <1>2, RequestsComeFrom
  <2>3. \A w \in Workers : req'[w].phase \in {"loaded", "resolved"} => req'[w].grant \in Grants
    <3>1. \A w \in Workers : req'[w] \in Requests \cup {Idle}
      BY <1>2, RequestsKeepType
    <3> QED
      BY <3>1, RequestFields DEF Grants
  <2> QED
    BY <2>1, <2>2, <2>3 DEF TracesAreKept
<1> QED
  BY <1>1, <1>2 DEF Next

\* Every use of a share, a token or an invitation left a trace in its row, although
\* several requests count visits by reading, adding and writing: the count is at
\* least one and never more than there were visits.
THEOREM EveryUseIsTraced == Spec => []UsesLeaveTraces
<1>1. TypeOK /\ TracesAreKept => UsesLeaveTraces
  <2> SUFFICES ASSUME TypeOK, TracesAreKept, NEW g \in Grants, Stored(g), uses[g] > 0
               PROVE  /\ grant[g].last # Null
                      /\ g \in Shares => grant[g].access_count \in 1 .. visits[g]
                      /\ g \in Invites => ~ grant[g].is_active
    BY DEF UsesLeaveTraces
  <2>1. Traced(g) /\ (g \in Shares => grant[g].access_count <= visits[g])
    BY DEF TracesAreKept
  <2>2. grant[g] \in Rows /\ (g \in Shares => visits[g] \in Nat)
    BY BoundsAssumption DEF Stored, TypeOK
  <2>3. grant[g].access_count \in Nat
    BY <2>2 DEF Rows
  <2> QED
    BY <2>1, <2>2, <2>3 DEF Traced
<1>2. TypeOK /\ TracesAreKept /\ [Next]_vars => TracesAreKept'
  BY TracesStep
<1>3. Spec => []TypeOK
  BY TypeCorrect, PTL
<1> QED
  BY TracesHoldInitially, <1>1, <1>2, <1>3, PTL DEF Spec
=============================================================================
