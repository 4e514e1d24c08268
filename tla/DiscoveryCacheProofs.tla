------------------------ MODULE DiscoveryCacheProofs ------------------------
(***************************************************************************)
(* Proofs about DiscoveryCache, for any number of server processes, of     *)
(* sign-ins in each and of issuers; about SiteSettings, for any number of   *)
(* requests and any values of the two groups of settings; and about        *)
(* ConnectionPool, for any number of requests, connections and threads.    *)
(***************************************************************************)
EXTENDS MCDiscovery, FiniteSetTheorems, TLAPS

-----------------------------------------------------------------------------
(***************************************************************************)
(* The inductive invariant                                                 *)
(***************************************************************************)
SignIns == Procs \X Callers

\* A document that the sign-in k may go on with.
IsFor(k, doc) ==
  /\ doc.issuer = call[k].issuer
  /\ doc.version >= call[k].floor[call[k].issuer]

\* Between its assignments and its return a sign-in holds the event loop, so the
\* document in the cache is its own or was cleared by the thread of an
\* invalidation, which has then met it.
SignInHolds(k) ==
  /\ call[k] # Idle => call[k].floor = floor[k[1]]
  /\ call[k].phase \in {"answered", "stored_doc", "stored_issuer", "stored"}
       => IsFor(k, call[k].doc)
  /\ call[k].phase \in {"stored_doc", "stored_issuer", "stored"}
       => cache[k[1]].doc \in {NoDoc, call[k].doc}
  /\ call[k].phase = "hit" /\ cache[k[1]].doc # NoDoc => IsFor(k, cache[k[1]].doc)
  /\ call[k].phase \in {"hit", "stored_doc", "stored_issuer", "stored"} /\ cache[k[1]].doc = NoDoc
       => k \in met
  /\ call[k].phase = "returned" => IF call[k].doc = NoDoc THEN k \in met ELSE IsFor(k, call[k].doc)

\* The document and the issuer of a cache agree unless a sign-in is between the
\* two assignments, and a fresh document is not older than the last invalidation
\* that met nobody.
CacheHolds(p) ==
  /\ cache[p].doc # NoDoc /\ cache[p].issuer # NoIssuer /\ cache[p].doc.issuer # cache[p].issuer
       => \E k \in SignIns : k[1] = p /\ call[k].phase = "stored_doc"
  /\ cache[p].doc # NoDoc /\ cache[p].fresh
       => cache[p].doc.version >= floor[p][cache[p].doc.issuer]

\* One sign-in of a process at a time has the event loop.
LoopIsShared ==
  \A k, j \in SignIns : k[1] = j[1] /\ Running(k) /\ Running(j) => k = j

DiscoveryInv ==
  /\ LoopIsShared
  /\ \A p \in Procs, i \in Issuers : floor[p][i] <= idp[i]
  /\ \A k \in SignIns : SignInHolds(k)
  /\ \A p \in Procs : CacheHolds(p)

-----------------------------------------------------------------------------
(***************************************************************************)
(* Type correctness                                                        *)
(***************************************************************************)
Storing == {"answered", "stored_doc", "stored_issuer", "stored"}

\* The phase of a sign-in tells which fields it has.
LEMMA CallFields ==
  ASSUME NEW q \in Calls \cup {Idle}
  PROVE  /\ q = Idle <=> q.phase = "idle"
         /\ q.phase \in {"idle", "asked", "hit", "fetching", "returned"} \cup Storing
         /\ q # Idle => q.issuer \in Issuers /\ q.floor \in Floors
         /\ q.phase \in Storing => q.doc \in Docs
         /\ q.phase = "returned" => q.doc \in Docs \cup {NoDoc}
  BY DEF Calls, Idle, Storing

\* A sign-in goes from one phase to the next with the fields it has.
LEMMA PhaseMoves ==
  ASSUME NEW q \in Calls \cup {Idle}, NEW phase, NEW r, r = [q EXCEPT !.phase = phase],
         \/ q.phase = "asked" /\ phase \in {"hit", "fetching"}
         \/ q.phase \in Storing /\ phase \in Storing
  PROVE  /\ r \in Calls
         /\ r.phase = phase /\ r.issuer = q.issuer /\ r.floor = q.floor
         /\ q.phase \in Storing => r.doc = q.doc
<1>1. CASE q.phase = "asked" /\ phase \in {"hit", "fetching"}
  <2>1. q \in [phase : {"asked", "hit", "fetching"}, issuer : Issuers, floor : Floors]
    BY <1>1 DEF Calls, Idle
  <2> QED
    BY <1>1, <2>1 DEF Calls, Storing
<1>2. CASE q.phase \in Storing /\ phase \in Storing
  <2>1. q \in [phase : Storing, doc : Docs, issuer : Issuers, floor : Floors]
    BY <1>2 DEF Calls, Idle, Storing
  <2> QED
    BY <1>2, <2>1 DEF Calls, Storing
<1> QED
  BY <1>1, <1>2

\* A document is not the missing one, and neither is an issuer.
LEMMA DocsAreThere ==
  ASSUME NEW d \in Docs
  PROVE  d # NoDoc /\ d.issuer \in Issuers /\ d.issuer # NoIssuer /\ d.version \in Versions
  BY NoIssuerAssumption DEF Docs, NoDoc

LEMMA TypeHoldsInitially == Init => TypeOK
  BY MaxVersionAssumption DEF Init, TypeOK, Caches, NoDoc, Floors, Versions, AdminPhases

LEMMA TypeStep ==
  ASSUME TypeOK, [Next]_vars
  PROVE  TypeOK'
<1>1. /\ config \in Issuers \cup {NoIssuer}
      /\ idp \in [Issuers -> Versions]
      /\ cache \in [Procs -> Caches]
      /\ call \in [SignIns -> Calls \cup {Idle}]
      /\ admin \in [Procs -> AdminPhases]
      /\ floor \in [Procs -> Floors]
      /\ met \subseteq SignIns
  BY DEF TypeOK, SignIns
<1>2. \A k \in SignIns : k[1] \in Procs
  BY DEF SignIns
<1>3. Floors = [Issuers -> Versions]
  BY DEF Floors
<1>4. ASSUME NEW p \in Procs
      PROVE  NewFloor(p) \in [Procs -> Floors]
  BY <1>1, <1>3 DEF NewFloor
<1>5. ASSUME NEW p \in Procs
      PROVE  InProgress(p) \subseteq SignIns
  BY DEF InProgress, SignIns
<1>6. ASSUME NEW k \in SignIns, NEW r \in Calls \cup {Idle}, call' = [call EXCEPT ![k] = r]
      PROVE  call' \in [SignIns -> Calls \cup {Idle}]
  BY <1>1, <1>6
<1>7. ASSUME NEW p \in Procs, NEW c \in Caches, cache' = [cache EXCEPT ![p] = c]
      PROVE  cache' \in [Procs -> Caches]
  BY <1>1, <1>7
<1> SUFFICES /\ config' \in Issuers \cup {NoIssuer}
             /\ idp' \in [Issuers -> Versions]
             /\ cache' \in [Procs -> Caches]
             /\ call' \in [SignIns -> Calls \cup {Idle}]
             /\ admin' \in [Procs -> AdminPhases]
             /\ floor' \in [Procs -> Floors]
             /\ met' \subseteq SignIns
  BY DEF TypeOK, SignIns
<1>8. CASE \E k \in SignIns : Ask(k)
  <2>1. PICK k \in SignIns : Ask(k)
    BY <1>8
  <2>2. GetOidcConfig \in Issuers
    BY <1>1, <2>1, EnvIssuerAssumption DEF Ask, GetOidcConfig
  <2>3. [phase |-> "asked", issuer |-> GetOidcConfig, floor |-> floor[k[1]]] \in Calls
    BY <1>1, <1>2, <2>2 DEF Calls
  <2> QED
    BY <1>1, <1>6, <2>1, <2>3 DEF Ask, history
<1>9. CASE \E k \in SignIns : LookUp(k)
  <2>1. PICK k \in SignIns : LookUp(k)
    BY <1>9
  <2>2. [call[k] EXCEPT !.phase = IF IsHit(cache[k[1]], call[k].issuer)
                                  THEN "hit" ELSE "fetching"] \in Calls
    BY <1>1, <2>1, PhaseMoves DEF LookUp
  <2> QED
    BY <1>1, <1>6, <2>1, <2>2 DEF LookUp, Enter, history
<1>10. CASE \E k \in SignIns : Respond(k)
  <2>1. PICK k \in SignIns : Respond(k)
    BY <1>10
  <2>2. call[k].issuer \in Issuers /\ call[k].floor \in Floors
    BY <1>1, <2>1, CallFields DEF Respond, Idle
  <2>3. [phase |-> "answered", issuer |-> call[k].issuer, floor |-> call[k].floor,
         doc |-> [issuer |-> call[k].issuer, version |-> idp[call[k].issuer]]] \in Calls
    BY <1>1, <2>2 DEF Calls, Docs
  <2> QED
    BY <1>1, <1>6, <2>1, <2>3 DEF Respond, history
<1>11. CASE \E k \in SignIns : StoreDoc(k)
  <2>1. PICK k \in SignIns : StoreDoc(k)
    BY <1>11
  <2>2. call[k].phase \in Storing /\ "stored_doc" \in Storing
    BY <2>1 DEF StoreDoc, Storing
  <2>3. [call[k] EXCEPT !.phase = "stored_doc"] \in Calls
    BY <1>1, <2>2, PhaseMoves
  <2>4. [cache[k[1]] EXCEPT !.doc = call[k].doc] \in Caches
    <3>1. call[k].doc \in Docs
      BY <1>1, <2>2, CallFields
    <3> QED
      BY <1>1, <1>2, <3>1 DEF Caches
  <2> QED
    BY <1>1, <1>2, <1>6, <1>7, <2>1, <2>3, <2>4 DEF StoreDoc, Enter, history
<1>12. CASE \E k \in SignIns : StoreIssuer(k)
  <2>1. PICK k \in SignIns : StoreIssuer(k)
    BY <1>12
  <2>2. call[k].phase \in Storing /\ "stored_issuer" \in Storing /\ call[k] # Idle
    BY <2>1 DEF StoreIssuer, Storing, Idle
  <2>3. [call[k] EXCEPT !.phase = "stored_issuer"] \in Calls
    BY <1>1, <2>2, PhaseMoves
  <2>4. [cache[k[1]] EXCEPT !.issuer = call[k].issuer] \in Caches
    <3>1. call[k].issuer \in Issuers
      BY <1>1, <2>2, CallFields
    <3> QED
      BY <1>1, <1>2, <3>1 DEF Caches
  <2> QED
    BY <1>1, <1>2, <1>6, <1>7, <2>1, <2>3, <2>4 DEF StoreIssuer, Enter, history
<1>13. CASE \E k \in SignIns : StoreTime(k)
  <2>1. PICK k \in SignIns : StoreTime(k)
    BY <1>13
  <2>2. call[k].phase \in Storing /\ "stored" \in Storing
    BY <2>1 DEF StoreTime, Storing
  <2>3. [call[k] EXCEPT !.phase = "stored"] \in Calls
    BY <1>1, <2>2, PhaseMoves
  <2>4. [cache[k[1]] EXCEPT !.fresh = TRUE] \in Caches
    BY <1>1, <1>2 DEF Caches
  <2> QED
    BY <1>1, <1>2, <1>6, <1>7, <2>1, <2>3, <2>4 DEF StoreTime, Enter, history
<1>14. CASE \E k \in SignIns : Return(k)
  <2>1. PICK k \in SignIns : Return(k)
    BY <1>14
  <2>2. call[k].issuer \in Issuers /\ call[k].floor \in Floors
    BY <1>1, <2>1, CallFields DEF Return, Idle
  <2>3. cache[k[1]].doc \in Docs \cup {NoDoc}
    BY <1>1, <1>2 DEF Caches
  <2>4. [phase |-> "returned", issuer |-> call[k].issuer, floor |-> call[k].floor,
         doc |-> cache[k[1]].doc] \in Calls
    BY <2>2, <2>3 DEF Calls
  <2> QED
    BY <1>1, <1>6, <2>1, <2>4 DEF Return, history
<1>15. CASE \E k \in SignIns : Finish(k)
  BY <1>1, <1>6, <1>15 DEF Finish
<1>16. CASE \E p \in Procs : UpdateConfig(p) \/ ClearConfig(p)
  BY <1>1, <1>16 DEF UpdateConfig, ClearConfig, AdminPhases, history
<1>17. CASE \E p \in Procs : ClearDoc(p)
  <2>1. PICK p \in Procs : ClearDoc(p)
    BY <1>17
  <2>2. [cache[p] EXCEPT !.doc = NoDoc] \in Caches
    BY <1>1 DEF Caches
  <2> QED
    BY <1>1, <1>5, <1>7, <2>1, <2>2 DEF ClearDoc, AdminPhases
<1>18. CASE \E p \in Procs : ClearIssuer(p)
  <2>1. PICK p \in Procs : ClearIssuer(p)
    BY <1>18
  <2>2. [cache[p] EXCEPT !.issuer = NoIssuer] \in Caches
    BY <1>1 DEF Caches
  <2> QED
    BY <1>1, <1>7, <2>1, <2>2 DEF ClearIssuer, AdminPhases, history
<1>19. CASE \E p \in Procs : ClearTime(p) \/ Age(p)
  <2>1. PICK p \in Procs : ClearTime(p) \/ Age(p)
    BY <1>19
  <2>2. [cache[p] EXCEPT !.fresh = FALSE] \in Caches
    BY <1>1 DEF Caches
  <2> QED
    BY <1>1, <1>4, <1>7, <2>1, <2>2 DEF ClearTime, Age, AdminPhases, history
<1>20. CASE \E p \in Procs : TestConfig(p)
  <2>1. [doc |-> NoDoc, issuer |-> NoIssuer, fresh |-> FALSE] \in Caches
    BY DEF Caches
  <2> QED
    BY <1>1, <1>4, <1>5, <1>7, <1>20, <2>1 DEF TestConfig
<1>21. CASE \E i \in Issuers : Publish(i)
  BY <1>1, <1>21, MaxVersionAssumption DEF Publish, Versions, history
<1>22. CASE UNCHANGED vars
  BY <1>1, <1>22 DEF vars
<1> QED
  BY <1>8, <1>9, <1>10, <1>11, <1>12, <1>13, <1>14, <1>15, <1>16, <1>17, <1>18, <1>19, <1>20,
     <1>21, <1>22 DEF Next, SignIns

-----------------------------------------------------------------------------
(***************************************************************************)
(* The invariant is kept                                                   *)
(***************************************************************************)
LEMMA DiscoveryHoldsInitially == Init => DiscoveryInv
<1> SUFFICES ASSUME Init PROVE DiscoveryInv
  OBVIOUS
<1>1. LoopIsShared
  BY DEF Init, LoopIsShared, Running, SignIns, Idle
<1>2. \A p \in Procs, i \in Issuers : floor[p][i] <= idp[i]
  BY DEF Init
<1>3. \A k \in SignIns : SignInHolds(k)
  BY DEF Init, SignInHolds, SignIns, Idle
<1>4. \A p \in Procs : CacheHolds(p)
  BY DEF Init, CacheHolds
<1> QED
  BY <1>1, <1>2, <1>3, <1>4 DEF DiscoveryInv

\* A sign-in that does not move: what its process does to the cache meanwhile
\* concerns it only if it has the event loop, and then the document is as it
\* was, or is gone and the sign-in has been met.
LEMMA OthersStandStill ==
  ASSUME TypeOK, NEW j \in SignIns, SignInHolds(j),
         call'[j] = call[j],
         call[j] # Idle => floor'[j[1]] = floor[j[1]],
         j \in met => j \in met',
         Running(j) /\ call[j].phase # "answered" =>
           \/ cache'[j[1]].doc = cache[j[1]].doc
           \/ cache'[j[1]].doc = NoDoc /\ j \in met'
  PROVE  SignInHolds(j)'
<1>1. \A doc : IsFor(j, doc)' <=> IsFor(j, doc)
  BY DEF IsFor
<1>2. call[j] = Idle <=> call[j].phase = "idle"
  BY CallFields DEF TypeOK, SignIns
<1>3. CASE Running(j) /\ call[j].phase # "answered"
  BY <1>1, <1>3 DEF SignInHolds, Running, IsFor
<1>4. CASE ~ (Running(j) /\ call[j].phase # "answered")
  BY <1>1, <1>2, <1>4 DEF SignInHolds, Running, IsFor
<1> QED
  BY <1>3, <1>4

\* Only a sign-in that finds the event loop free begins to run.
LEMMA LoopStaysShared ==
  ASSUME TypeOK, LoopIsShared, Next
  PROVE  LoopIsShared'
<1>1. DOMAIN call = SignIns
  BY DEF TypeOK, SignIns
<1>2. ASSUME NEW k \in SignIns,
             \A j \in SignIns \ {k} : call'[j] = call[j],
             \/ Running(k)
             \/ LoopIsFree(k[1], k)
             \/ call'[k].phase \in {"idle", "asked", "returned"}
      PROVE  LoopIsShared'
  BY <1>2 DEF LoopIsShared, LoopIsFree, Running, SignIns
<1>3. CASE \E k \in SignIns : Ask(k) \/ LookUp(k) \/ Respond(k)
  BY <1>1, <1>2, <1>3 DEF Ask, LookUp, Respond, Enter
<1>4. CASE \E k \in SignIns : StoreDoc(k) \/ StoreIssuer(k) \/ StoreTime(k) \/ Return(k)
  BY <1>1, <1>2, <1>4 DEF StoreDoc, StoreIssuer, StoreTime, Return, Enter, Running
<1>5. CASE \E k \in SignIns : Finish(k)
  BY <1>1, <1>2, <1>5 DEF Finish, Idle
<1>6. CASE \/ \E p \in Procs : \/ UpdateConfig(p) \/ ClearConfig(p) \/ TestConfig(p)
                               \/ ClearDoc(p) \/ ClearIssuer(p) \/ ClearTime(p) \/ Age(p)
           \/ \E i \in Issuers : Publish(i)
  <2>1. UNCHANGED call
    BY <1>6 DEF UpdateConfig, ClearConfig, TestConfig, ClearDoc, ClearIssuer, ClearTime, Age, Publish
  <2> QED
    BY <2>1 DEF LoopIsShared, Running
<1> QED
  BY <1>3, <1>4, <1>5, <1>6 DEF Next, SignIns

\* Floors follow the documents that are published.
LEMMA FloorsStayPast ==
  ASSUME TypeOK, DiscoveryInv, Next
  PROVE  \A p \in Procs, i \in Issuers : floor'[p][i] <= idp'[i]
<1>1. \A i \in Issuers : idp[i] \in Nat
  BY MaxVersionAssumption DEF TypeOK, Versions
<1>2. \A p \in Procs, i \in Issuers : floor[p][i] \in Nat /\ floor[p][i] <= idp[i]
  BY MaxVersionAssumption DEF TypeOK, Floors, Versions, DiscoveryInv
<1>3. CASE \E p \in Procs : ClearTime(p) \/ TestConfig(p)
  <2>1. PICK p \in Procs : floor' = NewFloor(p) /\ idp' = idp
    BY <1>3 DEF ClearTime, TestConfig
  <2> QED
    BY <1>1, <1>2, <2>1 DEF NewFloor, TypeOK
<1>4. CASE \E i \in Issuers : Publish(i)
  <2>1. PICK i \in Issuers : floor' = floor /\ idp' = [idp EXCEPT ![i] = @ + 1]
    BY <1>4 DEF Publish, history
  <2>2. \A h \in Issuers : idp'[h] >= idp[h] /\ idp'[h] \in Nat
    BY <1>1, <2>1 DEF TypeOK
  <2> QED
    BY <1>1, <1>2, <2>1, <2>2
<1>5. CASE UNCHANGED <<floor, idp>>
  BY <1>2, <1>5
<1>6. CASE \/ \E k \in SignIns : \/ Ask(k) \/ LookUp(k) \/ Respond(k) \/ StoreDoc(k)
                                 \/ StoreIssuer(k) \/ StoreTime(k) \/ Return(k) \/ Finish(k)
           \/ \E p \in Procs : \/ UpdateConfig(p) \/ ClearConfig(p)
                               \/ ClearDoc(p) \/ ClearIssuer(p) \/ Age(p)
  <2>1. UNCHANGED <<floor, idp>>
    BY <1>6 DEF Ask, LookUp, Respond, StoreDoc, StoreIssuer, StoreTime, Return, Finish,
                UpdateConfig, ClearConfig, ClearDoc, ClearIssuer, Age, history
  <2> QED
    BY <2>1, <1>5
<1> QED
  BY <1>3, <1>4, <1>6 DEF Next, SignIns

\* The sign-in that moves.
LEMMA SignInStep ==
  ASSUME TypeOK, DiscoveryInv, NEW k \in SignIns,
         \/ Ask(k) \/ LookUp(k) \/ Respond(k) \/ StoreDoc(k)
         \/ StoreIssuer(k) \/ StoreTime(k) \/ Return(k) \/ Finish(k)
  PROVE  SignInHolds(k)'
<1>1. /\ call \in [SignIns -> Calls \cup {Idle}] /\ call[k] \in Calls \cup {Idle}
      /\ cache \in [Procs -> Caches] /\ k[1] \in Procs
      /\ floor \in [Procs -> Floors]
  BY DEF TypeOK, SignIns
<1>2. SignInHolds(k) /\ CacheHolds(k[1])
  BY <1>1 DEF DiscoveryInv
<1>3. CASE Ask(k)
  BY <1>1, <1>3 DEF Ask, SignInHolds, history, Idle
<1>4. CASE LookUp(k)
  <2> DEFINE c == cache[k[1]]
  <2>1. /\ call[k].phase = "asked" /\ call[k] # Idle
        /\ call'[k] = [call[k] EXCEPT !.phase = IF IsHit(c, call[k].issuer)
                                                THEN "hit" ELSE "fetching"]
        /\ UNCHANGED <<cache, floor, met>>
    BY <1>1, <1>4 DEF LookUp, Enter, history, Idle
  <2>2. /\ call'[k].phase = IF IsHit(c, call[k].issuer) THEN "hit" ELSE "fetching"
        /\ call'[k].issuer = call[k].issuer /\ call'[k].floor = call[k].floor
        /\ call'[k] # Idle
    <3>1. call'[k] \in Calls
      BY <1>1, <2>1, PhaseMoves
    <3> QED
      BY <1>1, <2>1, <3>1, PhaseMoves DEF Idle
  <2>3. call[k].issuer \in Issuers /\ call[k].floor = floor[k[1]]
    BY <1>1, <1>2, <2>1, CallFields DEF SignInHolds
  <2>4. ASSUME IsHit(c, call[k].issuer)
        PROVE  c.doc # NoDoc /\ IsFor(k, c.doc)
    <3>1. c.doc # NoDoc /\ c.issuer = call[k].issuer /\ c.fresh
      BY <2>4 DEF IsHit
    <3>2. c.issuer # NoIssuer
      BY <2>3, <3>1, NoIssuerAssumption
    <3>3. \A j \in SignIns : j[1] = k[1] /\ j # k => ~ Running(j)
      BY <1>4 DEF LookUp, LoopIsFree, SignIns
    <3>4. \A j \in SignIns : j[1] = k[1] => call[j].phase # "stored_doc"
      BY <2>1, <3>3 DEF Running
    <3>5. c.doc.issuer = c.issuer
      BY <1>2, <3>1, <3>2, <3>4 DEF CacheHolds
    <3> QED
      BY <1>2, <2>3, <3>1, <3>5 DEF CacheHolds, IsFor
  <2> QED
    BY <2>1, <2>2, <2>3, <2>4 DEF SignInHolds, IsFor
<1>5. CASE Respond(k)
  <2>1. call[k].phase = "fetching" /\ call[k] # Idle
    BY <1>5 DEF Respond, Idle
  <2>2. /\ call[k].issuer \in Issuers /\ call[k].floor = floor[k[1]]
        /\ floor[k[1]][call[k].issuer] <= idp[call[k].issuer]
    BY <1>1, <1>2, <2>1, CallFields DEF SignInHolds, DiscoveryInv
  <2>3. /\ call'[k] = [phase |-> "answered", issuer |-> call[k].issuer, floor |-> call[k].floor,
                       doc |-> [issuer |-> call[k].issuer, version |-> idp[call[k].issuer]]]
        /\ UNCHANGED <<cache, floor, met>>
    BY <1>1, <1>5 DEF Respond, history
  <2>4. idp[call[k].issuer] >= floor[k[1]][call[k].issuer]
    BY <1>1, <2>2, MaxVersionAssumption DEF TypeOK, Floors, Versions
  <2> QED
    BY <2>2, <2>3, <2>4 DEF SignInHolds, IsFor, Idle
<1>6. CASE StoreDoc(k) \/ StoreIssuer(k) \/ StoreTime(k)
  <2>1. PICK phase \in {"stored_doc", "stored_issuer", "stored"} :
          /\ call' = [call EXCEPT ![k].phase = phase]
          /\ \/ phase = "stored_doc" /\ StoreDoc(k)
             \/ phase = "stored_issuer" /\ StoreIssuer(k)
             \/ phase = "stored" /\ StoreTime(k)
    BY <1>6 DEF StoreDoc, StoreIssuer, StoreTime, Enter
  <2>2. call[k].phase \in Storing /\ phase \in Storing /\ call[k] # Idle
    BY <1>6, <2>1 DEF StoreDoc, StoreIssuer, StoreTime, Storing, Idle
  <2>3. call'[k] = [call[k] EXCEPT !.phase = phase]
    BY <1>1, <2>1
  <2>4. /\ call'[k].phase = phase
        /\ call'[k].issuer = call[k].issuer /\ call'[k].floor = call[k].floor
        /\ call'[k].doc = call[k].doc
    BY <1>1, <2>2, <2>3, PhaseMoves
  <2>5. cache'[k[1]].doc = IF phase = "stored_doc" THEN call[k].doc ELSE cache[k[1]].doc
    BY <1>1, <2>1 DEF StoreDoc, StoreIssuer, StoreTime, Caches
  <2>6. UNCHANGED <<floor, met>>
    BY <1>6 DEF StoreDoc, StoreIssuer, StoreTime, history
  <2>7. call[k].doc \in Docs /\ call[k].doc # NoDoc
    BY <1>1, <2>2, CallFields, DocsAreThere
  <2>8. phase = "stored_doc" \/ call[k].phase \in {"stored_doc", "stored_issuer"}
    BY <2>1 DEF StoreIssuer, StoreTime
  <2> QED
    BY <1>2, <2>1, <2>2, <2>4, <2>5, <2>6, <2>7, <2>8 DEF SignInHolds, IsFor, Storing
<1>7. CASE Return(k)
  <2>1. /\ call[k].phase \in {"hit", "stored"} /\ call[k] # Idle
        /\ call'[k] = [phase |-> "returned", issuer |-> call[k].issuer, floor |-> call[k].floor,
                       doc |-> cache[k[1]].doc]
        /\ UNCHANGED <<cache, floor, met>>
    BY <1>1, <1>7 DEF Return, history, Idle
  <2> QED
    BY <1>2, <2>1 DEF SignInHolds, IsFor
<1>8. CASE Finish(k)
  BY <1>1, <1>8 DEF Finish, SignInHolds, Idle
<1> QED
  BY <1>3, <1>4, <1>5, <1>6, <1>7, <1>8

\* A sign-in that moves has no effect on the others of its process: it stores
\* only while it has the event loop, and nobody else has.
LEMMA OthersHold ==
  ASSUME TypeOK, DiscoveryInv, NEW k \in SignIns, NEW j \in SignIns, j # k,
         \/ Ask(k) \/ LookUp(k) \/ Respond(k) \/ StoreDoc(k)
         \/ StoreIssuer(k) \/ StoreTime(k) \/ Return(k) \/ Finish(k)
  PROVE  SignInHolds(j)'
<1>1. DOMAIN call = SignIns /\ DOMAIN cache = Procs
  BY DEF TypeOK, SignIns
<1>2. SignInHolds(j)
  BY DEF DiscoveryInv
<1>3. call'[j] = call[j] /\ floor' = floor /\ (j \in met => j \in met')
  BY <1>1 DEF Ask, LookUp, Respond, StoreDoc, StoreIssuer, StoreTime, Return, Finish, Enter, history
<1>4. Running(j) => cache'[j[1]] = cache[j[1]]
  <2>1. CASE cache' = cache
    BY <2>1
  <2>2. CASE Running(k) /\ (\A p \in Procs \ {k[1]} : cache'[p] = cache[p])
    BY <2>2 DEF DiscoveryInv, LoopIsShared, SignIns
  <2>3. CASE StoreDoc(k) \/ StoreIssuer(k) \/ StoreTime(k)
    <3>1. Running(k) /\ (\A p \in Procs \ {k[1]} : cache'[p] = cache[p])
      BY <2>3, <1>1 DEF StoreDoc, StoreIssuer, StoreTime, Running
    <3> QED
      BY <3>1, <2>2
  <2>4. CASE Ask(k) \/ LookUp(k) \/ Respond(k) \/ Return(k) \/ Finish(k)
    BY <2>1, <2>4 DEF Ask, LookUp, Respond, Return, Finish
  <2> QED
    BY <2>3, <2>4
<1> QED
  BY <1>2, <1>3, <1>4, OthersStandStill

\* Neither the provider, nor the clock, nor an administrator moves a sign-in; an
\* invalidation that takes its document away has met it.
LEMMA SignInsStandInvalidation ==
  ASSUME TypeOK, DiscoveryInv, NEW j \in SignIns,
         \/ \E p \in Procs : \/ UpdateConfig(p) \/ ClearConfig(p) \/ TestConfig(p)
                             \/ ClearDoc(p) \/ ClearIssuer(p) \/ ClearTime(p) \/ Age(p)
         \/ \E i \in Issuers : Publish(i)
  PROVE  SignInHolds(j)'
<1>1. cache \in [Procs -> Caches] /\ floor \in [Procs -> Floors] /\ j[1] \in Procs
  BY DEF TypeOK, SignIns
<1>2. SignInHolds(j)
  BY DEF DiscoveryInv
<1>3. call' = call
  BY DEF UpdateConfig, ClearConfig, TestConfig, ClearDoc, ClearIssuer, ClearTime, Age, Publish
\* A floor is raised when no sign-in of the process is in progress.
<1>4. ASSUME NEW p \in Procs, floor' = NewFloor(p), call[j] # Idle
      PROVE  floor'[j[1]] = floor[j[1]]
  <2>1. CASE p = j[1]
    <3>1. j \in InProgress(p)
      BY <1>4, <2>1 DEF InProgress, SignIns
    <3> QED
      BY <1>1, <1>4, <2>1, <3>1 DEF NewFloor
  <2>2. CASE p # j[1]
    BY <1>1, <1>4, <2>2 DEF NewFloor
  <2> QED
    BY <2>1, <2>2
<1>5. CASE \E p \in Procs : ClearDoc(p)
  <2>1. PICK p \in Procs : ClearDoc(p)
    BY <1>5
  <2>2. floor' = floor /\ (j \in met => j \in met')
    BY <2>1 DEF ClearDoc
  <2>3. Running(j) => \/ cache'[j[1]].doc = cache[j[1]].doc
                      \/ cache'[j[1]].doc = NoDoc /\ j \in met'
    <3>1. CASE p = j[1]
      <4>1. Running(j) => j \in InProgress(p)
        BY <3>1 DEF InProgress, Running, Idle, SignIns
      <4>2. cache'[p].doc = NoDoc
        BY <1>1, <2>1 DEF ClearDoc, Caches
      <4> QED
        BY <2>1, <3>1, <4>1, <4>2 DEF ClearDoc
    <3>2. CASE p # j[1]
      BY <1>1, <2>1, <3>2 DEF ClearDoc
    <3> QED
      BY <3>1, <3>2
  <2> QED
    BY <1>2, <1>3, <2>2, <2>3, OthersStandStill
<1>6. CASE \E p \in Procs : TestConfig(p)
  <2>1. PICK p \in Procs : TestConfig(p)
    BY <1>6
  <2>2. /\ j \in met => j \in met'
        /\ call[j] # Idle => floor'[j[1]] = floor[j[1]]
    BY <2>1, <1>4 DEF TestConfig
  <2>3. Running(j) => cache'[j[1]] = cache[j[1]]
    BY <1>1, <2>1 DEF TestConfig, SignIns
  <2> QED
    BY <1>2, <1>3, <2>2, <2>3, OthersStandStill
<1>7. CASE \E p \in Procs : ClearIssuer(p) \/ Age(p) \/ ClearTime(p)
  <2>1. PICK p \in Procs : ClearIssuer(p) \/ Age(p) \/ ClearTime(p)
    BY <1>7
  <2>2. /\ met' = met
        /\ call[j] # Idle => floor'[j[1]] = floor[j[1]]
    BY <2>1, <1>4 DEF ClearIssuer, Age, ClearTime, history
  <2>3. cache'[j[1]].doc = cache[j[1]].doc
    <3>1. CASE p = j[1]
      BY <1>1, <2>1, <3>1 DEF ClearIssuer, Age, ClearTime, Caches
    <3>2. CASE p # j[1]
      BY <1>1, <2>1, <3>2 DEF ClearIssuer, Age, ClearTime
    <3> QED
      BY <3>1, <3>2
  <2> QED
    BY <1>2, <1>3, <2>2, <2>3, OthersStandStill
<1>8. CASE \/ \E p \in Procs : UpdateConfig(p) \/ ClearConfig(p)
           \/ \E i \in Issuers : Publish(i)
  <2>1. UNCHANGED <<cache, floor, met>>
    BY <1>8 DEF UpdateConfig, ClearConfig, Publish, history
  <2> QED
    BY <1>2, <1>3, <2>1, OthersStandStill
<1> QED
  BY <1>5, <1>6, <1>7, <1>8

\* A cache: what a sign-in stores is newer than the last invalidation that met
\* nobody, since that one has not met it; what is older is not fresh.
LEMMA CachesHold ==
  ASSUME TypeOK, DiscoveryInv, Next, NEW p \in Procs
  PROVE  CacheHolds(p)'
<1>1. /\ cache \in [Procs -> Caches] /\ cache[p] \in Caches
      /\ call \in [SignIns -> Calls \cup {Idle}]
      /\ floor \in [Procs -> Floors]
  BY DEF TypeOK, SignIns
<1>2. CacheHolds(p)
  BY DEF DiscoveryInv
\* Nothing happens to the cache, and no sign-in leaves the phase between the two
\* assignments.
<1>3. ASSUME cache'[p] = cache[p],
             floor'[p] = floor[p],
             \A k \in SignIns : k[1] = p /\ call[k].phase = "stored_doc" => call'[k] = call[k]
      PROVE  CacheHolds(p)'
  BY <1>2, <1>3 DEF CacheHolds
\* The document is gone, or its issuer or time is.
<1>4. ASSUME cache'[p].doc = cache[p].doc \/ cache'[p].doc = NoDoc,
             cache'[p].issuer = cache[p].issuer \/ cache'[p].issuer = NoIssuer,
             cache'[p].fresh = cache[p].fresh \/ ~ cache'[p].fresh,
             floor'[p] = floor[p] \/ ~ cache'[p].fresh,
             call' = call
      PROVE  CacheHolds(p)'
  <2>1. \A k \in SignIns : call'[k] = call[k]
    BY <1>4
  <2> QED
    BY <1>2, <1>4, <2>1 DEF CacheHolds
<1>5. ASSUME NEW k \in SignIns, k[1] # p,
             \/ Ask(k) \/ LookUp(k) \/ Respond(k) \/ StoreDoc(k)
             \/ StoreIssuer(k) \/ StoreTime(k) \/ Return(k) \/ Finish(k)
      PROVE  CacheHolds(p)'
  <2>1. /\ cache'[p] = cache[p] /\ floor' = floor
        /\ \A j \in SignIns : j[1] = p => call'[j] = call[j]
    BY <1>1, <1>5 DEF Ask, LookUp, Respond, StoreDoc, StoreIssuer, StoreTime, Return, Finish,
                      Enter, history
  <2> QED
    BY <1>3, <2>1
<1>6. ASSUME NEW k \in SignIns, k[1] = p,
             Ask(k) \/ LookUp(k) \/ Respond(k) \/ Return(k) \/ Finish(k)
      PROVE  CacheHolds(p)'
  <2>1. /\ cache' = cache /\ floor' = floor
        /\ \A j \in SignIns : call[j].phase = "stored_doc" => call'[j] = call[j]
    BY <1>1, <1>6 DEF Ask, LookUp, Respond, Return, Finish, Enter, history, Idle
  <2> QED
    BY <1>3, <2>1
<1>7. ASSUME NEW k \in SignIns, k[1] = p, StoreDoc(k)
      PROVE  CacheHolds(p)'
  <2>1. /\ call[k].phase = "answered" /\ call[k] # Idle
        /\ cache'[p].doc = call[k].doc /\ floor' = floor
    BY <1>1, <1>7 DEF StoreDoc, Enter, history, Caches, Idle
  <2>2. call'[k].phase = "stored_doc"
    <3>1. call'[k] = [call[k] EXCEPT !.phase = "stored_doc"]
      BY <1>1, <1>7 DEF StoreDoc, Enter
    <3>2. call[k].phase \in Storing /\ "stored_doc" \in Storing
      BY <2>1 DEF Storing
    <3> QED
      BY <1>1, <3>1, <3>2, PhaseMoves
  <2>3. IsFor(k, call[k].doc) /\ call[k].floor = floor[p]
    BY <1>7, <2>1 DEF DiscoveryInv, SignInHolds
  <2> QED
    BY <1>7, <2>1, <2>2, <2>3 DEF CacheHolds, IsFor
<1>8. ASSUME NEW k \in SignIns, k[1] = p, StoreIssuer(k)
      PROVE  CacheHolds(p)'
  <2>1. /\ call[k].phase = "stored_doc" /\ call[k] # Idle
        /\ cache'[p].doc = cache[p].doc /\ cache'[p].issuer = call[k].issuer
        /\ cache'[p].fresh = cache[p].fresh /\ floor' = floor
    BY <1>1, <1>8 DEF StoreIssuer, Enter, history, Caches, Idle
  <2>2. cache[p].doc # NoDoc => cache[p].doc.issuer = call[k].issuer
    BY <1>8, <2>1 DEF DiscoveryInv, SignInHolds, IsFor
  <2> QED
    BY <1>2, <2>1, <2>2 DEF CacheHolds
<1>9. ASSUME NEW k \in SignIns, k[1] = p, StoreTime(k)
      PROVE  CacheHolds(p)'
  <2>1. /\ call[k].phase = "stored_issuer" /\ call[k] # Idle
        /\ cache'[p].doc = cache[p].doc /\ cache'[p].issuer = cache[p].issuer
        /\ floor' = floor
        /\ \A j \in SignIns : call[j].phase = "stored_doc" => call'[j] = call[j]
    BY <1>1, <1>9 DEF StoreTime, Enter, history, Caches, Idle
  <2>2. cache[p].doc # NoDoc => /\ IsFor(k, cache[p].doc)
                                /\ call[k].floor = floor[p]
    BY <1>9, <2>1 DEF DiscoveryInv, SignInHolds
  <2> QED
    BY <1>2, <2>1, <2>2 DEF CacheHolds, IsFor
<1>10. CASE \E q \in Procs : TestConfig(q)
  <2>1. PICK q \in Procs : TestConfig(q)
    BY <1>10
  <2>2. CASE q = p
    BY <1>1, <2>1, <2>2, <1>4 DEF TestConfig
  <2>3. CASE q # p
    BY <1>1, <2>1, <2>3, <1>4 DEF TestConfig, NewFloor
  <2> QED
    BY <2>2, <2>3
<1>11. CASE \E q \in Procs : ClearDoc(q) \/ ClearIssuer(q) \/ ClearTime(q) \/ Age(q)
  <2>1. PICK q \in Procs : ClearDoc(q) \/ ClearIssuer(q) \/ ClearTime(q) \/ Age(q)
    BY <1>11
  <2>2. CASE q = p
    <3>1. CASE ClearDoc(q)
      BY <1>1, <1>4, <2>2, <3>1 DEF ClearDoc, Caches
    <3>2. CASE ClearIssuer(q)
      BY <1>1, <1>4, <2>2, <3>2 DEF ClearIssuer, Caches, history
    <3>3. CASE ClearTime(q) \/ Age(q)
      <4>1. /\ cache'[p].doc = cache[p].doc /\ cache'[p].issuer = cache[p].issuer
            /\ cache'[p].fresh = FALSE /\ call' = call
        BY <1>1, <2>2, <3>3 DEF ClearTime, Age, Caches
      <4> QED
        BY <1>4, <4>1
    <3> QED
      BY <2>1, <3>1, <3>2, <3>3
  <2>3. CASE q # p
    <3>1. cache'[p] = cache[p] /\ floor'[p] = floor[p] /\ call' = call
      BY <1>1, <2>1, <2>3 DEF ClearDoc, ClearIssuer, ClearTime, Age, NewFloor, history
    <3> QED
      BY <1>3, <3>1
  <2> QED
    BY <2>2, <2>3
<1>12. CASE \/ \E q \in Procs : UpdateConfig(q) \/ ClearConfig(q)
            \/ \E i \in Issuers : Publish(i)
  <2>1. UNCHANGED <<cache, floor, call>>
    BY <1>12 DEF UpdateConfig, ClearConfig, Publish, history
  <2> QED
    BY <1>3, <2>1
<1> QED
  BY <1>5, <1>6, <1>7, <1>8, <1>9, <1>10, <1>11, <1>12 DEF Next, SignIns

LEMMA DiscoveryStep ==
  ASSUME TypeOK, DiscoveryInv, [Next]_vars
  PROVE  DiscoveryInv'
<1>1. CASE UNCHANGED vars
  BY <1>1 DEF vars, DiscoveryInv, LoopIsShared, Running, SignInHolds, CacheHolds, IsFor
<1>2. CASE Next
  <2>1. ASSUME NEW j \in SignIns
        PROVE  SignInHolds(j)'
    <3>1. CASE \E k \in SignIns : \/ Ask(k) \/ LookUp(k) \/ Respond(k) \/ StoreDoc(k)
                                  \/ StoreIssuer(k) \/ StoreTime(k) \/ Return(k) \/ Finish(k)
      BY <3>1, SignInStep, OthersHold
    <3>2. CASE \/ \E p \in Procs : \/ UpdateConfig(p) \/ ClearConfig(p) \/ TestConfig(p)
                                   \/ ClearDoc(p) \/ ClearIssuer(p) \/ ClearTime(p) \/ Age(p)
               \/ \E i \in Issuers : Publish(i)
      BY <3>2, SignInsStandInvalidation
    <3> QED
      BY <1>2, <3>1, <3>2 DEF Next, SignIns
  <2>2. LoopIsShared'
    BY <1>2, LoopStaysShared DEF DiscoveryInv
  <2> QED
    BY <1>2, <2>1, <2>2, FloorsStayPast, CachesHold DEF DiscoveryInv
<1> QED
  BY <1>1, <1>2

-----------------------------------------------------------------------------
(***************************************************************************)
(* Theorems about the cache                                                *)
(***************************************************************************)

\* The three variables of the cache, the sign-ins and the settings keep their
\* types, and DiscoveryInv holds in every state of any number of processes.
THEOREM DiscoveryCorrect == Spec => [](TypeOK /\ DiscoveryInv)
<1>1. Init => TypeOK /\ DiscoveryInv
  BY TypeHoldsInitially, DiscoveryHoldsInitially
<1>2. TypeOK /\ DiscoveryInv /\ [Next]_vars => (TypeOK /\ DiscoveryInv)'
  BY TypeStep, DiscoveryStep
<1> QED
  BY <1>1, <1>2, PTL DEF Spec

\* _discovery never gives a sign-in the document of another issuer, although the
\* document and the issuer are assigned one after the other and cleared by a
\* thread in between.
THEOREM DocumentsAreOfIssuers == Spec => []DocIsOfIssuer
<1>1. DiscoveryInv => DocIsOfIssuer
  BY DEF DiscoveryInv, SignInHolds, IsFor, DocIsOfIssuer, Returned, SignIns
<1> QED
  BY <1>1, DiscoveryCorrect, PTL

\* After bust_discovery_cache has met no sign-in of its process, none that begins
\* later is given a document that was fetched before.
THEOREM InvalidationIsComplete == Spec => []QuietInvalidation
<1>1. DiscoveryInv => QuietInvalidation
  BY DEF DiscoveryInv, SignInHolds, IsFor, QuietInvalidation, Returned, SignIns
<1> QED
  BY <1>1, DiscoveryCorrect, PTL

\* _discovery returns None only to a sign-in that an invalidation of its process
\* has met.
THEOREM DocumentsAreReturned == Spec => []ReturnsDocument
<1>1. DiscoveryInv => ReturnsDocument
  BY DEF DiscoveryInv, SignInHolds, ReturnsDocument, Returned, SignIns
<1> QED
  BY <1>1, DiscoveryCorrect, PTL

-----------------------------------------------------------------------------
(***************************************************************************)
(* The settings                                                            *)
(***************************************************************************)

\* The row of site_settings, or what it begins with.
Stored == IF settings = S!NoRow THEN S!Fresh ELSE settings

\* A request that has assigned its columns: it has those of its group as the form
\* and what it loaded make them, and those of the other group as it loaded them.
RequestHolds(q) ==
  /\ q.inserts \in BOOLEAN
  /\ q.inserts => q.loaded = S!Fresh
  /\ ~ q.inserts => settings # S!NoRow
  /\ DOMAIN q.new = S!Columns
  /\ \A g \in Groups :
       IF q.request.group = g
         THEN /\ q.new[<<g, "target">>] = q.request.target
              /\ q.new[<<g, "secret">>] =
                   IF q.request.secret = S!Keep THEN q.loaded[<<g, "secret">>]
                   ELSE S!Encrypted(q.request.secret)
         ELSE \A f \in {"target", "secret"} :
                <<g, f>> \notin q.secrets /\ q.new[<<g, f>>] = q.loaded[<<g, f>>]

\* The columns of a group that nobody was overtaken in are what its saves amount to.
SettingsInv ==
  /\ settings # S!NoRow => settings = [c \in S!Columns |-> settings[c]]
  /\ saved = [g \in Groups |-> [target |-> saved[g].target, secret |-> saved[g].secret]]
  /\ req = [w \in Workers |-> req[w]]
  /\ \A w \in Workers : req[w] # S!Idle => req[w].phase = "assigned" /\ RequestHolds(req[w])
  /\ \A g \in Groups \ overtaken :
       /\ Stored[<<g, "target">>] = saved[g].target
       /\ Stored[<<g, "secret">>] = saved[g].secret

\* Two columns of each group.
LEMMA ColumnsOfGroups ==
  /\ S!Columns = {<<g, f>> : g \in Groups, f \in {"target", "secret"}}
  /\ \A g \in Groups : /\ <<g, "target">> \in S!Columns
                       /\ <<g, "secret">> \in S!Columns
                       /\ S!Fresh[<<g, "target">>] = S!Blank
                       /\ S!Fresh[<<g, "secret">>] = S!NoSecret
  /\ DOMAIN S!Fresh = S!Columns
  BY DEF S!Columns, S!Fresh

\* A row with columns is there.
LEMMA RowsAreThere ==
  ASSUME NEW row, DOMAIN row = S!Columns, NEW g \in Groups
  PROVE  row # S!NoRow
<1>1. /\ <<g, "target">> \in S!Columns /\ <<g, "secret">> \in S!Columns
      /\ <<g, "target">> # <<g, "secret">>
  BY DEF S!Columns
<1>2. DOMAIN S!NoRow = {"absent"}
  BY DEF S!NoRow
<1> QED
  BY <1>1, <1>2

LEMMA SettingsHoldInitially == MCInit => SettingsInv
<1> SUFFICES ASSUME S!Init PROVE SettingsInv
  BY DEF MCInit
<1>1. /\ settings = S!NoRow
      /\ req = [w \in Workers |-> S!Idle]
      /\ saved = [g \in Groups |-> [target |-> S!Blank, secret |-> S!NoSecret]]
      /\ overtaken = {}
  BY DEF S!Init
<1> QED
  BY <1>1, ColumnsOfGroups DEF SettingsInv, Stored

\* What LoadForSave, LoadForClear and LoadForSeed have in common.
LEMMA AssignHolds ==
  ASSUME SettingsInv, NEW w \in Workers, NEW request, NEW assigned,
         S!Assign(w, request, assigned),
         \A g \in Groups :
           IF request.group = g
             THEN /\ <<g, "target">> \in DOMAIN assigned
                  /\ assigned[<<g, "target">>] = request.target
                  /\ IF request.secret = S!Keep THEN <<g, "secret">> \notin DOMAIN assigned
                     ELSE /\ <<g, "secret">> \in DOMAIN assigned
                          /\ assigned[<<g, "secret">>] = S!Encrypted(request.secret)
             ELSE \A f \in {"target", "secret"} : <<g, f>> \notin DOMAIN assigned
  PROVE  SettingsInv'
<1> DEFINE loaded == IF settings = S!NoRow THEN S!Fresh ELSE settings
           new == [c \in S!Columns |-> IF c \in DOMAIN assigned THEN assigned[c] ELSE loaded[c]]
           q == [phase |-> "assigned", request |-> request, inserts |-> settings = S!NoRow,
                 loaded |-> loaded, new |-> new,
                 secrets |-> {c \in DOMAIN assigned : c[2] = "secret"}]
<1>1. /\ req' = [req EXCEPT ![w] = q]
      /\ UNCHANGED <<settings, key, saved, overtaken>>
  BY DEF S!Assign
<1>2. /\ q.phase = "assigned" /\ q.request = request
      /\ q.inserts = (settings = S!NoRow)
      /\ q.loaded = loaded /\ q.new = new
      /\ q.secrets \subseteq DOMAIN assigned
  OBVIOUS
<1>3. \A c \in S!Columns : new[c] = IF c \in DOMAIN assigned THEN assigned[c] ELSE loaded[c]
  OBVIOUS
<1>4. DOMAIN new = S!Columns
  OBVIOUS
<1>5. loaded = S!Fresh \/ settings # S!NoRow
  OBVIOUS
<1> HIDE DEF q, new
<1>6. RequestHolds(q)
  <2>1. /\ q.inserts \in BOOLEAN
        /\ q.inserts => q.loaded = S!Fresh
        /\ ~ q.inserts => settings # S!NoRow
    BY <1>2
  <2>2. ASSUME NEW g \in Groups, request.group = g
        PROVE  /\ q.new[<<g, "target">>] = q.request.target
               /\ q.new[<<g, "secret">>] =
                    IF q.request.secret = S!Keep THEN q.loaded[<<g, "secret">>]
                    ELSE S!Encrypted(q.request.secret)
    <3> HIDE DEF loaded
    <3>1. <<g, "target">> \in S!Columns /\ <<g, "secret">> \in S!Columns
      BY ColumnsOfGroups
    <3> QED
      BY <1>2, <1>3, <2>2, <3>1
  <2>3. ASSUME NEW g \in Groups, request.group # g, NEW f \in {"target", "secret"}
        PROVE  <<g, f>> \notin q.secrets /\ q.new[<<g, f>>] = q.loaded[<<g, f>>]
    <3> HIDE DEF loaded
    <3>1. <<g, f>> \in S!Columns /\ <<g, f>> \notin DOMAIN assigned
      BY <2>3, ColumnsOfGroups
    <3> QED
      BY <1>2, <1>3, <3>1
  <2> QED
    BY <1>2, <1>4, <2>1, <2>2, <2>3 DEF RequestHolds
<1>7. \A v \in Workers : req'[v] = IF v = w THEN q ELSE req[v]
  BY <1>1 DEF SettingsInv
<1>8. \A v \in Workers : req'[v] # S!Idle => req'[v].phase = "assigned" /\ RequestHolds(req'[v])
  BY <1>2, <1>6, <1>7 DEF SettingsInv
<1>9. \A r : RequestHolds(r) => RequestHolds(r)'
  BY <1>1 DEF RequestHolds, S!Encrypted
<1>10. req' = [v \in Workers |-> req'[v]]
  BY <1>1 DEF SettingsInv
<1> QED
  BY <1>1, <1>8, <1>9, <1>10 DEF SettingsInv, Stored

\* A commit writes the columns of its group as the request made them, unless it
\* was overtaken, and none of the other group.
LEMMA CommitHolds ==
  ASSUME SettingsInv, NEW w \in Workers, S!Commit(w)
  PROVE  SettingsInv'
<1> DEFINE q == req[w]
           group == q.request.group
           stored == IF q.inserts THEN S!Fresh ELSE settings
           written == S!Written(q)
<1>1. /\ q.phase = "assigned"
      /\ q.inserts => settings = S!NoRow
      /\ settings' = S!Flush(stored, q.new, written)
      /\ saved' = IF group \in Groups
                    THEN [saved EXCEPT ![group] = S!AfterRequest(@, q.request)] ELSE saved
      /\ overtaken' = IF \E c \in S!Columns : c[1] = group /\ stored[c] # q.loaded[c]
                        THEN overtaken \cup {group} ELSE overtaken
      /\ req' = [req EXCEPT ![w] = S!Idle]
      /\ UNCHANGED key
  BY DEF S!Commit
<1>2. q # S!Idle
  BY <1>1 DEF S!Idle
<1>3. RequestHolds(q)
  BY <1>2 DEF SettingsInv
<1>4. stored = Stored
  BY <1>1, <1>3 DEF RequestHolds, Stored
<1>5. DOMAIN stored = S!Columns
  BY <1>1, <1>3, ColumnsOfGroups DEF RequestHolds, SettingsInv
<1>6. DOMAIN q.new = S!Columns
  BY <1>3 DEF RequestHolds
<1>7. \A c \in S!Columns : c \in written <=>
        q.new[c] # q.loaded[c] \/ (c \in q.secrets /\ q.new[c] # S!NoSecret)
  BY <1>6 DEF S!Written, S!Changed
<1> HIDE DEF stored, written, q, group
<1>8. settings' = [c \in S!Columns |-> IF c \in written THEN q.new[c] ELSE stored[c]]
  BY <1>1, <1>5 DEF S!Flush
<1>9. settings' # S!NoRow
  BY <1>8, RowsAreThere, SiteAssumption DEF S!SettingsAssumption
<1>10. saved' = [g \in Groups |-> [target |-> saved'[g].target, secret |-> saved'[g].secret]]
  <2>1. CASE group \in Groups
    <3>1. \A g \in Groups : saved'[g] = IF g = group THEN S!AfterRequest(saved[g], q.request)
                                        ELSE saved[g]
      BY <1>1, <2>1 DEF SettingsInv
    <3>2. saved' = [g \in Groups |-> saved'[g]]
      BY <1>1, <2>1 DEF SettingsInv
    <3>3. \A g \in Groups : saved[g] = [target |-> saved[g].target, secret |-> saved[g].secret]
      BY DEF SettingsInv
    <3>4. ASSUME NEW g \in Groups
          PROVE  saved'[g] = [target |-> saved'[g].target, secret |-> saved'[g].secret]
      <4>1. CASE g = group
        BY <3>1, <4>1 DEF S!AfterRequest
      <4>2. CASE g # group
        BY <3>1, <3>3, <4>2
      <4> QED
        BY <4>1, <4>2
    <3> QED
      BY <3>2, <3>4
  <2>2. CASE group \notin Groups
    BY <1>1, <2>2 DEF SettingsInv
  <2> QED
    BY <2>1, <2>2
<1>11. ASSUME NEW g \in Groups, g \notin overtaken'
       PROVE  /\ settings'[<<g, "target">>] = saved'[g].target
              /\ settings'[<<g, "secret">>] = saved'[g].secret
  <2>1. <<g, "target">> \in S!Columns /\ <<g, "secret">> \in S!Columns
    BY ColumnsOfGroups
  <2>2. /\ stored[<<g, "target">>] = saved[g].target
        /\ stored[<<g, "secret">>] = saved[g].secret
    <3>1. g \notin overtaken
      BY <1>1, <1>11
    <3> QED
      BY <1>4, <3>1 DEF SettingsInv
  <2>3. CASE group = g
    <3>1. stored[<<g, "target">>] = q.loaded[<<g, "target">>]
      BY <1>1, <1>11, <2>1, <2>3
    <3>2. stored[<<g, "secret">>] = q.loaded[<<g, "secret">>]
      BY <1>1, <1>11, <2>1, <2>3
    <3>3. /\ settings'[<<g, "target">>] = q.new[<<g, "target">>]
          /\ settings'[<<g, "secret">>] = q.new[<<g, "secret">>]
      BY <1>7, <1>8, <2>1, <3>1, <3>2
    <3>4. /\ q.new[<<g, "target">>] = q.request.target
          /\ q.new[<<g, "secret">>] =
               IF q.request.secret = S!Keep THEN q.loaded[<<g, "secret">>]
               ELSE S!Encrypted(q.request.secret)
      BY <1>3, <2>3 DEF RequestHolds, group
    <3>5. saved'[g] = S!AfterRequest(saved[g], q.request)
      BY <1>1, <2>3 DEF SettingsInv
    <3>6. /\ saved'[g].target = q.request.target
          /\ saved'[g].secret = IF q.request.secret = S!Keep THEN saved[g].secret
                                ELSE S!Encrypted(q.request.secret)
      BY <3>5 DEF S!AfterRequest
    <3> QED
      BY <2>2, <3>2, <3>3, <3>4, <3>6
  <2>4. CASE group # g
    <3>1. saved'[g] = saved[g]
      BY <1>1, <2>4 DEF SettingsInv
    <3>2. \A f \in {"target", "secret"} :
            <<g, f>> \notin q.secrets /\ q.new[<<g, f>>] = q.loaded[<<g, f>>]
      BY <1>3, <2>4 DEF RequestHolds, group
    <3>3. /\ settings'[<<g, "target">>] = stored[<<g, "target">>]
          /\ settings'[<<g, "secret">>] = stored[<<g, "secret">>]
      BY <1>7, <1>8, <2>1, <3>2
    <3> QED
      BY <2>2, <3>1, <3>3
  <2> QED
    BY <2>3, <2>4
<1>12. ASSUME NEW v \in Workers, req'[v] # S!Idle
       PROVE  req'[v].phase = "assigned" /\ RequestHolds(req[v])'
  <2>1. v # w /\ req'[v] = req[v]
    BY <1>1, <1>12 DEF SettingsInv
  <2>2. req[v].phase = "assigned" /\ RequestHolds(req[v])
    BY <1>12, <2>1 DEF SettingsInv
  <2>3. \A text : S!Encrypted(text)' = S!Encrypted(text)
    BY <1>1 DEF S!Encrypted
  <2> QED
    BY <1>9, <2>1, <2>2, <2>3 DEF RequestHolds
<1>13. req' = [v \in Workers |-> req'[v]]
  BY <1>1 DEF SettingsInv
<1>14. settings' = [c \in S!Columns |-> settings'[c]]
  BY <1>8
<1> QED
  BY <1>9, <1>10, <1>11, <1>12, <1>13, <1>14 DEF SettingsInv, Stored

LEMMA SettingsStep ==
  ASSUME SettingsInv, [MCNext]_<<vars, settingsVars, poolVars, at>>
  PROVE  SettingsInv'
<1>1. CASE UNCHANGED settingsVars
  <2>1. UNCHANGED <<settings, key, req, saved, overtaken>>
    BY <1>1 DEF settingsVars
  <2>2. \A r : RequestHolds(r) => RequestHolds(r)'
    BY <2>1 DEF RequestHolds, S!Encrypted
  <2> QED
    BY <2>1, <2>2 DEF SettingsInv, Stored
<1>2. CASE S!Next
  <2>1. ASSUME NEW w \in Workers, NEW g \in Groups, NEW target \in Targets,
               NEW secret \in Texts \cup {S!Blank, S!Keep},
               S!LoadForSave(w, g, target, secret)
        PROVE  SettingsInv'
    <3> DEFINE request == [group |-> g, target |-> target, secret |-> secret]
               assigned == [c \in {<<g, "target">>} \cup
                                    (IF S!KeepsSecret(secret) THEN {} ELSE {<<g, "secret">>}) |->
                              IF c[2] = "target" THEN target ELSE S!Encrypted(secret)]
    <3>1. S!Assign(w, request, assigned)
      BY <2>1 DEF S!LoadForSave
    <3>2. /\ <<g, "target">> \in DOMAIN assigned
          /\ assigned[<<g, "target">>] = request.target
          /\ IF request.secret = S!Keep THEN <<g, "secret">> \notin DOMAIN assigned
             ELSE /\ <<g, "secret">> \in DOMAIN assigned
                  /\ assigned[<<g, "secret">>] = S!Encrypted(request.secret)
      BY DEF S!KeepsSecret
    <3>3. \A h \in Groups : request.group # h =>
            \A f \in {"target", "secret"} : <<h, f>> \notin DOMAIN assigned
      OBVIOUS
    <3>4. request.group = g
      OBVIOUS
    <3> HIDE DEF request, assigned
    <3> QED
      BY <3>1, <3>2, <3>3, <3>4, AssignHolds
  <2>2. ASSUME NEW w \in Workers, NEW g \in Groups, S!LoadForClear(w, g)
        PROVE  SettingsInv'
    <3> DEFINE request == [group |-> g, target |-> S!Blank, secret |-> S!Blank]
               assigned == [c \in {<<g, "target">>, <<g, "secret">>} |-> S!Fresh[c]]
    <3>1. S!Assign(w, request, assigned)
      BY <2>2 DEF S!LoadForClear
    <3>2. /\ <<g, "target">> \in DOMAIN assigned /\ <<g, "secret">> \in DOMAIN assigned
          /\ assigned[<<g, "target">>] = request.target
          /\ assigned[<<g, "secret">>] = S!Encrypted(request.secret)
          /\ request.secret # S!Keep
      BY ColumnsOfGroups DEF S!Encrypted, S!Blank, S!Keep
    <3>3. \A h \in Groups : request.group # h =>
            \A f \in {"target", "secret"} : <<h, f>> \notin DOMAIN assigned
      OBVIOUS
    <3>4. request.group = g
      OBVIOUS
    <3> HIDE DEF request, assigned
    <3> QED
      BY <3>1, <3>2, <3>3, <3>4, AssignHolds
  <2>3. ASSUME NEW w \in Workers, S!LoadForSeed(w)
        PROVE  SettingsInv'
    <3> DEFINE request == [group |-> "none"]
               assigned == <<>>
    <3>1. S!Assign(w, request, assigned)
      BY <2>3 DEF S!LoadForSeed
    <3>2. \A g \in Groups : request.group # g
      BY SiteAssumption DEF S!SettingsAssumption
    <3>3. \A g \in Groups, f \in {"target", "secret"} : <<g, f>> \notin DOMAIN assigned
      OBVIOUS
    <3> HIDE DEF request, assigned
    <3> QED
      BY <3>1, <3>2, <3>3, AssignHolds
  <2>4. ASSUME NEW w \in Workers, S!Abandon(w)
        PROVE  SettingsInv'
    <3>1. /\ req' = [req EXCEPT ![w] = S!Idle]
          /\ UNCHANGED <<settings, key, saved, overtaken>>
      BY <2>4 DEF S!Abandon
    <3>2. \A r : RequestHolds(r) => RequestHolds(r)'
      BY <3>1 DEF RequestHolds, S!Encrypted
    <3>3. \A v \in Workers : req'[v] # S!Idle => req'[v] = req[v]
      BY <3>1 DEF SettingsInv
    <3>4. req' = [v \in Workers |-> req'[v]]
      BY <3>1 DEF SettingsInv
    <3> QED
      BY <3>1, <3>2, <3>3, <3>4 DEF SettingsInv, Stored
  <2>5. CASE S!Restart
    <3>1. /\ req' = [w \in Workers |-> S!Idle]
          /\ UNCHANGED <<settings, saved, overtaken>>
      BY <2>5 DEF S!Restart
    <3> QED
      BY <3>1 DEF SettingsInv, Stored
  <2> QED
    BY <1>2, <2>1, <2>2, <2>3, <2>4, <2>5, CommitHolds DEF S!Next
<1> QED
  BY <1>1, <1>2 DEF MCNext

\* Mail and sign-on each run with what the saves of update_smtp_config and
\* update_oidc_config of their own group amount to, whatever the saves of the other
\* write to the same row at the same time.
THEOREM SettingsAreKept == MCSpec => []SettingsAreAsSaved
<1>1. SettingsInv => SettingsAreAsSaved
  <2> SUFFICES ASSUME SettingsInv, NEW g \in Groups \ overtaken
               PROVE  S!InForce(g) = IF saved[g].target = S!Blank THEN MCEnv[g]
                                     ELSE [saved[g] EXCEPT !.secret = S!Decrypted(@)]
    BY DEF SettingsAreAsSaved, S!SettingsAreAsSaved
  <2>1. /\ Stored[<<g, "target">>] = saved[g].target
        /\ Stored[<<g, "secret">>] = saved[g].secret
        /\ saved[g] = [target |-> saved[g].target, secret |-> saved[g].secret]
    BY DEF SettingsInv
  <2>2. [saved[g] EXCEPT !.secret = S!Decrypted(@)]
          = [target |-> saved[g].target, secret |-> S!Decrypted(saved[g].secret)]
    BY <2>1
  <2>3. CASE settings = S!NoRow
    BY <2>1, <2>3, ColumnsOfGroups DEF Stored, S!InForce
  <2>4. CASE settings # S!NoRow
    BY <2>1, <2>2, <2>4 DEF Stored, S!InForce
  <2> QED
    BY <2>3, <2>4
<1> QED
  BY <1>1, SettingsHoldInitially, SettingsStep, PTL DEF MCSpec

-----------------------------------------------------------------------------
(***************************************************************************)
(* ConnectionPool (P): connections are given back.                         *)
(***************************************************************************)

\* A checkout that blocks the event loop is the first of its request, or the one
\* after its commit; in both cases the request has no connection.
LoopWaits == loop # Nobody => stage[loop] \in {"authenticating", "storing"}

PoolInv ==
  /\ P!TypeOK
  /\ IsFiniteSet(holds)
  /\ P!ConnectionsComeBack
  /\ LoopWaits

\* Cardinality and IsFiniteSet of the instance are those of FiniteSets.
LEMMA SameCardinality ==
  ASSUME NEW T
  PROVE  /\ P!Cardinality(T) = Cardinality(T)
         /\ P!IsFiniteSet(T) <=> IsFiniteSet(T)
  BY DEF P!Cardinality, Cardinality, P!IsFiniteSet, IsFiniteSet

LEMMA PoolConstants == PoolSize \in Nat \ {0} /\ Nobody \notin Requests
BY PoolIsSized DEF P!PoolAssumption

\* A connection is checked out while there is one left.
LEMMA CheckedOut ==
  ASSUME PoolInv, NEW r \in Requests, P!HasConnection
  PROVE  IsFiniteSet(holds \cup {r}) /\ Cardinality(holds \cup {r}) <= PoolSize
<1>1. Cardinality(holds) \in Nat
  BY FS_CardinalityType DEF PoolInv
<1>2. IsFiniteSet(holds \cup {r}) /\ Cardinality(holds \cup {r}) <= Cardinality(holds) + 1
  <2>1. IsFiniteSet(holds)
    BY DEF PoolInv
  <2> QED
    BY <1>1, <2>1, FS_AddElement
<1>3. Cardinality(holds \cup {r}) \in Nat
  BY <1>2, FS_CardinalityType
<1> QED
  BY SameCardinality, <1>1, <1>2, <1>3, PoolConstants DEF P!HasConnection

LEMMA GivenBack ==
  ASSUME PoolInv, NEW r \in Requests
  PROVE  IsFiniteSet(holds \ {r}) /\ Cardinality(holds \ {r}) <= PoolSize
<1>1. Cardinality(holds) \in Nat /\ Cardinality(holds) <= PoolSize
  BY SameCardinality, FS_CardinalityType DEF PoolInv, P!TypeOK
<1>2. IsFiniteSet(holds \ {r}) /\ Cardinality(holds \ {r}) <= Cardinality(holds)
  BY <1>1, FS_RemoveElement DEF PoolInv
<1>3. Cardinality(holds \ {r}) \in Nat
  BY <1>2, FS_CardinalityType
<1> QED
  BY <1>1, <1>2, <1>3, PoolConstants

\* What a step of the request r has to see to: if r has a connection, it is in a
\* phase that has one, and if it has the loop, in a phase that waits.
LEMMA RequestMoves ==
  ASSUME PoolInv, NEW r \in Requests, NEW p \in P!Phases, P!GoTo(r, p),
         kind' \in [Requests -> P!Kinds \cup {"none"}],
         holds' \in {holds, holds \cup {r}, holds \ {r}},
         holds' = holds \cup {r} => r \in holds \/ P!HasConnection,
         r \in holds' => p \in {"queued", "handling", "running", "logging", "returned"},
         \/ loop' = r /\ p \in {"authenticating", "storing"}
         \/ loop' = Nobody
         \/ loop' = loop /\ loop # r
  PROVE  PoolInv'
<1> USE DEF PoolInv
<1>1. stage' = [stage EXCEPT ![r] = p] /\ stage \in [Requests -> P!Phases]
  BY DEF P!GoTo, P!TypeOK
<1>2. stage'[r] = p /\ \A q \in Requests : q # r => stage'[q] = stage[q]
  BY <1>1
<1>3. IsFiniteSet(holds') /\ Cardinality(holds') <= PoolSize /\ holds' \subseteq Requests
  <2>1. CASE holds' = holds
    BY <2>1, SameCardinality DEF P!TypeOK
  <2>2. CASE holds' = holds \cup {r}
    <3>1. CASE r \in holds
      <4>1. holds \cup {r} = holds
        BY <3>1
      <4> QED
        BY <2>2, <4>1, SameCardinality DEF P!TypeOK
    <3>2. CASE P!HasConnection
      BY <2>2, <3>2, CheckedOut DEF P!TypeOK
    <3> QED
      BY <2>2, <3>1, <3>2
  <2>3. CASE holds' = holds \ {r}
    BY <2>3, GivenBack DEF P!TypeOK
  <2> QED
    BY <2>1, <2>2, <2>3
<1>4. P!TypeOK'
  BY <1>1, <1>3, SameCardinality DEF P!TypeOK
<1>5. LoopWaits'
  BY <1>2, PoolConstants DEF LoopWaits, P!TypeOK
<1>6. \A q \in holds' :
        stage'[q] \in {"queued", "handling", "running", "logging", "returned"}
  BY <1>2, <1>3 DEF P!ConnectionsComeBack
<1>7. \A q \in holds' : loop' # q
  BY <1>3, <1>5, <1>6, PoolConstants DEF LoopWaits
<1> QED
  BY <1>3, <1>4, <1>5, <1>6, <1>7, SameCardinality DEF P!ConnectionsComeBack

\* Every step of a request keeps the invariant.
LEMMA PoolStep == PoolInv /\ [MCNext]_<<vars, settingsVars, poolVars, at>> => PoolInv'
<1> SUFFICES ASSUME PoolInv, [MCNext]_<<vars, settingsVars, poolVars, at>>
             PROVE  PoolInv'
  OBVIOUS
<1>0. P!TypeOK /\ LoopWaits /\ Nobody \notin Requests
  BY PoolConstants DEF PoolInv
<1>01. \A r \in holds :
         stage[r] \in {"queued", "handling", "running", "logging", "returned"}
  BY DEF PoolInv, P!ConnectionsComeBack
<1>1. ASSUME NEW r \in Requests, NEW k \in P!Kinds, P!Open(r, k)
      PROVE  PoolInv'
  BY <1>0, <1>01, <1>1, RequestMoves DEF P!Open, P!TypeOK, P!Phases, P!LoopIsFree
<1>2. ASSUME NEW r \in Requests, P!Authenticate(r)
      PROVE  PoolInv'
  <2>1. CASE P!HasConnection
    BY <1>0, <1>2, <2>1, RequestMoves
       DEF P!Authenticate, P!AfterAuthentication, P!TypeOK, P!Phases, P!LoopIsFree
  <2>2. CASE ~ P!HasConnection
    BY <1>0, <1>01, <1>2, <2>2, RequestMoves DEF P!Authenticate, P!TypeOK, P!Phases
  <2> QED
    BY <2>1, <2>2
<1>3. ASSUME NEW r \in Requests, P!GrantOnLoop(r)
      PROVE  PoolInv'
  BY <1>0, <1>3, RequestMoves DEF P!GrantOnLoop, P!AfterAuthentication, P!TypeOK, P!Phases
<1>4. ASSUME NEW r \in Requests, P!ExpireOnLoop(r)
      PROVE  PoolInv'
  BY <1>0, <1>4, RequestMoves DEF P!ExpireOnLoop, P!TypeOK, P!Phases
<1>5. ASSUME NEW r \in Requests, P!Start(r) \/ P!RefuseOnLoop(r)
      PROVE  PoolInv'
  BY <1>0, <1>5, RequestMoves DEF P!Start, P!RefuseOnLoop, P!TypeOK, P!Phases, P!LoopIsFree
<1>6. ASSUME NEW r \in Requests, P!Commit(r)
      PROVE  PoolInv'
  BY <1>0, <1>6, RequestMoves DEF P!Commit, LoopWaits, P!TypeOK, P!Phases
<1>7. ASSUME NEW r \in Requests, P!GrantInThread(r)
      PROVE  PoolInv'
  BY <1>0, <1>7, RequestMoves DEF P!GrantInThread, LoopWaits, P!TypeOK, P!Phases
<1>8. ASSUME NEW r \in Requests, P!ExpireInThread(r) \/ P!Return(r)
      PROVE  PoolInv'
  BY <1>0, <1>8, RequestMoves DEF P!ExpireInThread, P!Return, LoopWaits, P!TypeOK, P!Phases
<1>9. ASSUME NEW r \in Requests, P!CommitOnLoop(r)
      PROVE  PoolInv'
  BY <1>0, <1>9, RequestMoves DEF P!CommitOnLoop, P!TypeOK, P!Phases
<1>10. ASSUME NEW r \in Requests, P!Close(r)
       PROVE  PoolInv'
  BY <1>0, <1>10, RequestMoves DEF P!Close, P!TypeOK, P!Phases, P!LoopIsFree
<1>11. CASE UNCHANGED poolVars
  BY <1>11 DEF poolVars, PoolInv, P!TypeOK, P!ConnectionsComeBack, LoopWaits
<1>12. P!Next \/ UNCHANGED poolVars
  BY DEF MCNext
<1> QED
  BY <1>1, <1>2, <1>3, <1>4, <1>5, <1>6, <1>7, <1>8, <1>9, <1>10, <1>11, <1>12 DEF P!Next

LEMMA PoolHoldsInitially == P!Init => PoolInv
<1> SUFFICES ASSUME P!Init
             PROVE  PoolInv
  OBVIOUS
<1>1. IsFiniteSet(holds) /\ Cardinality(holds) = 0
  BY FS_EmptySet DEF P!Init
<1> QED
  BY <1>1, PoolConstants, SameCardinality
  DEF P!Init, PoolInv, P!TypeOK, P!Phases, P!ConnectionsComeBack, LoopWaits

\* Every connection that is checked out belongs to a request that is being served
\* and that does not wait for another one: get_db gives it back in the end.
THEOREM ConnectionsReturn == MCSpec => []ConnectionsComeBack
<1>1. PoolInv => ConnectionsComeBack
  BY DEF PoolInv, ConnectionsComeBack
<1>2. MCInit => PoolInv
  BY PoolHoldsInitially DEF MCInit
<1> QED
  BY <1>1, <1>2, PoolStep, PTL DEF MCSpec
=============================================================================
