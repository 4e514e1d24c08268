--------------------------- MODULE DiscoveryCache ---------------------------
(***************************************************************************)
(* The cached discovery document of the identity provider, and its         *)
(* invalidation when an administrator saves the settings.                  *)
(*                                                                         *)
(* Each server process has a cache of its own in three module variables.   *)
(* Sign-ins are coroutines of the event loop: one runs until it awaits the *)
(* answer of the provider.  Saving settings is a plain function, which     *)
(* runs in a thread, so its three assignments fall anywhere between those  *)
(* of a coroutine.                                                         *)
(***************************************************************************)
EXTENDS Integers

CONSTANTS
  Procs,      \* server processes
  Callers,    \* coroutines of each process
  Issuers,
  EnvIssuer,  \* the issuer of the environment variables
  MaxVersion  \* bound of the versions of a document

ASSUME MaxVersionAssumption == MaxVersion \in Nat

VARIABLES
  config,   \* the issuer saved in site_settings
  idp,      \* the version of the document that each issuer publishes
  cache,    \* _discovery_cache, _discovery_cache_issuer, _discovery_ts
  call,     \* the sign-ins in progress
  admin,    \* where the saving of settings stands, in each process
  floor,    \* history: in each process, for each issuer the version that was
            \* published when the last invalidation was complete that met no
            \* sign-in of the process
  met       \* history: sign-ins in progress that an invalidation has met

vars == <<config, idp, cache, call, admin, floor, met>>
history == <<floor, met>>

-----------------------------------------------------------------------------
Versions == 0 .. MaxVersion

NoDoc == [issuer |-> "none"]
Docs == [issuer : Issuers, version : Versions]

NoIssuer == "no_issuer"

ASSUME NoIssuerAssumption == NoIssuer \notin Issuers /\ "none" \notin Issuers
ASSUME EnvIssuerAssumption == EnvIssuer \in Issuers \cup {NoIssuer}

Caches == [doc : Docs \cup {NoDoc}, issuer : Issuers \cup {NoIssuer}, fresh : BOOLEAN]

Floors == [Issuers -> Versions]

Idle == [phase |-> "idle"]

Calls ==
       [phase : {"asked", "hit", "fetching"}, issuer : Issuers, floor : Floors]
  \cup [phase : {"answered", "stored_doc", "stored_issuer", "stored"}, doc : Docs,
        issuer : Issuers, floor : Floors]
  \cup [phase : {"returned"}, doc : Docs \cup {NoDoc}, issuer : Issuers, floor : Floors]

AdminPhases == {"idle", "committed", "doc_cleared", "issuer_cleared"}

TypeOK ==
  /\ config \in Issuers \cup {NoIssuer}
  /\ idp \in [Issuers -> Versions]
  /\ cache \in [Procs -> Caches]
  /\ call \in [Procs \X Callers -> Calls \cup {Idle}]
  /\ admin \in [Procs -> AdminPhases]
  /\ floor \in [Procs -> Floors]
  /\ met \subseteq Procs \X Callers

Init ==
  /\ config \in Issuers \cup {NoIssuer}
  /\ idp = [i \in Issuers |-> 0]
  /\ cache = [p \in Procs |-> [doc |-> NoDoc, issuer |-> NoIssuer, fresh |-> FALSE]]
  /\ call = [k \in Procs \X Callers |-> Idle]
  /\ admin = [p \in Procs |-> "idle"]
  /\ floor = [p \in Procs |-> [i \in Issuers |-> 0]]
  /\ met = {}

-----------------------------------------------------------------------------
\* A coroutine that is not waiting for the provider has the event loop.
Running(k) == call[k].phase \in {"hit", "answered", "stored_doc", "stored_issuer", "stored"}

LoopIsFree(p, k) == \A j \in Procs \X Callers : j[1] = p /\ j # k => ~ Running(j)

Enter(k, phase) == call' = [call EXCEPT ![k].phase = phase]

\* get_oidc_config: settings saved in the database take precedence.  An issuer
\* stands for settings that are complete.
GetOidcConfig == IF config # NoIssuer THEN config ELSE EnvIssuer

\* oidc_authorize and oidc_callback refuse when there are no settings.
Ask(k) ==
  /\ call[k] = Idle
  /\ GetOidcConfig # NoIssuer
  /\ LoopIsFree(k[1], k)
  /\ call' = [call EXCEPT ![k] = [phase |-> "asked", issuer |-> GetOidcConfig,
                                 floor |-> floor[k[1]]]]
  /\ UNCHANGED <<config, idp, cache, admin, history>>

\* Fault: the cache is not bound to an issuer.
IsHit_AnyIssuer(c, issuer) == c.doc # NoDoc /\ c.fresh

\* Fault: whether there is a document is not asked.
IsHit_NoDoc(c, issuer) == c.issuer = issuer /\ c.fresh

IsHit(c, issuer) == c.doc # NoDoc /\ c.issuer = issuer /\ c.fresh

\* _discovery: look into the cache, or send a request and wait.
LookUp(k) ==
  /\ call[k].phase = "asked"
  /\ LoopIsFree(k[1], k)
  /\ Enter(k, IF IsHit(cache[k[1]], call[k].issuer) THEN "hit" ELSE "fetching")
  /\ UNCHANGED <<config, idp, cache, admin, history>>

\* The provider answers with the document of the moment.
Respond(k) ==
  /\ call[k].phase = "fetching"
  /\ LoopIsFree(k[1], k)
  /\ call' = [call EXCEPT ![k] =
       [phase |-> "answered", issuer |-> call[k].issuer, floor |-> call[k].floor,
        doc |-> [issuer |-> call[k].issuer, version |-> idp[call[k].issuer]]]]
  /\ UNCHANGED <<config, idp, cache, admin, history>>

StoreDoc(k) ==
  /\ call[k].phase = "answered"
  /\ cache' = [cache EXCEPT ![k[1]].doc = call[k].doc]
  /\ Enter(k, "stored_doc")
  /\ UNCHANGED <<config, idp, admin, history>>

StoreIssuer(k) ==
  /\ call[k].phase = "stored_doc"
  /\ cache' = [cache EXCEPT ![k[1]].issuer = call[k].issuer]
  /\ Enter(k, "stored_issuer")
  /\ UNCHANGED <<config, idp, admin, history>>

StoreTime(k) ==
  /\ call[k].phase = "stored_issuer"
  /\ cache' = [cache EXCEPT ![k[1]].fresh = TRUE]
  /\ Enter(k, "stored")
  /\ UNCHANGED <<config, idp, admin, history>>

\* The function returns what the variable holds at the end.
Return(k) ==
  /\ call[k].phase \in {"hit", "stored"}
  /\ call' = [call EXCEPT ![k] =
       [phase |-> "returned", issuer |-> call[k].issuer, floor |-> call[k].floor,
        doc |-> cache[k[1]].doc]]
  /\ UNCHANGED <<config, idp, cache, admin, history>>

\* The sign-in goes on with the document; or the request to the provider has
\* failed.
Finish(k) ==
  /\ call[k].phase \in {"returned", "fetching"}
  /\ call' = [call EXCEPT ![k] = Idle]
  /\ met' = met \ {k}
  /\ UNCHANGED <<config, idp, cache, admin, floor>>

-----------------------------------------------------------------------------
\* update_oidc_config: the settings are committed, then bust_discovery_cache
\* resets the three variables of this process.
UpdateConfig(p) ==
  /\ admin[p] = "idle"
  /\ \E i \in Issuers : config' = i
  /\ admin' = [admin EXCEPT ![p] = "committed"]
  /\ UNCHANGED <<idp, cache, call, history>>

\* clear_oidc_config: back to the environment, and the same reset.
ClearConfig(p) ==
  /\ admin[p] = "idle"
  /\ config' = NoIssuer
  /\ admin' = [admin EXCEPT ![p] = "committed"]
  /\ UNCHANGED <<idp, cache, call, history>>

InProgress(p) == {k \in Procs \X Callers : k[1] = p /\ call[k] # Idle}

\* An invalidation is complete.
NewFloor(p) == [floor EXCEPT ![p] = IF InProgress(p) = {} THEN idp ELSE @]

\* Fault: nothing is done when the new settings name the cached issuer.
ClearDoc_SameIssuerKept(p) ==
  LET kept == cache[p].issuer = GetOidcConfig
  IN /\ admin[p] = "committed"
     /\ cache' = IF kept THEN cache ELSE [cache EXCEPT ![p].doc = NoDoc]
     /\ admin' = [admin EXCEPT ![p] = IF kept THEN "idle" ELSE "doc_cleared"]
     /\ floor' = IF kept THEN NewFloor(p) ELSE floor
     /\ met' = met \cup InProgress(p)
     /\ UNCHANGED <<config, idp, call>>

ClearDoc(p) ==
  /\ admin[p] = "committed"
  /\ cache' = [cache EXCEPT ![p].doc = NoDoc]
  /\ admin' = [admin EXCEPT ![p] = "doc_cleared"]
  /\ met' = met \cup InProgress(p)
  /\ UNCHANGED <<config, idp, call, floor>>

ClearIssuer(p) ==
  /\ admin[p] = "doc_cleared"
  /\ cache' = [cache EXCEPT ![p].issuer = NoIssuer]
  /\ admin' = [admin EXCEPT ![p] = "issuer_cleared"]
  /\ UNCHANGED <<config, idp, call, history>>

\* An invalidation has met no sign-in when none is in progress at its end.
ClearTime(p) ==
  /\ admin[p] = "issuer_cleared"
  /\ cache' = [cache EXCEPT ![p].fresh = FALSE]
  /\ admin' = [admin EXCEPT ![p] = "idle"]
  /\ floor' = NewFloor(p)
  /\ UNCHANGED <<config, idp, call, met>>

\* oidc_test, once the provider has answered: the reset on the event loop, in
\* one go as far as the sign-ins can see.
TestConfig(p) ==
  /\ GetOidcConfig # NoIssuer
  /\ \A k \in Procs \X Callers : k[1] = p => ~ Running(k)
  /\ cache' = [cache EXCEPT ![p] = [doc |-> NoDoc, issuer |-> NoIssuer, fresh |-> FALSE]]
  /\ floor' = NewFloor(p)
  /\ met' = met \cup InProgress(p)
  /\ UNCHANGED <<config, idp, call, admin>>

-----------------------------------------------------------------------------
\* The provider publishes a new document.
Publish(i) ==
  /\ idp[i] < MaxVersion
  /\ idp' = [idp EXCEPT ![i] = @ + 1]
  /\ UNCHANGED <<config, cache, call, admin, history>>

\* An hour passes.
Age(p) ==
  /\ cache[p].fresh
  /\ cache' = [cache EXCEPT ![p].fresh = FALSE]
  /\ UNCHANGED <<config, idp, call, admin, history>>

Next ==
  \/ \E k \in Procs \X Callers :
       \/ Ask(k)
       \/ LookUp(k)
       \/ Respond(k)
       \/ StoreDoc(k)
       \/ StoreIssuer(k)
       \/ StoreTime(k)
       \/ Return(k)
       \/ Finish(k)
  \/ \E p \in Procs :
       \/ UpdateConfig(p)
       \/ ClearConfig(p)
       \/ TestConfig(p)
       \/ ClearDoc(p)
       \/ ClearIssuer(p)
       \/ ClearTime(p)
       \/ Age(p)
  \/ \E i \in Issuers : Publish(i)

Spec == Init /\ [][Next]_vars

-----------------------------------------------------------------------------
(***************************************************************************)
(* Properties                                                              *)
(***************************************************************************)
Returned(k) == call[k].phase = "returned"

\* A document that a sign-in is given is that of the issuer it asked for,
\* wherever the three assignments of an invalidation fall.
DocIsOfIssuer ==
  \A k \in Procs \X Callers :
    Returned(k) /\ call[k].doc # NoDoc => call[k].doc.issuer = call[k].issuer

\* bust_discovery_cache "invalidates the cached discovery document": one that
\* meets no sign-in is complete in its process.  A sign-in that begins later
\* is given a document that was fetched later.
QuietInvalidation ==
  \A k \in Procs \X Callers :
    Returned(k) /\ call[k].doc # NoDoc => call[k].doc.version >= call[k].floor[call[k].issuer]

\* async def _discovery(issuer: str) -> dict: the caller is given a document,
\* unless an invalidation of its process fell into the call.
ReturnsDocument ==
  \A k \in Procs \X Callers : Returned(k) /\ call[k].doc = NoDoc => k \in met
=============================================================================
