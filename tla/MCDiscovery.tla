----------------------------- MODULE MCDiscovery -----------------------------
(***************************************************************************)
(* Instances of DiscoveryCache, SiteSettings and ConnectionPool for TLC:    *)
(* what the event loop and the threads of a process share.                 *)
(*                                                                         *)
(* DiscoveryCache has of the settings the issuer alone, which is committed  *)
(* before the cache is touched; SiteSettings has how that commit comes      *)
(* about, and ConnectionPool the connections that all requests need,        *)
(* whatever they are for.  at is the one at work, and the others stay as    *)
(* they began.                                                             *)
(***************************************************************************)
EXTENDS DiscoveryCache, TLC

CONSTANTS
  Groups, Workers, Targets, Texts, MaxKey,  \* of SiteSettings
  Requests, PoolSize, Threads, Nobody       \* of ConnectionPool

VARIABLES
  settings, key, req, saved, overtaken,
  stage, kind, holds, loop,
  at

MCEnv == [g \in Groups |-> [target |-> "env", secret |-> "env"]]

S == INSTANCE SiteSettings WITH row <- settings, Env <- MCEnv

P == INSTANCE ConnectionPool WITH phase <- stage

ASSUME SiteAssumption == S!SettingsAssumption

ASSUME PoolIsSized == P!PoolAssumption

settingsVars == <<settings, key, req, saved, overtaken>>

poolVars == <<stage, kind, holds, loop>>

MCInit ==
  /\ Init /\ S!Init /\ P!Init
  /\ at \in {"cache", "settings", "pool"}
  /\ at # "cache" => config = NoIssuer

MCNext ==
  /\ at' = at
  /\ \/ at = "cache" /\ Next /\ UNCHANGED <<settingsVars, poolVars>>
     \/ at = "settings" /\ S!Next /\ UNCHANGED <<vars, poolVars>>
     \/ at = "pool" /\ P!Next /\ UNCHANGED <<vars, settingsVars>>

MCSpec == MCInit /\ [][MCNext]_<<vars, settingsVars, poolVars, at>>

\* Mail and sign-on each run with what the saves of their own group amount to
\* (SiteSettings, update_smtp_config and update_oidc_config).
SettingsAreAsSaved == S!SettingsAreAsSaved

\* Connections belong to requests that are being served, and none of these waits
\* for another one (ConnectionPool, get_db).
ConnectionsComeBack == P!ConnectionsComeBack

\* The requests of ConnectionPool are symmetric too, but few.
Symmetry == Permutations(Procs) \cup Permutations(Callers) \cup Permutations(Workers)
=============================================================================
