---------------------------- MODULE MCDirectory ----------------------------
(***************************************************************************)
(* Instances of UserDirectory and MfaEnrollment for TLC: who has an account,*)
(* and what its second factor is.                                          *)
(*                                                                         *)
(* They write different columns of users, and none reads those of the other *)
(* before it writes its own: at is the one at work, and the other stays as  *)
(* it began.                                                               *)
(***************************************************************************)
EXTENDS UserDirectory, TLC

CONSTANTS s1, s2, ann, Secrets, FactorWorkers

VARIABLES factor, drawn, shown, proven, factorReq, stale, at

F == INSTANCE MfaEnrollment WITH Workers <- FactorWorkers, row <- factor, req <- factorReq

factorVars == <<factor, drawn, shown, proven, factorReq, stale>>

MCInit == Init /\ F!Init /\ at \in {"directory", "factor"}

MCNext ==
  /\ at' = at
  /\ \/ at = "directory" /\ Next /\ UNCHANGED factorVars
     \/ at = "factor" /\ F!Next /\ UNCHANGED vars

MCSpec == MCInit /\ [][MCNext]_<<vars, factorVars, at>>

\* An enabled factor has a secret that a confirmation has verified, unless a
\* commit fell on a row that had changed under it (MfaEnrollment).
EnabledSecretIsProven == F!EnabledSecretIsProven

\* The provider tells an address of one subject and none of the other; both are
\* given the same names.
MCAddressOf == (s1 :> ann) @@ (s2 :> "")
MCNamesOf == (s1 :> <<"ann", "ann1">>) @@ (s2 :> <<"ann", "ann1">>)

Symmetry == Permutations(Workers)
=============================================================================
